------------------------------ MODULE WebLink ------------------------------
(***************************************************************************)
(* How the web daemon asks the database daemon for a change, as far as the *)
(* modules of the core's threads need it: it sends one request to mq_to_db *)
(* and waits 2 s in mq_db_to_web. The answer to a request it gave up stays *)
(* in that queue and ends the wait of the next. What the answers say is    *)
(* left out.                                                               *)
(***************************************************************************)
EXTENDS Actuation

CONSTANTS
  WebCap,      \* capacity of mq_db_to_web (10)
  MaxRequests  \* bound: requests sent by the web daemon

ASSUME WebLinkAssumption ==
  /\ WebCap \in Nat \ {0}
  /\ MaxRequests \in Nat

VARIABLES
  dbAnswers,   \* the database daemon has yet to answer the web daemon
  webReplies,  \* answers in mq_db_to_web
  webWaits,    \* the web daemon waits for an answer
  requests     \* requests sent so far

webVars == <<dbAnswers, webReplies, webWaits, requests>>

WebInit ==
  /\ dbAnswers = FALSE
  /\ webReplies = 0
  /\ webWaits = FALSE
  /\ requests = 0

WebRequest(m) ==
  /\ ~webWaits
  /\ requests < MaxRequests
  /\ SendOther(m)
  /\ webWaits' = TRUE
  /\ requests' = requests + 1
  /\ UNCHANGED <<dbAnswers, webReplies>>

(* An answer is taken, or there was none for 2 s. *)
WebReceive ==
  /\ webWaits
  /\ webWaits' = FALSE
  /\ webReplies' = IF webReplies > 0 THEN webReplies - 1 ELSE 0
  /\ UNCHANGED <<vars, dbAnswers, requests>>

AnswerWeb ==
  /\ dbAnswers
  /\ webReplies < WebCap
  /\ webReplies' = webReplies + 1
  /\ dbAnswers' = FALSE
  /\ UNCHANGED <<vars, webWaits, requests>>

(* The database daemon waits for room in mq_db_to_web, which nobody makes   *)
(* before the web daemon waits for its next answer.                         *)
AnswerBlocked == dbAnswers /\ webReplies = WebCap /\ ~webWaits

WebTypeOK ==
  /\ dbAnswers \in BOOLEAN
  /\ webReplies \in 0..WebCap
  /\ webWaits \in BOOLEAN
  /\ requests \in 0..MaxRequests
=============================================================================
