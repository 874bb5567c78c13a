----------------------------- MODULE WebServer -----------------------------
(***************************************************************************)
(* The web daemon: one event loop that answers one page at a time, each by *)
(* a request to the database daemon and a wait of 2 s for the answer; and  *)
(* the sessions it keeps. Requests carry no number, so the answer to one   *)
(* that was given up is taken for the answer to a later one: the id of a   *)
(* request and of its answer is there for the properties only. Of an       *)
(* answer the model keeps what the handlers depend on, the shape of its    *)
(* JSON. The other senders to mq_to_db are the threads of the core.        *)
(***************************************************************************)
EXTENDS Naturals, Sequences, FiniteSets

CONSTANTS
  People,      \* who use the pages, each from a browser of their own
  Level,       \* the AccessLevel of each in the Users table
  NoOne,       \* the browser has no session cookie
  DbCap,       \* capacity of mq_to_db (20)
  WebCap,      \* capacity of mq_db_to_web (10)
  MaxRequests  \* bound: requests sent to the database daemon

(* LIST: users or assets; READ: sensors, actuators, logs; CHANGE: of a      *)
(* user, an asset or the settings, and a look at the settings.              *)
Open  == {"LOGIN", "REGISTER"}
Kinds == Open \union {"DASHBOARD", "READ", "LIST", "CHANGE"}
Needs(kind) == IF kind \in {"LIST", "CHANGE"} THEN 1 ELSE 0

(* right: the password is that of the user the request names. *)
Request == [id : 1..MaxRequests, kind : Kinds, who : People, right : BOOLEAN]
NoRequest == [id |-> 0, kind |-> "none", who |-> NoOne, right |-> FALSE]
CoreMsg   == [id |-> 0, kind |-> "core", who |-> NoOne, right |-> FALSE]

(* "user": the object of handleLogin; "cut": JSON that did not fit into     *)
(* jsonData; "error": success is false.                                     *)
Shapes == {"user", "object", "array", "cut", "error"}
Answer == [id : 1..MaxRequests, shape : Shapes, who : People]

ASSUME WebServerAssumption ==
  /\ Level \in [People -> 0..2]
  /\ NoOne \notin People
  /\ DbCap \in Nat \ {0}
  /\ WebCap \in Nat \ {0}
  /\ MaxRequests \in Nat

VARIABLES
  at,             \* where the event loop is
  current,        \* the request being handled
  sent,           \* requests sent so far
  sessions,       \* m_sessions: the user of each token
  expired,        \* tokens of sessions that are out of time
  cookie,         \* the token in each browser's cookie; 0 is none
  running,        \* m_running
  mqToDatabase,   \* messages waiting for the database daemon
  dbHand,         \* the request the database daemon is handling
  mqFromDatabase, \* answers waiting for the web daemon
  proved          \* who has sent a login with the right password

sessionVars == <<sessions, expired, cookie>>
queues == <<mqToDatabase, dbHand, mqFromDatabase>>
webVars == <<at, current, sent, sessionVars, running, queues, proved>>

WebInit ==
  /\ at = "idle"
  /\ current = NoRequest
  /\ sent = 0
  /\ sessions = [t \in {} |-> NoOne]
  /\ expired = {}
  /\ cookie = [p \in People |-> 0]
  /\ running = TRUE
  /\ mqToDatabase = << >>
  /\ dbHand = NoRequest
  /\ mqFromDatabase = << >>
  /\ proved = {}

-----------------------------------------------------------------------------
(* The sessions. *)

Without(ts) == [t \in DOMAIN sessions \ ts |-> sessions[t]]

Valid(p) == cookie[p] \in DOMAIN sessions \ expired

(* validateSession erases a session it finds out of time. *)
validateSession(p) ==
  /\ sessions' = Without({cookie[p]} \intersect expired)
  /\ expired' = expired \ {cookie[p]}
  /\ UNCHANGED cookie

cleanExpiredSessions ==
  /\ at = "idle"
  /\ sessions' = Without(expired)
  /\ expired' = {}
  /\ UNCHANGED <<at, current, sent, cookie, running, queues, proved>>

(* An hour has gone by since the login. *)
Expire(t) ==
  /\ t \in DOMAIN sessions \ expired
  /\ expired' = expired \union {t}
  /\ UNCHANGED <<at, current, sent, sessions, cookie, running, queues, proved>>

handleLogout(p) ==
  /\ at = "idle"
  /\ sessions' = Without({cookie[p]})
  /\ expired' = expired \ {cookie[p]}
  /\ cookie' = [cookie EXCEPT ![p] = 0]
  /\ UNCHANGED <<at, current, sent, running, queues, proved>>

-----------------------------------------------------------------------------
(* The handlers. *)

Allowed(p, kind) ==
  kind \in Open \/ (Valid(p) /\ Level[sessions[cookie[p]]] >= Needs(kind))

(* A page asks for something; what is not allowed is answered at once. Some *)
(* pages may still be served before the loop looks at m_running.            *)
Handle(p, kind, right) ==
  /\ at = "idle"
  /\ sent < MaxRequests
  /\ IF kind \in Open THEN UNCHANGED sessionVars ELSE validateSession(p)
  /\ IF Allowed(p, kind)
     THEN /\ at' = "send"
          /\ current' = [id |-> sent + 1, kind |-> kind, who |-> p,
                         right |-> right]
     ELSE UNCHANGED <<at, current>>
  /\ UNCHANGED <<sent, running, queues, proved>>

(* mq_send blocks while the queue is full. *)
PostDb(m) ==
  /\ Len(mqToDatabase) < DbCap
  /\ mqToDatabase' = Append(mqToDatabase, m)

Send ==
  /\ at = "send"
  /\ PostDb(current)
  /\ at' = "receive"
  /\ sent' = current.id
  /\ proved' = IF current.kind = "LOGIN" /\ current.right
               THEN proved \union {current.who} ELSE proved
  /\ UNCHANGED <<current, sessionVars, running, dbHand, mqFromDatabase>>

(* The handler is done; the browser has its page. *)
Finish == at' = "idle" /\ current' = NoRequest

(* No answer for 2 s. *)
ReceiveTimeout ==
  /\ at = "receive"
  /\ mqFromDatabase = << >>
  /\ Finish
  /\ UNCHANGED <<sent, sessionVars, running, queues, proved>>

(* The first answer in the queue is taken, whichever request it is to. *)
Answered == Head(mqFromDatabase)

TakeAnswer ==
  /\ at = "receive"
  /\ mqFromDatabase # << >>
  /\ mqFromDatabase' = Tail(mqFromDatabase)
  /\ UNCHANGED <<sent, running, mqToDatabase, dbHand, proved>>

(* The JSON library throws when the text is cut, when the members of a      *)
(* login are not in the answer, and when a member is set in an array;       *)
(* nobody catches.                                                          *)
Throws ==
  \/ Answered.shape = "cut"
  \/ current.kind = "LOGIN" /\ Answered.shape \notin {"user", "error"}
  \/ current.kind = "DASHBOARD" /\ Answered.shape = "array"

ReceiveThrows ==
  /\ TakeAnswer
  /\ Throws
  /\ at' = "down"
  /\ UNCHANGED <<current, sessionVars>>

LogsIn == current.kind = "LOGIN" /\ Answered.shape = "user"

(* A new session, for the user the answer names. *)
ReceiveLogin ==
  /\ TakeAnswer
  /\ LogsIn
  /\ sessions' = [t \in DOMAIN sessions \union {current.id} |->
                    IF t = current.id THEN Answered.who ELSE sessions[t]]
  /\ cookie' = [cookie EXCEPT ![current.who] = current.id]
  /\ Finish
  /\ UNCHANGED expired

ReceiveOther ==
  /\ TakeAnswer
  /\ ~Throws /\ ~LogsIn
  /\ Finish
  /\ UNCHANGED sessionVars

-----------------------------------------------------------------------------
(* The database daemon. *)

DbReceive ==
  /\ dbHand = NoRequest
  /\ mqToDatabase # << >>
  /\ mqToDatabase' = Tail(mqToDatabase)
  /\ dbHand' = IF Head(mqToDatabase) = CoreMsg THEN NoRequest
               ELSE Head(mqToDatabase)
  /\ UNCHANGED <<at, current, sent, sessionVars, running, mqFromDatabase, proved>>

(* What the handler of a request may answer. A definition with a two-part   *)
(* name is a plausible bug of the one after it.                             *)
ShapesOf_AnyPassword(r) ==
  CASE r.kind = "LOGIN" -> {"user"}
    [] r.kind \in {"REGISTER", "CHANGE"} -> {"object", "error"}
    [] r.kind = "DASHBOARD" -> {"object"}
    [] r.kind = "READ" -> {"object", "cut"}
    [] r.kind = "LIST" -> {"array", "cut"}

ShapesOf(r) ==
  CASE r.kind = "LOGIN" -> {IF r.right THEN "user" ELSE "error"}
    [] r.kind \in {"REGISTER", "CHANGE"} -> {"object", "error"}
    [] r.kind = "DASHBOARD" -> {"object"}
    [] r.kind = "READ" -> {"object", "cut"}
    [] r.kind = "LIST" -> {"array", "cut"}

DbAnswer_NotOnError(shape) ==
  /\ dbHand # NoRequest
  /\ shape \in ShapesOf(dbHand)
  /\ Len(mqFromDatabase) < WebCap
  /\ mqFromDatabase' =
       IF shape = "error" THEN mqFromDatabase
       ELSE Append(mqFromDatabase,
                   [id |-> dbHand.id, shape |-> shape, who |-> dbHand.who])
  /\ dbHand' = NoRequest
  /\ UNCHANGED <<at, current, sent, sessionVars, running, mqToDatabase, proved>>

DbAnswer(shape) ==
  /\ dbHand # NoRequest
  /\ shape \in ShapesOf(dbHand)
  /\ Len(mqFromDatabase) < WebCap
  /\ mqFromDatabase' = Append(mqFromDatabase,
       [id |-> dbHand.id, shape |-> shape, who |-> dbHand.who])
  /\ dbHand' = NoRequest
  /\ UNCHANGED <<at, current, sent, sessionVars, running, mqToDatabase, proved>>

(* A thread of the core sends something that the web daemon has no part in. *)
CoreSend ==
  /\ PostDb(CoreMsg)
  /\ UNCHANGED <<at, current, sent, sessionVars, running, dbHand,
                 mqFromDatabase, proved>>

-----------------------------------------------------------------------------
(* The end. *)

Stop ==
  /\ running
  /\ running' = FALSE
  /\ UNCHANGED <<at, current, sent, sessionVars, queues, proved>>

EndRun_WhenDrained ==
  /\ at = "idle" /\ ~running /\ mqFromDatabase = << >>
  /\ at' = "ended"
  /\ UNCHANGED <<current, sent, sessionVars, running, queues, proved>>

EndRun ==
  /\ at = "idle" /\ ~running
  /\ at' = "ended"
  /\ UNCHANGED <<current, sent, sessionVars, running, queues, proved>>

eventHandler ==
  \/ \E p \in People, kind \in Kinds \ {"LOGIN"} : Handle(p, kind, FALSE)
  \/ \E p \in People, right \in BOOLEAN : Handle(p, "LOGIN", right)
  \/ \E p \in People : handleLogout(p)

Finishing == Send \/ ReceiveTimeout \/ ReceiveThrows \/ ReceiveLogin \/ ReceiveOther

dDatabase == DbReceive \/ \E shape \in Shapes : DbAnswer(shape)

WebNext ==
  \/ eventHandler \/ Finishing
  \/ cleanExpiredSessions
  \/ \E t \in 1..MaxRequests : Expire(t)
  \/ dDatabase
  \/ CoreSend
  \/ Stop \/ EndRun

WebSpec == WebInit /\ [][WebNext]_webVars

(* Both daemons are scheduled; a blocked send gets the slot the next        *)
(* receive frees; the loop comes round, whatever the pages ask meanwhile.   *)
WebFairness ==
  /\ WF_webVars(Finishing)
  /\ SF_webVars(Send)
  /\ WF_webVars(dDatabase)
  /\ SF_webVars(EndRun)

FairWebSpec == WebSpec /\ WebFairness

-----------------------------------------------------------------------------
(* Every variable has its type. *)
WebServerTypeOK ==
  /\ at \in {"idle", "send", "receive", "down", "ended"}
  /\ current \in Request \union {NoRequest}
  /\ at \in {"send", "receive"} => current # NoRequest
  /\ sent \in 0..MaxRequests
  /\ DOMAIN sessions \subseteq 1..sent
  /\ \A t \in DOMAIN sessions : sessions[t] \in People
  /\ expired \subseteq DOMAIN sessions
  /\ cookie \in [People -> 0..sent]
  /\ running \in BOOLEAN
  /\ mqToDatabase \in Seq(Request \union {CoreMsg})
  /\ Len(mqToDatabase) <= DbCap
  /\ dbHand \in Request \union {NoRequest}
  /\ mqFromDatabase \in Seq(Answer)
  /\ Len(mqFromDatabase) <= WebCap
  /\ proved \subseteq People

(* The requests in mq_to_db, by their places. *)
Asked == {i \in 1..Len(mqToDatabase) : mqToDatabase[i] # CoreMsg}

(* How many of them are behind place i. *)
AskedAfter(i) == Cardinality({j \in Asked : j > i})

(* The latest request the database daemon has taken. *)
Taken == sent - AskedAfter(0)

(* Every request is answered once and in order: those under way are the     *)
(* latest ones without a gap, in mq_to_db, in the daemon's hand and as      *)
(* answers in mq_db_to_web, and while a handler waits its own is among      *)
(* them, behind the answers that came too late for earlier handlers         *)
(* (dWebServer.cpp:144-145; every handler of dDatabase.cpp ends in one      *)
(* m_mqToWeb.send).                                                         *)
AnswersInOrder ==
  /\ \A i \in Asked : mqToDatabase[i].id = sent - AskedAfter(i)
  /\ dbHand # NoRequest => dbHand.id = Taken
  /\ \A i \in 1..Len(mqFromDatabase) :
       mqFromDatabase[i].id = Taken - (IF dbHand = NoRequest THEN 0 ELSE 1)
                              - (Len(mqFromDatabase) - i)
  /\ at = "receive" =>
       /\ current.id = sent
       /\ Asked # {} \/ dbHand # NoRequest \/ mqFromDatabase # << >>

(* How many answers to earlier requests are still to come, or wait already: *)
(* all that is under way but the request of the handler that waits.         *)
Lag == AskedAfter(0) + (IF dbHand = NoRequest THEN 0 ELSE 1)
       + Len(mqFromDatabase) - (IF at = "receive" THEN 1 ELSE 0)

(* One answer that comes too late is never made up for: each wait that is   *)
(* given up puts every later page one answer further behind, nothing brings *)
(* it back, and a page is always made from the answer to the request Lag    *)
(* before its own (dWebServer.cpp:144-145, and so every handler).           *)
LateForGood ==
  [][/\ Lag' = Lag \/ (ReceiveTimeout /\ Lag' = Lag + 1)
     /\ TakeAnswer => Answered.id = current.id - Lag]_webVars

(* However late and mixed up the answers are, a session is only ever that   *)
(* of somebody who sent the right password (dWebServer.cpp:146-159;         *)
(* dDatabase.cpp:560).                                                      *)
SessionsWereProved == \A t \in DOMAIN sessions : sessions[t] \in proved

(* Both daemons wait for room, and only the other makes some. *)
WaitForOneAnother ==
  /\ at = "send" /\ Len(mqToDatabase) = DbCap
  /\ dbHand # NoRequest /\ Len(mqFromDatabase) = WebCap

(* After stop() the server ends, whatever it was waiting for, unless it     *)
(* has ended in an exception or the two daemons wait for one another        *)
(* (main_web.cpp:123 "Blocks until stop() is called by the signal           *)
(* handler.").                                                              *)
StopEndsServer ==
  ~running ~> (at \in {"ended", "down"} \/ WaitForOneAnother)

(* The page a browser gets is made from the answer to its own request       *)
(* (dWebServer.h:48 "HTTP handlers -> DB commands -> JSON responses.").     *)
AnswersAreMine ==
  [][at = "receive" /\ mqFromDatabase' # mqFromDatabase
       /\ Len(mqFromDatabase') < Len(mqFromDatabase)
     => Answered.id = current.id]_webVars
=============================================================================
