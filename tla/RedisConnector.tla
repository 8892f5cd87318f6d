--------------------------- MODULE RedisConnector ---------------------------
(***************************************************************************)
(* One RedisConnector (redis_connector.cpp) and the Redis server it talks   *)
(* to: Connect with its AUTH exchange, and the retry loop of                *)
(* ExecuteRedisCmd.  The sink's mutex serialises the calls, so there is one *)
(* call at a time.                                                         *)
(*                                                                         *)
(* The server is external.  It may refuse connections, lose a request or    *)
(* its answer, and change what it answers at any time (a failover makes it  *)
(* a read-only replica, it loads its dataset, it runs out of memory).  A    *)
(* connector configured with an empty ip or port 0 behaves as one whose     *)
(* connections are all refused.                                            *)
(***************************************************************************)
EXTENDS Integers

MaxTries == 3       \* while (retry_cnt < 3)
Pending  == 1       \* not a value a call returns: it has not returned yet

VARIABLES pc,           \* "new": in the constructor, "idle": between calls,
                        \* "loop": at the loop of ExecuteRedisCmd, "sent": in redisvCommand,
          \* "crashed": dereferenced NULL
          redis,        \* redis_: "none", "plain" or, after a good AUTH, "authed"
          reply,        \* reply_: "none" or an "error" reply nobody freed
          ret,          \* the local ret of the current or last call
          retryCnt,     \* its retry_cnt
          result,       \* what the last call returned, or Pending
          faults,       \* history: failed connections and NULL replies in this call
          refused,      \* history: an error reply was received in this call
          executed,     \* how often the server executed this call's command
          acked,        \* the call got the server's answer that it did
          verdict,      \* what the server answers to the command at present
          requirepass,  \* the password the server wants: "none", "ours", "another"
          needPassword  \* RedisConnectConfig::need_password

callVars   == <<pc, ret, retryCnt, result>>
history    == <<faults, refused, executed, acked>>
serverVars == <<verdict, requirepass, needPassword>>
vars == <<callVars, redis, reply, history, serverVars>>

Verdicts == {"integer", "READONLY", "NOSCRIPT", "other"}

TypeOK ==
    /\ pc \in {"new", "idle", "loop", "sent", "crashed"}
    /\ redis \in {"none", "plain", "authed"}
    /\ reply \in {"none", "error"}
    /\ ret \in {0, -1}
    /\ retryCnt \in 0..MaxTries
    /\ result \in {Pending, 0, -1, -2, -3}
    /\ faults \in 0..MaxTries
    /\ refused \in BOOLEAN
    /\ executed \in 0..MaxTries
    /\ acked \in BOOLEAN
    /\ verdict \in Verdicts
    /\ requirepass \in {"none", "ours", "another"}
    /\ needPassword \in BOOLEAN

Init ==
    /\ pc = "new"
    /\ redis = "none"
    /\ reply = "none"
    /\ ret = -1
    /\ retryCnt = 0
    /\ result = Pending
    /\ faults = 0
    /\ refused = FALSE
    /\ executed = 0
    /\ acked = FALSE
    /\ verdict \in Verdicts
    /\ requirepass \in {"none", "ours", "another"}
    /\ needPassword \in BOOLEAN

-----------------------------------------------------------------------------
(* Connect and Auth: what they may leave behind, and what they return.     *)

ConnectRefused ==
    /\ redis' = "none"
    /\ UNCHANGED reply

ConnectOpens ==
    /\ ~needPassword
    /\ redis' = "plain"
    /\ UNCHANGED reply

AuthAccepted ==
    /\ needPassword
    /\ requirepass = "ours"
    /\ redis' = "authed"
    /\ reply' = "none"

\* Auth returns -1 and Connect with it, but redis_ stays connected and the
\* error reply stays in reply_.
AuthRefused ==
    /\ needPassword
    /\ requirepass # "ours"
    /\ redis' = "plain"
    /\ reply' = "error"

\* The AUTH answer is lost: Auth reads reply_->type through a null pointer.
AuthLost ==
    /\ needPassword
    /\ pc' = "crashed"
    /\ redis' = "plain"
    /\ reply' = "none"

\* The constructor's Connect, whose result RedisReserve ignores.
Construct ==
    /\ pc = "new"
    /\ \/ (ConnectRefused \/ ConnectOpens \/ AuthAccepted \/ AuthRefused) /\ pc' = "idle"
       \/ AuthLost
    /\ UNCHANGED <<ret, retryCnt, result, history, serverVars>>

-----------------------------------------------------------------------------
(* ExecuteRedisCmd.                                                        *)

Call ==
    /\ pc = "idle"
    /\ pc' = "loop"
    /\ ret' = -1
    /\ retryCnt' = 0
    /\ result' = Pending
    /\ faults' = 0
    /\ refused' = FALSE
    /\ executed' = 0
    /\ acked' = FALSE
    /\ UNCHANGED <<redis, reply, serverVars>>

InLoop == pc = "loop" /\ retryCnt < MaxTries
InCall == pc \in {"loop", "sent"}

\* Mutant: a successful Connect makes the loop count its tries afresh.
ReconnectForgetful ==
    /\ InLoop
    /\ redis = "none"
    /\ \/ /\ ConnectOpens \/ AuthAccepted
          /\ ret' = 0
          /\ retryCnt' = 0
          /\ UNCHANGED <<pc, faults, refused>>
       \/ /\ ConnectRefused \/ AuthRefused
          /\ ret' = -1
          /\ retryCnt' = retryCnt + 1
          /\ faults' = IF redis' = "none" THEN faults + 1 ELSE faults
          /\ refused' = (refused \/ redis' # "none")
          /\ UNCHANGED pc
       \/ /\ AuthLost
          /\ UNCHANGED <<ret, retryCnt, faults, refused>>
    /\ UNCHANGED <<result, executed, acked, serverVars>>

\* if (nullptr == redis_) ret = Connect(), a failure counting as a try.
ConnectInLoop ==
    /\ InLoop
    /\ redis = "none"
    /\ \/ /\ ConnectOpens \/ AuthAccepted
          /\ ret' = 0
          /\ UNCHANGED <<pc, retryCnt, faults, refused>>
       \/ /\ ConnectRefused \/ AuthRefused
          /\ ret' = -1
          /\ retryCnt' = retryCnt + 1
          /\ faults' = IF redis' = "none" THEN faults + 1 ELSE faults
          /\ refused' = (refused \/ redis' # "none")
          /\ UNCHANGED pc
       \/ /\ AuthLost
          /\ UNCHANGED <<ret, retryCnt, faults, refused>>
    /\ UNCHANGED <<result, executed, acked, serverVars>>

\* redisvCommand formats the command and writes it to the socket.
Send ==
    /\ InLoop
    /\ redis # "none"
    /\ pc' = "sent"
    /\ UNCHANGED <<redis, reply, ret, retryCnt, result, history, serverVars>>

\* What the server answers on this connection.
Answer == IF redis = "plain" /\ requirepass # "none" THEN "other" ELSE verdict

\* Mutant: a NULL reply ends the call, with the ret of the last Connect.
ReplyLostReturns ==
    /\ pc = "sent"
    /\ \/ executed' = executed + 1 /\ Answer = "integer"
       \/ UNCHANGED executed
    /\ redis' = "none"
    /\ reply' = "none"
    /\ retryCnt' = retryCnt + 1
    /\ faults' = faults + 1
    /\ pc' = "idle"
    /\ result' = ret
    /\ UNCHANGED <<ret, refused, acked, serverVars>>

\* Mutant: a NULL reply frees the connection and tries again, uncounted.
ReplyLostUncounted ==
    /\ pc = "sent"
    /\ UNCHANGED executed
    /\ redis' = "none"
    /\ reply' = "none"
    /\ faults' = IF faults < MaxTries THEN faults + 1 ELSE faults
    /\ pc' = "loop"
    /\ UNCHANGED <<ret, retryCnt, result, refused, acked, serverVars>>

\* The connection breaks before the request arrives, or before its answer
\* does: redisvCommand returns NULL either way, and the context is freed.
ReplyLost ==
    /\ pc = "sent"
    /\ \/ executed' = executed + 1 /\ Answer = "integer"
       \/ UNCHANGED executed
    /\ redis' = "none"
    /\ reply' = "none"
    /\ retryCnt' = retryCnt + 1
    /\ faults' = faults + 1
    /\ pc' = "loop"
    /\ UNCHANGED <<ret, result, refused, acked, serverVars>>

\* hset and hdel answer with an integer: the call is over.
Acknowledged ==
    /\ pc = "sent"
    /\ Answer = "integer"
    /\ executed' = executed + 1
    /\ acked' = TRUE
    /\ ret' = 0
    /\ reply' = "none"
    /\ pc' = "idle"
    /\ result' = 0
    /\ UNCHANGED <<redis, retryCnt, faults, refused, serverVars>>

\* A READONLY or NOSCRIPT error is returned as -2 or -3, its reply kept.
ErrorReturned ==
    /\ pc = "sent"
    /\ Answer \in {"READONLY", "NOSCRIPT"}
    /\ reply' = "error"
    /\ refused' = TRUE
    /\ pc' = "idle"
    /\ result' = IF Answer = "READONLY" THEN -2 ELSE -3
    /\ UNCHANGED <<redis, ret, retryCnt, faults, executed, acked, serverVars>>

\* Any other error neither returns nor counts as a try: round the loop again.
ErrorRetried ==
    /\ pc = "sent"
    /\ Answer = "other"
    /\ reply' = "error"
    /\ refused' = TRUE
    /\ pc' = "loop"
    /\ UNCHANGED <<ret, retryCnt, result, redis, faults, executed, acked, serverVars>>

\* Mutant: the loop gives up after two tries.
GiveUpEarly ==
    /\ pc = "loop"
    /\ retryCnt >= MaxTries - 1
    /\ reply' = "none"
    /\ pc' = "idle"
    /\ result' = ret
    /\ UNCHANGED <<redis, ret, retryCnt, history, serverVars>>

\* The tries are used up: the last reply, if any, is freed.
GiveUp ==
    /\ pc = "loop"
    /\ retryCnt = MaxTries
    /\ reply' = "none"
    /\ pc' = "idle"
    /\ result' = ret
    /\ UNCHANGED <<redis, ret, retryCnt, history, serverVars>>

-----------------------------------------------------------------------------
\* The server is demoted or promoted, loads its data, fills its memory.
ServerChanges ==
    /\ verdict' \in Verdicts \ {verdict}
    /\ UNCHANGED <<callVars, redis, reply, history, requirepass, needPassword>>

Step ==
    \/ Construct
    \/ ConnectInLoop
    \/ Send
    \/ ReplyLost
    \/ Acknowledged
    \/ ErrorReturned
    \/ ErrorRetried
    \/ GiveUp

Next == Call \/ Step \/ ServerChanges

Spec == Init /\ [][Next]_vars

\* Each call of the client library returns, with a reply or without.
FairSpec == Spec /\ WF_vars(Step)

-----------------------------------------------------------------------------
(* Properties.                                                             *)

\* A finished call has met three faults or an error reply, or the server has
\* acknowledged its command and it returned 0.  So two broken connections in
\* a row cost no command, in whatever state earlier calls left the connector.
ToleratesTwoFaults ==
    result # Pending /\ faults < MaxTries /\ ~refused => acked /\ result = 0

\* A call that returns 0 without an acknowledgement has used up all its tries
\* (ret is left over from the last successful Connect).
FalseSuccessOnlyExhausted ==
    result = 0 /\ ~acked => retryCnt = MaxTries

\* Retrying executes a command at most three times, counting the executions
\* whose answers were lost.
AtMostThreeExecutions == executed <= MaxTries

\* A call ends, provided that from some time on the server neither answers
\* with errors that the loop does not count nor wants another password.
CallReturns ==
    <>[](verdict # "other" /\ Answer # "other") => (InCall ~> ~InCall)

(* What redis_connector.h says of ExecuteRedisCmd, and the code does not do. *)

\* "returns 0 on success, -1 on failure (reply is null ...)": 0 means that the
\* server answered.
ZeroMeansAnswered == result = 0 => acked

\* "... -4 (other)": an error other than READONLY and NOSCRIPT ends the call.
OtherErrorsReturn == InCall ~> ~InCall

-----------------------------------------------------------------------------
(* The inductive invariant behind the safety properties.                   *)

\* Inside a call: every fault was counted as a try and, without error replies,
\* every try was a fault; the server executed the command at most once a try,
\* and no answer said so.
CallInv ==
    /\ faults <= retryCnt
    /\ ~refused => faults = retryCnt
    /\ InCall => ~acked /\ executed <= retryCnt /\ result = Pending
    /\ pc = "sent" => retryCnt < MaxTries
    /\ acked => result = 0
    /\ ~acked /\ result \in {0, -1} => retryCnt = MaxTries
    /\ ~acked /\ result \in {-2, -3} => refused
    /\ executed <= retryCnt + 1

ConnectorInv == TypeOK /\ CallInv

=============================================================================
