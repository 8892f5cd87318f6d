------------------------ MODULE RedisConnectorProofs ------------------------
(***************************************************************************)
(* Proofs about RedisConnector: what a call of ExecuteRedisCmd returns is    *)
(* tied to the faults it met and to what the server did, over any sequence  *)
(* of calls, reconnections and changes of the server.                      *)
(***************************************************************************)
EXTENDS RedisConnector, TLAPS

\* The constructor and each step inside or between calls keep ConnectorInv:
\* every fault is counted as a try, and every try may have executed the
\* command once.
LEMMA ConnectorStep ==
    ASSUME ConnectorInv, [Next]_vars
    PROVE  ConnectorInv'
<1> USE DEF ConnectorInv, TypeOK, CallInv, InCall, MaxTries, Pending, Verdicts
<1>1. CASE Call
  <2>1. TypeOK'
    <3>1. refused' \in BOOLEAN /\ acked' \in BOOLEAN
      BY <1>1 DEF Call
    <3> QED
      BY <1>1, <3>1 DEF Call, serverVars
  <2>2. CallInv'
    BY <1>1 DEF Call
  <2> QED
    BY <2>1, <2>2
<1>2. CASE Construct
  BY <1>2 DEF Construct, ConnectRefused, ConnectOpens, AuthAccepted, AuthRefused, AuthLost,
              history, serverVars
<1>3. CASE ConnectInLoop
  <2>1. CASE ConnectOpens \/ AuthAccepted
    BY <1>3, <2>1 DEF ConnectInLoop, InLoop, ConnectOpens, AuthAccepted, ConnectRefused,
                      AuthRefused, AuthLost, serverVars
  <2>2. CASE ConnectRefused \/ AuthRefused
    BY <1>3, <2>2 DEF ConnectInLoop, InLoop, ConnectOpens, AuthAccepted, ConnectRefused,
                      AuthRefused, AuthLost, serverVars
  <2>3. CASE AuthLost
    BY <1>3, <2>3 DEF ConnectInLoop, InLoop, ConnectOpens, AuthAccepted, ConnectRefused,
                      AuthRefused, AuthLost, serverVars
  <2> QED
    BY <1>3, <2>1, <2>2, <2>3 DEF ConnectInLoop
<1>4. CASE Send
  BY <1>4 DEF Send, InLoop, history, serverVars
<1>5. CASE ReplyLost
  BY <1>5 DEF ReplyLost, serverVars
<1>6. CASE Acknowledged
  BY <1>6 DEF Acknowledged, serverVars
<1>7. CASE ErrorReturned
  BY <1>7 DEF ErrorReturned, serverVars
<1>8. CASE ErrorRetried
  BY <1>8 DEF ErrorRetried, serverVars
<1>9. CASE GiveUp
  BY <1>9 DEF GiveUp, history, serverVars
<1>10. CASE ServerChanges
  BY <1>10 DEF ServerChanges, callVars, history
<1>11. CASE UNCHANGED vars
  BY <1>11 DEF vars, callVars, history, serverVars
<1> QED
  BY <1>1, <1>2, <1>3, <1>4, <1>5, <1>6, <1>7, <1>8, <1>9, <1>10, <1>11 DEF Next, Step

\* ConnectorInv holds in every state of the connector and its server.
THEOREM ConnectorInductive == Spec => []ConnectorInv
<1>1. Init => ConnectorInv
  <2> SUFFICES ASSUME Init PROVE ConnectorInv
    OBVIOUS
  <2>1. TypeOK
    <3>1. refused \in BOOLEAN /\ acked \in BOOLEAN
      BY DEF Init
    <3> QED
      BY <3>1 DEF Init, TypeOK, MaxTries, Pending
  <2>2. CallInv
    BY DEF Init, CallInv, InCall, MaxTries, Pending
  <2> QED
    BY <2>1, <2>2 DEF ConnectorInv
<1>2. ConnectorInv /\ [Next]_vars => ConnectorInv'
  BY ConnectorStep
<1> QED
  BY <1>1, <1>2, PTL DEF Spec

\* The connector, its history and the server keep their types.
THEOREM ConnectorTypeCorrect == Spec => []TypeOK
<1>1. ConnectorInv => TypeOK
  BY DEF ConnectorInv
<1> QED
  BY <1>1, ConnectorInductive, PTL

\* Up to two broken connections or lost answers cost no command: the call
\* returns 0 and the server has acknowledged it.
THEOREM ConnectorToleratesTwoFaults == Spec => []ToleratesTwoFaults
<1>1. ConnectorInv => ToleratesTwoFaults
  BY DEF ConnectorInv, CallInv, TypeOK, ToleratesTwoFaults, MaxTries, Pending
<1> QED
  BY <1>1, ConnectorInductive, PTL

\* A false success is possible only when all three tries are used up.
THEOREM ConnectorFalseSuccess == Spec => []FalseSuccessOnlyExhausted
<1>1. ConnectorInv => FalseSuccessOnlyExhausted
  BY DEF ConnectorInv, CallInv, FalseSuccessOnlyExhausted
<1> QED
  BY <1>1, ConnectorInductive, PTL

\* No call executes its command more than three times.
THEOREM ConnectorAtMostThree == Spec => []AtMostThreeExecutions
<1>1. ConnectorInv => AtMostThreeExecutions
  BY DEF ConnectorInv, TypeOK, AtMostThreeExecutions, MaxTries
<1> QED
  BY <1>1, ConnectorInductive, PTL

=============================================================================
