------------------------- MODULE LightningTrade_proofs -------------------------
(***************************************************************************)
(* What holds of the retries of a trade for every number of calls and of   *)
(* attempts, whatever the service does.                                    *)
(***************************************************************************)
EXTENDS LightningTrade, FiniteSetTheorems, TLAPS

-----------------------------------------------------------------------------
(* The inductive invariant.                                                *)

\* A service that answered with status has done this to the request.
Agrees(status, fate) ==
    /\ status = "ok" => fate = "executed"
    /\ status \in {"refused", "busy"} => fate = "dropped"

\* What the attempts ended with: only the last one ended the call.
SeenInv(c) ==
    /\ \A i \in 1..Len(seen[c]) :
          /\ Agrees(seen[c][i], post[c][i - 1])
          /\ i < Len(seen[c]) \/ ~Returned(c) => Retried(seen[c][i])
    /\ ~Returned(c) => Len(seen[c]) = attempt[c]
    /\ Len(seen[c]) \in {attempt[c], attempt[c] + 1}

\* The request of this attempt is out only while the call waits, and an answer
\* is on its way to a call that waits for it.
PostInv(c) ==
    /\ \A k \in Attempts : k > attempt[c] => post[c][k] = "none"
    /\ pc[c] \in {"send", "backoff"} => post[c][attempt[c]] = "none"
    /\ reply[c] # "none" => pc[c] = "wait" /\ Agrees(reply[c], post[c][attempt[c]])

CallInv(c) == SeenInv(c) /\ PostInv(c)

Inv ==
    /\ TypeOK
    /\ \A c \in Calls : CallInv(c)

-----------------------------------------------------------------------------
LEMMA InvInit == Init => Inv
<1> SUFFICES ASSUME Init PROVE Inv
  OBVIOUS
<1> USE TradeAssumption
<1>1. 0 \in Attempts
  BY DEF Attempts
<1>2. TypeOK
  BY <1>1 DEF Init, TypeOK
<1>3. ASSUME NEW c \in Calls PROVE CallInv(c)
  BY <1>1 DEF Init, CallInv, SeenInv, PostInv, Returned
<1>4. QED
  BY <1>2, <1>3 DEF Inv

\* A step of one call leaves the others as they are.
LEMMA OtherCalls ==
    ASSUME Inv, NEW c \in Calls, NEW d \in Calls \ {c},
           pc'[d] = pc[d], attempt'[d] = attempt[d], seen'[d] = seen[d],
           reply'[d] = reply[d], post'[d] = post[d]
    PROVE  CallInv(d)'
<1>1. CallInv(d)
  BY DEF Inv
<1>2. QED
  BY <1>1 DEF CallInv, SeenInv, PostInv, Returned

\* The end of an attempt, with a status that agrees with what became of it.
LEMMA EndedStep ==
    ASSUME Inv, NEW c \in Calls, NEW status \in Statuses \cup {"lost"}, ~Returned(c),
           Agrees(status, post[c][attempt[c]]), Ended(c, status)
    PROVE  Inv'
<1> USE TradeAssumption
<1>1. /\ pc \in [Calls -> {"send", "wait", "backoff", "ok", "err"}]
      /\ attempt \in [Calls -> Attempts]
      /\ seen \in [Calls -> Seq(Statuses \cup {"lost"})]
      /\ reply \in [Calls -> Statuses \cup {"none"}]
      /\ post' = post /\ cancelled' = cancelled
      /\ seen' = [seen EXCEPT ![c] = Append(@, status)]
      /\ reply' = [reply EXCEPT ![c] = "none"]
  BY DEF Inv, TypeOK, Ended
<1>2. PICK a \in Attempts, s \in Seq(Statuses \cup {"lost"}) : a = attempt[c] /\ s = seen[c]
  BY <1>1
<1>3. a \in Nat /\ a <= MaxRetries /\ Len(s) = a
  BY <1>2 DEF Inv, CallInv, SeenInv, Attempts
<1>4. /\ seen'[c] = Append(s, status) /\ reply'[c] = "none"
      /\ seen' \in [Calls -> Seq(Statuses \cup {"lost"})]
      /\ reply' \in [Calls -> Statuses \cup {"none"}]
      /\ \A d \in Calls \ {c} : seen'[d] = seen[d] /\ reply'[d] = reply[d]
  BY <1>1, <1>2
<1>5. \/ /\ Retried(status) /\ a < MaxRetries
         /\ pc' = [pc EXCEPT ![c] = "backoff"] /\ attempt' = [attempt EXCEPT ![c] = a + 1]
      \/ /\ ~(Retried(status) /\ a < MaxRetries)
         /\ pc' = [pc EXCEPT ![c] = IF status = "ok" THEN "ok" ELSE "err"]
         /\ attempt' = attempt
  BY <1>2 DEF Ended
<1>6. /\ pc' \in [Calls -> {"send", "wait", "backoff", "ok", "err"}]
      /\ attempt' \in [Calls -> Attempts]
      /\ \A d \in Calls \ {c} : pc'[d] = pc[d] /\ attempt'[d] = attempt[d]
      /\ \/ Retried(status) /\ pc'[c] = "backoff" /\ attempt'[c] = a + 1 /\ a + 1 \in Attempts
         \/ pc'[c] \in {"ok", "err"} /\ attempt'[c] = a
  <2>1. CASE Retried(status) /\ a < MaxRetries
    <3>1. a + 1 \in Attempts
      BY <1>3, <2>1 DEF Attempts
    <3>2. QED
      BY <1>1, <1>5, <2>1, <3>1
  <2>2. CASE ~(Retried(status) /\ a < MaxRetries)
    BY <1>1, <1>2, <1>5, <2>2
  <2>3. QED
    BY <2>1, <2>2
<1>7. TypeOK'
  BY <1>1, <1>4, <1>6 DEF Inv, TypeOK
<1>8. /\ Len(Append(s, status)) = a + 1
      /\ \A i \in 1..(a + 1) : Append(s, status)[i] = IF i <= a THEN s[i] ELSE status
  BY <1>3
<1>9. SeenInv(c)'
  <2>1. ASSUME NEW i \in 1..(a + 1) PROVE Agrees(seen'[c][i], post'[c][i - 1])
    <3>1. CASE i <= a
      <4>1. i \in 1..Len(s) /\ seen'[c][i] = s[i]
        BY <1>3, <1>4, <1>8, <3>1
      <4>2. Agrees(seen[c][i], post[c][i - 1])
        BY <1>2, <4>1 DEF Inv, CallInv, SeenInv
      <4>3. QED
        BY <1>1, <1>2, <4>1, <4>2
    <3>2. CASE i = a + 1
      <4>1. i - 1 = attempt[c]
        BY <1>2, <1>3, <3>2
      <4>2. seen'[c][i] = status
        BY <1>3, <1>4, <1>8, <3>2
      <4>3. QED
        BY <1>1, <4>1, <4>2
    <3>3. QED
      BY <1>3, <2>1, <3>1, <3>2
  <2>2. ASSUME NEW i \in 1..(a + 1), i < a + 1 \/ ~Returned(c)' PROVE Retried(seen'[c][i])
    <3>1. CASE i <= a
      <4>1. seen'[c][i] = s[i]
        BY <1>4, <1>8, <3>1
      <4>2. Retried(s[i])
        BY <1>2, <1>3, <3>1 DEF Inv, CallInv, SeenInv
      <4>3. QED
        BY <4>1, <4>2
    <3>2. CASE i = a + 1
      <4>1. ~Returned(c)'
        BY <1>3, <2>2, <3>2
      <4>2. Retried(status)
        BY <1>6, <4>1 DEF Returned
      <4>3. QED
        BY <1>3, <1>4, <1>8, <3>2, <4>2
    <3>3. QED
      BY <1>3, <2>2, <3>1, <3>2
  <2>3. Len(seen'[c]) = a + 1
    BY <1>4, <1>8
  <2>4. QED
    BY <1>3, <1>6, <2>1, <2>2, <2>3 DEF SeenInv, Returned
<1>10. PostInv(c)'
  <2>1. \A k \in Attempts : k > a => post[c][k] = "none"
    BY <1>2 DEF Inv, CallInv, PostInv
  <2>2. QED
    BY <1>1, <1>3, <1>4, <1>6, <2>1 DEF PostInv, Attempts
<1>11. ASSUME NEW d \in Calls \ {c} PROVE CallInv(d)'
  BY <1>1, <1>4, <1>6, OtherCalls
<1>12. QED
  BY <1>7, <1>9, <1>10, <1>11 DEF Inv, CallInv

LEMMA InvStep == Inv /\ [Next]_vars => Inv'
<1> SUFFICES ASSUME Inv, [Next]_vars PROVE Inv'
  OBVIOUS
<1> USE TradeAssumption
<1>t. /\ pc \in [Calls -> {"send", "wait", "backoff", "ok", "err"}]
      /\ attempt \in [Calls -> Attempts]
      /\ reply \in [Calls -> Statuses \cup {"none"}]
      /\ post \in [Calls -> [Attempts -> {"none", "sent", "executed", "dropped"}]]
      /\ \A c \in Calls : CallInv(c)
      /\ \A c \in Calls : attempt[c] \in Nat
  BY DEF Inv, TypeOK, Attempts
<1>1. ASSUME NEW c \in Calls, Send(c) PROVE Inv'
  <2>1. /\ pc[c] = "send" /\ pc'[c] = "wait"
        /\ \A k \in Attempts \ {attempt[c]} : post'[c][k] = post[c][k]
        /\ post'[c][attempt[c]] = "sent" /\ post[c][attempt[c]] = "none"
        /\ \A d \in Calls \ {c} : pc'[d] = pc[d] /\ post'[d] = post[d]
        /\ UNCHANGED <<attempt, cancelled, seen, reply>>
    BY <1>1, <1>t DEF Send, CallInv, PostInv
  <2>2. TypeOK'
    BY <1>1, <1>t DEF Send, Inv, TypeOK
  <2>3. SeenInv(c)'
    <3>1. SeenInv(c) /\ Len(seen[c]) = attempt[c] /\ attempt[c] \in Attempts
      BY <1>t, <2>1 DEF CallInv, SeenInv, Returned
    <3>2. \A i \in 1..Len(seen[c]) : i - 1 \in Attempts \ {attempt[c]}
      BY <3>1 DEF Attempts
    <3>3. ~Returned(c) /\ ~Returned(c)'
      BY <2>1 DEF Returned
    <3>4. QED
      BY <2>1, <3>1, <3>2, <3>3 DEF SeenInv
  <2>4. PostInv(c)'
    BY SMTT(30), <1>t, <2>1 DEF CallInv, PostInv, Attempts
  <2>5. ASSUME NEW d \in Calls \ {c} PROVE CallInv(d)'
    BY <2>1, OtherCalls
  <2>6. QED
    BY <2>2, <2>3, <2>4, <2>5 DEF Inv, CallInv
<1>2. ASSUME NEW c \in Calls, NetworkError(c) PROVE Inv'
  <2>1. ~Returned(c) /\ Agrees("lost", post[c][attempt[c]])
    BY <1>2 DEF NetworkError, Returned, Agrees
  <2>2. QED
    BY <1>2, <2>1, EndedStep DEF NetworkError
<1>3. ASSUME NEW c \in Calls, Receive(c) PROVE Inv'
  <2>1. ~Returned(c) /\ reply[c] \in Statuses /\ Agrees(reply[c], post[c][attempt[c]])
    BY <1>3, <1>t DEF Receive, Returned, CallInv, PostInv
  <2>2. QED
    BY <1>3, <2>1, EndedStep DEF Receive
<1>4. ASSUME NEW c \in Calls, BackoffOver(c) \/ BackoffCancelled(c) PROVE Inv'
  <2>1. /\ pc[c] = "backoff" /\ pc'[c] \in {"send", "err"}
        /\ \A d \in Calls \ {c} : pc'[d] = pc[d]
        /\ UNCHANGED <<attempt, seen, reply, post>>
    BY <1>4, <1>t DEF BackoffOver, BackoffCancelled
  <2>2. TypeOK'
    BY <1>4, <1>t DEF BackoffOver, BackoffCancelled, Inv, TypeOK
  <2>3. CallInv(c)'
    BY <1>t, <2>1 DEF CallInv, SeenInv, PostInv, Returned
  <2>4. ASSUME NEW d \in Calls \ {c} PROVE CallInv(d)'
    BY <2>1, OtherCalls
  <2>5. QED
    BY <2>2, <2>3, <2>4 DEF Inv
<1>5. ASSUME NEW c \in Calls, Cancel(c) PROVE Inv'
  <2>1. TypeOK'
    BY <1>5 DEF Cancel, Inv, TypeOK
  <2>2. QED
    BY <1>5, <1>t, <2>1 DEF Cancel, Inv, CallInv, SeenInv, PostInv, Returned
<1>6. ASSUME NEW c \in Calls, NEW k \in Attempts, NEW status \in Statuses,
             NEW result \in {"executed", "dropped"}, Process(c, k, status, result)
      PROVE  Inv'
  <2>1. /\ post[c][k] = "sent" /\ post'[c][k] = result /\ Agrees(status, result)
        /\ \A l \in Attempts \ {k} : post'[c][l] = post[c][l]
        /\ \A d \in Calls \ {c} : post'[d] = post[d] /\ reply'[d] = reply[d]
        /\ reply'[c] = IF pc[c] = "wait" /\ attempt[c] = k THEN status ELSE reply[c]
        /\ UNCHANGED <<pc, attempt, cancelled, seen>>
    BY <1>6, <1>t DEF Process, Agrees
  <2>2. TypeOK'
    BY <1>6, <1>t DEF Process, Inv, TypeOK
  <2>3. SeenInv(c)'
    <3>1. SeenInv(c)
      BY <1>t DEF CallInv
    <3>2. ASSUME NEW i \in 1..Len(seen[c]) PROVE Agrees(seen[c][i], post'[c][i - 1])
      <4>1. i - 1 \in Attempts \/ i - 1 = attempt[c]
        BY <1>t, <3>1 DEF SeenInv, Attempts
      <4>2. i - 1 \in Attempts
        BY <1>t, <4>1
      <4>3. Agrees(seen[c][i], post[c][i - 1])
        BY <3>1 DEF SeenInv
      <4>4. CASE i - 1 = k
        BY <2>1, <4>3, <4>4 DEF Agrees
      <4>5. CASE i - 1 # k
        BY <2>1, <4>2, <4>3, <4>5
      <4>6. QED
        BY <4>4, <4>5
    <3>3. Returned(c)' = Returned(c)
      BY <2>1 DEF Returned
    <3>4. QED
      BY <2>1, <3>1, <3>2, <3>3 DEF SeenInv
  <2>4. PostInv(c)'
    <3>1. PostInv(c)
      BY <1>t DEF CallInv
    <3>2. ~(k > attempt[c]) /\ (k = attempt[c] => pc[c] \notin {"send", "backoff"})
      BY <2>1, <3>1 DEF PostInv
    <3>3. /\ \A l \in Attempts : l > attempt[c] => post'[c][l] = "none"
          /\ pc[c] \in {"send", "backoff"} => post'[c][attempt[c]] = "none"
      BY <1>t, <2>1, <3>1, <3>2 DEF PostInv
    <3>4. CASE pc[c] = "wait" /\ attempt[c] = k
      BY <2>1, <3>3, <3>4 DEF PostInv
    <3>5. CASE ~(pc[c] = "wait" /\ attempt[c] = k)
      <4>1. reply'[c] # "none" => pc[c] = "wait" /\ Agrees(reply[c], post[c][attempt[c]])
        BY <2>1, <3>1, <3>5 DEF PostInv
      <4>2. reply'[c] # "none" => post'[c][attempt[c]] = post[c][attempt[c]]
        BY <1>t, <2>1, <3>5, <4>1
      <4>3. QED
        BY <2>1, <3>3, <3>5, <4>1, <4>2 DEF PostInv
    <3>6. QED
      BY <3>4, <3>5
  <2>5. ASSUME NEW d \in Calls \ {c} PROVE CallInv(d)'
    BY <2>1, OtherCalls
  <2>6. QED
    BY <2>2, <2>3, <2>4, <2>5 DEF Inv, CallInv
<1>7. CASE UNCHANGED vars
  BY <1>7, <1>t DEF vars, Inv, TypeOK, CallInv, SeenInv, PostInv, Returned
<1>8. QED
  BY <1>1, <1>2, <1>3, <1>4, <1>5, <1>6, <1>7 DEF Next, Trade

LEMMA InvHolds == Spec => []Inv
BY InvInit, InvStep, PTL DEF Spec

\* Every call, answer and request has its type in every state.
THEOREM TypeCorrect == Spec => []TypeOK
<1>1. Inv => TypeOK
  BY DEF Inv
<1>2. QED
  BY <1>1, InvHolds, PTL

\* A request that was executed is never posted again after an answer that said
\* so, or that said it never would be.
THEOREM RepeatedOnlyInDoubtCorrect == Spec => []RepeatedOnlyInDoubt
<1>1. Inv => RepeatedOnlyInDoubt
  <2> SUFFICES ASSUME Inv, NEW c \in Calls, NEW k \in Attempts,
                      post[c][k] = "executed", k + 1 <= Len(seen[c])
               PROVE  \/ seen[c][k + 1] \in {"lost", "server", "other"}
                      \/ seen[c][k + 1] = "ok" /\ k + 1 = Len(seen[c])
    BY DEF RepeatedOnlyInDoubt
  <2>1. k \in Nat /\ seen[c] \in Seq(Statuses \cup {"lost"})
    BY DEF Attempts, Inv, TypeOK
  <2>2. k + 1 \in 1..Len(seen[c]) /\ (k + 1) - 1 = k
    BY <2>1
  <2>3. seen[c][k + 1] \in Statuses \cup {"lost"}
    BY <2>1, <2>2
  <2>4. SeenInv(c)
    BY DEF Inv, CallInv
  <2>5. Agrees(seen[c][k + 1], post[c][k])
    BY <2>2, <2>4 DEF SeenInv
  <2>6. k + 1 < Len(seen[c]) => Retried(seen[c][k + 1])
    BY <2>2, <2>4 DEF SeenInv
  <2>7. k + 1 = Len(seen[c]) \/ k + 1 < Len(seen[c])
    BY <2>2
  <2>8. QED
    BY <2>3, <2>5, <2>6, <2>7 DEF Agrees, Retried, Statuses
<1>2. QED
  BY <1>1, InvHolds, PTL

-----------------------------------------------------------------------------
(* The refinement.                                                         *)

\* The attempts of c whose request was executed.
Executed(c) == {k \in Attempts : post[c][k] = "executed"}

LEMMA ExecutedFinite ==
    ASSUME NEW c \in Calls
    PROVE  /\ IsFiniteSet(Executed(c)) /\ Executions(c) = Cardinality(Executed(c))
           /\ Executions(c) \in Nat /\ Executions(c) <= MaxRetries + 1
<1> USE TradeAssumption
<1>1. IsFiniteSet(Attempts) /\ Cardinality(Attempts) = MaxRetries + 1
  BY FS_Interval DEF Attempts
<1>2. Executed(c) \subseteq Attempts
  BY DEF Executed
<1>3. IsFiniteSet(Executed(c)) /\ Cardinality(Executed(c)) <= Cardinality(Attempts)
  BY <1>1, <1>2, FS_Subset
<1>4. QED
  BY <1>1, <1>3, FS_CardinalityType DEF Executed, Executions

\* The refinement mapping.
OutcomeMap == [c \in Calls |-> IF Returned(c) THEN pc[c] ELSE "pending"]
ExecutionsMap == [c \in Calls |-> Executions(c)]

LEMMA SameExecutions ==
    ASSUME \A c \in Calls : Executed(c)' = Executed(c)
    PROVE  ExecutionsMap' = ExecutionsMap
<1>1. \A c \in Calls : Executions(c)' = Executions(c)
  BY DEF Executions, Executed
<1>2. QED
  BY <1>1 DEF ExecutionsMap

LEMMA SamePosts == post' = post => ExecutionsMap' = ExecutionsMap
BY SameExecutions DEF Executed

\* A return of c that is none before.
LEMMA ReturnOf ==
    ASSUME NEW c \in Calls, NEW result \in {"ok", "err"}, ~Returned(c), pc'[c] = result,
           \A d \in Calls \ {c} : pc'[d] = pc[d],
           ExecutionsMap' = ExecutionsMap,
           result = "ok" => Executions(c) > 0
    PROVE  Call!Return(c, result)
<1>1. OutcomeMap[c] = "pending"
  BY DEF OutcomeMap
<1>2. OutcomeMap' = [OutcomeMap EXCEPT ![c] = result]
  <2>1. \A d \in Calls : OutcomeMap'[d] = IF d = c THEN result ELSE OutcomeMap[d]
    BY DEF OutcomeMap, Returned
  <2>2. QED
    BY <2>1 DEF OutcomeMap
<1>3. ExecutionsMap[c] = Executions(c)
  BY DEF ExecutionsMap
<1>4. QED
  BY <1>1, <1>2, <1>3 DEF Call!Return, OutcomeMap, ExecutionsMap

\* An attempt that ends is a return or changes nothing that a caller sees.
LEMMA EndedIsReturn ==
    ASSUME Inv, NEW c \in Calls, NEW status, ~Returned(c),
           Agrees(status, post[c][attempt[c]]), Ended(c, status)
    PROVE  \/ \E result \in {"ok", "err"} : Call!Return(c, result)
           \/ UNCHANGED <<OutcomeMap, ExecutionsMap>>
<1>1. ExecutionsMap' = ExecutionsMap
  BY SamePosts DEF Ended
<1>2. pc \in [Calls -> {"send", "wait", "backoff", "ok", "err"}] /\ attempt[c] \in Attempts
  BY DEF Inv, TypeOK
<1>3. CASE Retried(status) /\ attempt[c] < MaxRetries
  <2>1. pc'[c] = "backoff" /\ \A d \in Calls \ {c} : pc'[d] = pc[d]
    BY <1>2, <1>3 DEF Ended
  <2>2. \A d \in Calls : OutcomeMap'[d] = OutcomeMap[d]
    BY <2>1 DEF OutcomeMap, Returned
  <2>3. QED
    BY <1>1, <2>2 DEF OutcomeMap
<1>4. CASE ~(Retried(status) /\ attempt[c] < MaxRetries)
  <2>1. PICK result \in {"ok", "err"} : result = IF status = "ok" THEN "ok" ELSE "err"
    OBVIOUS
  <2>2. pc'[c] = result /\ \A d \in Calls \ {c} : pc'[d] = pc[d]
    BY <1>2, <1>4, <2>1 DEF Ended
  <2>3. ASSUME result = "ok" PROVE Executions(c) > 0
    <3>1. attempt[c] \in Executed(c)
      BY <1>2, <2>1, <2>3 DEF Agrees, Executed
    <3>2. Executions(c) # 0
      BY <3>1, ExecutedFinite, FS_EmptySet
    <3>3. QED
      BY <3>2, ExecutedFinite
  <2>4. QED
    BY <1>1, <2>2, <2>3, ReturnOf
<1>5. QED
  BY <1>3, <1>4

LEMMA TradeIsCall ==
    Inv /\ Inv' /\ [Next]_vars => [Call!Next]_(Call!vars)
<1> SUFFICES ASSUME Inv, Inv', [Next]_vars PROVE [Call!Next]_(Call!vars)
  OBVIOUS
<1> USE TradeAssumption
<1>t. /\ pc \in [Calls -> {"send", "wait", "backoff", "ok", "err"}]
      /\ post \in [Calls -> [Attempts -> {"none", "sent", "executed", "dropped"}]]
      /\ reply \in [Calls -> Statuses \cup {"none"}]
      /\ \A c \in Calls : CallInv(c) /\ attempt[c] \in Attempts
  BY DEF Inv, TypeOK
<1>0. ASSUME UNCHANGED <<OutcomeMap, ExecutionsMap>> PROVE UNCHANGED Call!vars
  BY <1>0 DEF Call!vars, OutcomeMap, ExecutionsMap
<1>1. ASSUME NEW c \in Calls, Send(c) PROVE UNCHANGED Call!vars
  <2>1. /\ pc[c] = "send" /\ pc'[c] = "wait" /\ \A d \in Calls \ {c} : pc'[d] = pc[d]
        /\ \A d \in Calls \ {c} : post'[d] = post[d]
        /\ \A k \in Attempts \ {attempt[c]} : post'[c][k] = post[c][k]
        /\ post'[c][attempt[c]] = "sent" /\ post[c][attempt[c]] = "none"
    BY <1>1, <1>t DEF Send, CallInv, PostInv
  <2>2. \A d \in Calls : Executed(d)' = Executed(d)
    BY <2>1 DEF Executed
  <2>3. \A d \in Calls : OutcomeMap'[d] = OutcomeMap[d]
    BY <2>1 DEF OutcomeMap, Returned
  <2>4. OutcomeMap' = OutcomeMap
    BY <2>3 DEF OutcomeMap
  <2>5. QED
    BY <1>0, <2>2, <2>4, SameExecutions
<1>2. ASSUME NEW c \in Calls, NetworkError(c) PROVE [Call!Next]_(Call!vars)
  <2>1. ~Returned(c) /\ Agrees("lost", post[c][attempt[c]]) /\ Ended(c, "lost")
    BY <1>2 DEF NetworkError, Returned, Agrees
  <2>2. QED
    BY <1>0, <2>1, EndedIsReturn DEF Call!Next
<1>3. ASSUME NEW c \in Calls, Receive(c) PROVE [Call!Next]_(Call!vars)
  <2>1. ~Returned(c) /\ Agrees(reply[c], post[c][attempt[c]]) /\ Ended(c, reply[c])
    BY <1>3, <1>t DEF Receive, Returned, CallInv, PostInv
  <2>2. QED
    BY <1>0, <2>1, EndedIsReturn DEF Call!Next
<1>4. ASSUME NEW c \in Calls, BackoffOver(c) PROVE UNCHANGED Call!vars
  <2>1. /\ pc[c] = "backoff" /\ pc'[c] = "send" /\ \A d \in Calls \ {c} : pc'[d] = pc[d]
        /\ post' = post
    BY <1>4, <1>t DEF BackoffOver
  <2>2. \A d \in Calls : OutcomeMap'[d] = OutcomeMap[d]
    BY <2>1 DEF OutcomeMap, Returned
  <2>3. OutcomeMap' = OutcomeMap
    BY <2>2 DEF OutcomeMap
  <2>4. QED
    BY <1>0, <2>1, <2>3, SamePosts
<1>5. ASSUME NEW c \in Calls, BackoffCancelled(c) PROVE Call!Next
  <2>1. /\ ~Returned(c) /\ pc'[c] = "err" /\ \A d \in Calls \ {c} : pc'[d] = pc[d]
        /\ post' = post
    BY <1>5, <1>t DEF BackoffCancelled, Returned
  <2>2. Call!Return(c, "err")
    BY <2>1, SamePosts, ReturnOf
  <2>3. QED
    BY <2>2 DEF Call!Next
<1>6. ASSUME NEW c \in Calls, Cancel(c) PROVE UNCHANGED Call!vars
  BY <1>0, <1>6, SamePosts DEF Cancel, OutcomeMap, Returned
<1>7. ASSUME NEW c \in Calls, NEW k \in Attempts, NEW status \in Statuses,
             NEW result \in {"executed", "dropped"}, Process(c, k, status, result)
      PROVE  [Call!Next]_(Call!vars)
  <2>1. /\ post[c][k] = "sent" /\ post'[c][k] = result
        /\ \A l \in Attempts \ {k} : post'[c][l] = post[c][l]
        /\ \A d \in Calls \ {c} : post'[d] = post[d]
        /\ pc' = pc
    BY <1>7, <1>t DEF Process
  <2>2. OutcomeMap' = OutcomeMap
    BY <2>1 DEF OutcomeMap, Returned
  <2>3. \A d \in Calls \ {c} : Executed(d)' = Executed(d)
    BY <2>1 DEF Executed
  <2>4. CASE result = "dropped"
    <3>1. Executed(c)' = Executed(c)
      BY <2>1, <2>4 DEF Executed
    <3>2. QED
      BY <1>0, <2>2, <2>3, <3>1, SameExecutions
  <2>5. CASE result = "executed"
    <3>1. Executed(c)' = Executed(c) \cup {k} /\ k \notin Executed(c)
      BY <2>1, <2>5 DEF Executed
    <3>2. Cardinality(Executed(c)') = Cardinality(Executed(c)) + 1
      BY <3>1, ExecutedFinite, FS_AddElement
    <3>3. /\ Executions(c)' = Cardinality(Executed(c)')
          /\ Executions(c)' <= MaxRetries + 1
      <4>1. IsFiniteSet(Attempts) /\ Cardinality(Attempts) = MaxRetries + 1
        BY FS_Interval DEF Attempts
      <4>2. Executed(c)' \subseteq Attempts
        BY DEF Executed
      <4>3. Cardinality(Executed(c)') <= Cardinality(Attempts)
        BY <4>1, <4>2, FS_Subset
      <4>4. Executions(c)' = Cardinality(Executed(c)')
        BY DEF Executions, Executed
      <4>5. QED
        BY <4>1, <4>3, <4>4
    <3>4. Executions(c)' = Executions(c) + 1 /\ Executions(c) < MaxRetries + 1
      BY <3>2, <3>3, ExecutedFinite
    <3>5. \A d \in Calls \ {c} : Executions(d)' = Executions(d)
      BY <2>3 DEF Executions, Executed
    <3>6. ExecutionsMap' = [ExecutionsMap EXCEPT ![c] = @ + 1]
      <4>1. \A d \in Calls :
               ExecutionsMap'[d] = IF d = c THEN ExecutionsMap[c] + 1 ELSE ExecutionsMap[d]
        BY <3>4, <3>5 DEF ExecutionsMap
      <4>2. QED
        BY <4>1 DEF ExecutionsMap
    <3>7. ExecutionsMap[c] < MaxRetries + 1
      BY <3>4 DEF ExecutionsMap
    <3>8. Call!Execute(c)
      BY <2>2, <3>6, <3>7 DEF Call!Execute, OutcomeMap, ExecutionsMap
    <3>9. QED
      BY <3>8 DEF Call!Next
  <2>6. QED
    BY <2>4, <2>5
<1>8. CASE UNCHANGED vars
  BY <1>0, <1>8, SamePosts DEF vars, OutcomeMap, Returned
<1>9. QED
  BY <1>1, <1>2, <1>3, <1>4, <1>5, <1>6, <1>7, <1>8 DEF Next, Trade

\* A signature means that the trade was executed, and no call has it executed
\* more often than there are attempts, however late the service gets to them.
THEOREM TradeImplementsCall == Spec => ImplementsTradeCall
<1>1. Init => Call!Init
  <2> SUFFICES ASSUME Init PROVE Call!Init
    OBVIOUS
  <2>1. ASSUME NEW c \in Calls PROVE ~Returned(c) /\ Executions(c) = 0
    <3>1. Executed(c) = {}
      BY DEF Init, Executed
    <3>2. QED
      BY <3>1, ExecutedFinite, FS_EmptySet DEF Init, Returned
  <2>2. QED
    BY <2>1 DEF Call!Init
<1>2. QED
  BY <1>1, InvHolds, TradeIsCall, PTL DEF Spec, ImplementsTradeCall, Call!Spec
===============================================================================
