---------------------------- MODULE CredentialProofs ----------------------------
(****************************************************************************)
(* Proofs about the account's credential, for any number of interfaces, of  *)
(* refreshes and of logins.                                                 *)
(****************************************************************************)
EXTENDS CredentialLifecycle, TLAPS, FiniteSetTheorems

LoggingIn == {"exchanged", "stored"}
Disconnecting == {"marked", "loaded", "revoked", "deleted"}

\* The numbers of the grants are given out in order.
GrantsInOrder ==
    /\ withdrawn \subseteq 1..logins
    /\ secret <= logins
    /\ \A p \in Tuis \cup Refreshes : mem[p] <= logins
    /\ \A p \in Tuis : at[p] \in {"exchanged", "stored", "loaded"} => mem[p] # 0

\* Unless two have been at work at once, one interface at most is.
OneAtWork == ~together => \A p, q \in Tuis : at[p] # "accounts" /\ at[q] # "accounts" => p = q

\* What the interface at work has done so far.
AtWork ==
    ~together =>
        \A p \in Tuis :
            /\ at[p] \in Disconnecting => state = "indeterminate"
            /\ at[p] \in LoggingIn => mem[p] \notin withdrawn
            /\ ~overwritten /\ at[p] = "stored" => secret = mem[p]
            /\ ~overwritten /\ at[p] = "deleted" => secret = 0

\* The three properties of the runs, without the type.
Claims ==
    ~together =>
        /\ state = "connected" => connected \notin withdrawn
        /\ ~overwritten /\ state = "connected" => secret # 0 /\ secret \notin withdrawn
        /\ ~overwritten /\ state = "disconnected" => secret \notin withdrawn

\* The inductive invariant.
IInv ==
    /\ TypeOK
    /\ GrantsInOrder
    /\ OneAtWork
    /\ AtWork
    /\ Claims

\* Before anything has happened the inductive invariant holds.
THEOREM InitInv == Init => IInv
PROOF
  <1> SUFFICES ASSUME Init PROVE IInv
    OBVIOUS
  <1>1. TypeOK
    <2>1. 0 \in 0..MaxGrants
      BY CredentialAssumption
    <2>2. at = [p \in Tuis |-> "accounts"] /\ ref = [b \in Refreshes |-> "idle"]
      BY DEF Init
    <2>3. mem \in [Tuis \cup Refreshes -> 0..MaxGrants]
      BY <2>1 DEF Init
    <2>4. view \in [Tuis -> States]
      BY DEF Init, States
    <2>. QED
      BY <2>1, <2>2, <2>3, <2>4 DEF Init, TypeOK, States
  <1>2. GrantsInOrder /\ OneAtWork /\ AtWork /\ Claims
    BY DEF Init, GrantsInOrder, OneAtWork, AtWork, Claims, LoggingIn, Disconnecting
  <1>. QED
    BY <1>1, <1>2 DEF IInv

\* The history variable tells when two interfaces are at work.
LEMMA AtOnce ==
    ASSUME TypeOK, together' = (together \/ Cardinality(Busy') > 1)
    PROVE  /\ together' \in BOOLEAN
           /\ ~together' => ~together
           /\ OneAtWork'
PROOF
  <1>1. together \in BOOLEAN
    BY DEF TypeOK
  <1>2. ASSUME ~together', NEW p \in Tuis, NEW q \in Tuis, at'[p] # "accounts", at'[q] # "accounts",
               p # q
        PROVE  FALSE
    <2>1. IsFiniteSet(Busy') /\ {p, q} \in SUBSET Busy'
      <3>1. Busy' \in SUBSET Tuis /\ p \in Busy' /\ q \in Busy'
        BY <1>2 DEF Busy
      <3>. QED
        BY <3>1, FS_Subset, CredentialAssumption
    <2>2. Cardinality({p, q}) = 2
      <3>1. Cardinality({p}) = 1 /\ IsFiniteSet({p})
        BY FS_Singleton
      <3>2. Cardinality({p} \cup {q}) = 2
        BY <1>2, <3>1, FS_AddElement
      <3>3. {p} \cup {q} = {p, q}
        OBVIOUS
      <3>. QED
        BY <3>2, <3>3
    <2>3. 2 <= Cardinality(Busy') /\ Cardinality(Busy') \in Nat
      BY <2>1, <2>2, FS_Subset, FS_CardinalityType
    <2>4. Cardinality(Busy') > 1
      BY <2>3
    <2>5. together'
      BY <2>4
    <2>. QED
      BY <1>2, <2>5
  <1>3. together' \in BOOLEAN /\ (~together' => ~together)
    BY <1>1
  <1>. QED
    BY <1>2, <1>3 DEF OneAtWork

\* Every step of a login or a disconnect keeps the invariant.
LEMMA TuiKeeps ==
    ASSUME IInv, NEW p \in Tuis, TuiStep(p), together' \in BOOLEAN,
           ~together' => ~together, OneAtWork'
    PROVE  IInv'
PROOF
  <1>0. TypeOK /\ GrantsInOrder /\ OneAtWork /\ AtWork /\ Claims
    BY DEF IInv
  <1>1. CASE Exchange(p)
    <2>1. TypeOK'
      BY <1>0, <1>1, CredentialAssumption DEF Exchange, Goes, Holds, TypeOK, States, Grants
    <2>2. GrantsInOrder'
      BY <1>0, <1>1, CredentialAssumption DEF Exchange, Goes, Holds, TypeOK, GrantsInOrder
    <2>3. AtWork'
      BY <1>0, <1>1, CredentialAssumption
      DEF Exchange, Goes, Holds, TypeOK, GrantsInOrder, OneAtWork, AtWork, LoggingIn, Disconnecting
    <2>4. Claims'
      BY <1>0, <1>1, CredentialAssumption
      DEF Exchange, Goes, Holds, TypeOK, GrantsInOrder, OneAtWork, AtWork, Claims, LoggingIn, Disconnecting
    <2>. QED
      BY <2>1, <2>2, <2>3, <2>4 DEF IInv
  <1>2. CASE StoreSecret(p)
    <2>1. TypeOK'
      BY <1>0, <1>2, CredentialAssumption DEF StoreSecret, Goes, TypeOK, States, Grants
    <2>2. GrantsInOrder'
      BY <1>0, <1>2, CredentialAssumption DEF StoreSecret, Goes, TypeOK, GrantsInOrder
    <2>3. AtWork'
      BY <1>0, <1>2, CredentialAssumption
      DEF StoreSecret, Goes, TypeOK, GrantsInOrder, OneAtWork, AtWork, LoggingIn, Disconnecting
    <2>4. Claims'
      BY <1>0, <1>2, CredentialAssumption
      DEF StoreSecret, Goes, TypeOK, GrantsInOrder, OneAtWork, AtWork, Claims, LoggingIn, Disconnecting
    <2>. QED
      BY <2>1, <2>2, <2>3, <2>4 DEF IInv
  <1>3. CASE SaveAccount(p)
    <2>1. TypeOK'
      BY <1>0, <1>3, CredentialAssumption DEF SaveAccount, Goes, Returns, TypeOK, States, Grants
    <2>2. GrantsInOrder'
      BY <1>0, <1>3, CredentialAssumption DEF SaveAccount, Goes, Returns, TypeOK, GrantsInOrder
    <2>3. AtWork'
      BY <1>0, <1>3, CredentialAssumption
      DEF SaveAccount, Goes, Returns, TypeOK, GrantsInOrder, OneAtWork, AtWork, LoggingIn, Disconnecting
    <2>4. Claims'
      BY <1>0, <1>3, CredentialAssumption
      DEF SaveAccount, Goes, Returns, TypeOK, GrantsInOrder, OneAtWork, AtWork, Claims, LoggingIn, Disconnecting
    <2>. QED
      BY <2>1, <2>2, <2>3, <2>4 DEF IInv
  <1>4. CASE MarkIndeterminate(p)
    <2>1. TypeOK'
      BY <1>0, <1>4, CredentialAssumption DEF MarkIndeterminate, Goes, TypeOK, States, Grants
    <2>2. GrantsInOrder'
      BY <1>0, <1>4, CredentialAssumption DEF MarkIndeterminate, Goes, TypeOK, GrantsInOrder
    <2>3. AtWork'
      BY <1>0, <1>4, CredentialAssumption
      DEF MarkIndeterminate, Goes, TypeOK, GrantsInOrder, OneAtWork, AtWork, LoggingIn, Disconnecting
    <2>4. Claims'
      BY <1>0, <1>4, CredentialAssumption
      DEF MarkIndeterminate, Goes, TypeOK, GrantsInOrder, OneAtWork, AtWork, Claims, LoggingIn, Disconnecting
    <2>. QED
      BY <2>1, <2>2, <2>3, <2>4 DEF IInv
  <1>5. CASE LoadToRevoke(p)
    <2>1. TypeOK'
      BY <1>0, <1>5, CredentialAssumption DEF LoadToRevoke, Goes, Holds, Returns, TypeOK, States, Grants
    <2>2. GrantsInOrder'
      BY <1>0, <1>5, CredentialAssumption DEF LoadToRevoke, Goes, Holds, Returns, TypeOK, GrantsInOrder
    <2>3. AtWork'
      BY <1>0, <1>5, CredentialAssumption
      DEF LoadToRevoke, Goes, Holds, Returns, TypeOK, GrantsInOrder, OneAtWork, AtWork, LoggingIn, Disconnecting
    <2>4. Claims'
      BY <1>0, <1>5, CredentialAssumption
      DEF LoadToRevoke, Goes, Holds, Returns, TypeOK, GrantsInOrder, OneAtWork, AtWork, Claims, LoggingIn, Disconnecting
    <2>. QED
      BY <2>1, <2>2, <2>3, <2>4 DEF IInv
  <1>6. CASE Revoke(p)
    <2>0. mem[p] \in 1..logins /\ mem[p] \in Grants
      <3>1. mem[p] \in 0..MaxGrants /\ mem[p] # 0 /\ mem[p] <= logins /\ logins \in 0..MaxGrants
        BY <1>0, <1>6 DEF Revoke, TypeOK, GrantsInOrder
      <3>. QED
        BY <3>1, CredentialAssumption DEF Grants
    <2>1. TypeOK'
      BY <1>0, <1>6, <2>0 DEF Revoke, Goes, TypeOK
    <2>2. GrantsInOrder'
      BY <1>0, <1>6, <2>0 DEF Revoke, Goes, TypeOK, GrantsInOrder
    <2>3. AtWork'
      BY <1>0, <1>6, CredentialAssumption
      DEF Revoke, Goes, TypeOK, GrantsInOrder, OneAtWork, AtWork, LoggingIn, Disconnecting
    <2>4. Claims'
      BY <1>0, <1>6, CredentialAssumption
      DEF Revoke, Goes, TypeOK, GrantsInOrder, OneAtWork, AtWork, Claims, LoggingIn, Disconnecting
    <2>. QED
      BY <2>1, <2>2, <2>3, <2>4 DEF IInv
  <1>7. CASE DeleteSecret(p)
    <2>1. TypeOK'
      BY <1>0, <1>7, CredentialAssumption DEF DeleteSecret, Goes, TypeOK, States, Grants
    <2>2. GrantsInOrder'
      BY <1>0, <1>7, CredentialAssumption DEF DeleteSecret, Goes, TypeOK, GrantsInOrder
    <2>3. AtWork'
      BY <1>0, <1>7, CredentialAssumption
      DEF DeleteSecret, Goes, TypeOK, GrantsInOrder, OneAtWork, AtWork, LoggingIn, Disconnecting
    <2>4. Claims'
      BY <1>0, <1>7, CredentialAssumption
      DEF DeleteSecret, Goes, TypeOK, GrantsInOrder, OneAtWork, AtWork, Claims, LoggingIn, Disconnecting
    <2>. QED
      BY <2>1, <2>2, <2>3, <2>4 DEF IInv
  <1>8. CASE SaveDisconnected(p)
    <2>1. TypeOK'
      BY <1>0, <1>8, CredentialAssumption DEF SaveDisconnected, Goes, Returns, TypeOK, States, Grants
    <2>2. GrantsInOrder'
      BY <1>0, <1>8, CredentialAssumption DEF SaveDisconnected, Goes, Returns, TypeOK, GrantsInOrder
    <2>3. AtWork'
      BY <1>0, <1>8, CredentialAssumption
      DEF SaveDisconnected, Goes, Returns, TypeOK, GrantsInOrder, OneAtWork, AtWork, LoggingIn, Disconnecting
    <2>4. Claims'
      BY <1>0, <1>8, CredentialAssumption
      DEF SaveDisconnected, Goes, Returns, TypeOK, GrantsInOrder, OneAtWork, AtWork, Claims, LoggingIn, Disconnecting
    <2>. QED
      BY <2>1, <2>2, <2>3, <2>4 DEF IInv
  <1>9. CASE Interrupted(p)
    <2>1. TypeOK'
      BY <1>0, <1>9, CredentialAssumption DEF Interrupted, Returns, Goes, TypeOK, States, Grants
    <2>2. GrantsInOrder'
      BY <1>0, <1>9, CredentialAssumption DEF Interrupted, Returns, Goes, TypeOK, GrantsInOrder
    <2>3. AtWork'
      BY <1>0, <1>9, CredentialAssumption
      DEF Interrupted, Returns, Goes, TypeOK, GrantsInOrder, OneAtWork, AtWork, LoggingIn, Disconnecting
    <2>4. Claims'
      BY <1>0, <1>9, CredentialAssumption
      DEF Interrupted, Returns, Goes, TypeOK, GrantsInOrder, OneAtWork, AtWork, Claims, LoggingIn, Disconnecting
    <2>. QED
      BY <2>1, <2>2, <2>3, <2>4 DEF IInv
  <1>. QED
    BY <1>1, <1>2, <1>3, <1>4, <1>5, <1>6, <1>7, <1>8, <1>9 DEF TuiStep

\* So does every step of a refresh.
LEMMA RefreshKeeps ==
    ASSUME IInv, NEW b \in Refreshes, RefreshStep(b), together' \in BOOLEAN,
           ~together' => ~together, OneAtWork'
    PROVE  IInv'
PROOF
  <1>0. TypeOK /\ GrantsInOrder /\ OneAtWork /\ AtWork /\ Claims
    BY DEF IInv
  <1>1. CASE Eligible(b)
    <2>1. TypeOK'
      BY <1>0, <1>1, CredentialAssumption DEF Eligible, tuiVars, TypeOK, States, Grants
    <2>2. GrantsInOrder'
      BY <1>0, <1>1, CredentialAssumption DEF Eligible, tuiVars, TypeOK, GrantsInOrder
    <2>3. AtWork'
      BY <1>0, <1>1, CredentialAssumption
      DEF Eligible, tuiVars, TypeOK, GrantsInOrder, OneAtWork, AtWork, LoggingIn, Disconnecting
    <2>4. Claims'
      BY <1>0, <1>1, CredentialAssumption
      DEF Eligible, tuiVars, TypeOK, GrantsInOrder, OneAtWork, AtWork, Claims, LoggingIn, Disconnecting
    <2>. QED
      BY <2>1, <2>2, <2>3, <2>4 DEF IInv
  <1>2. CASE LoadToRefresh(b)
    <2>1. TypeOK'
      BY <1>0, <1>2, CredentialAssumption DEF LoadToRefresh, tuiVars, Holds, TypeOK, States, Grants
    <2>2. GrantsInOrder'
      BY <1>0, <1>2, CredentialAssumption DEF LoadToRefresh, tuiVars, Holds, TypeOK, GrantsInOrder
    <2>3. AtWork'
      BY <1>0, <1>2, CredentialAssumption
      DEF LoadToRefresh, tuiVars, Holds, TypeOK, GrantsInOrder, OneAtWork, AtWork, LoggingIn, Disconnecting
    <2>4. Claims'
      BY <1>0, <1>2, CredentialAssumption
      DEF LoadToRefresh, tuiVars, Holds, TypeOK, GrantsInOrder, OneAtWork, AtWork, Claims, LoggingIn, Disconnecting
    <2>. QED
      BY <2>1, <2>2, <2>3, <2>4 DEF IInv
  <1>3. CASE Post(b)
    <2>1. TypeOK'
      BY <1>0, <1>3, CredentialAssumption DEF Post, tuiVars, TypeOK, States, Grants
    <2>2. GrantsInOrder'
      BY <1>0, <1>3, CredentialAssumption DEF Post, tuiVars, TypeOK, GrantsInOrder
    <2>3. AtWork'
      BY <1>0, <1>3, CredentialAssumption
      DEF Post, tuiVars, TypeOK, GrantsInOrder, OneAtWork, AtWork, LoggingIn, Disconnecting
    <2>4. Claims'
      BY <1>0, <1>3, CredentialAssumption
      DEF Post, tuiVars, TypeOK, GrantsInOrder, OneAtWork, AtWork, Claims, LoggingIn, Disconnecting
    <2>. QED
      BY <2>1, <2>2, <2>3, <2>4 DEF IInv
  <1>4. CASE StoreRotated(b)
    <2>1. TypeOK'
      BY <1>0, <1>4, CredentialAssumption DEF StoreRotated, tuiVars, TypeOK, States, Grants
    <2>2. GrantsInOrder'
      BY <1>0, <1>4, CredentialAssumption DEF StoreRotated, tuiVars, TypeOK, GrantsInOrder
    <2>3. AtWork'
      BY <1>0, <1>4, CredentialAssumption
      DEF StoreRotated, tuiVars, TypeOK, GrantsInOrder, OneAtWork, AtWork, LoggingIn, Disconnecting
    <2>4. Claims'
      BY <1>0, <1>4, CredentialAssumption
      DEF StoreRotated, tuiVars, TypeOK, GrantsInOrder, OneAtWork, AtWork, Claims, LoggingIn, Disconnecting
    <2>. QED
      BY <2>1, <2>2, <2>3, <2>4 DEF IInv
  <1>5. CASE RefreshInterrupted(b)
    <2>1. TypeOK'
      BY <1>0, <1>5, CredentialAssumption DEF RefreshInterrupted, tuiVars, TypeOK, States, Grants
    <2>2. GrantsInOrder'
      BY <1>0, <1>5, CredentialAssumption DEF RefreshInterrupted, tuiVars, TypeOK, GrantsInOrder
    <2>3. AtWork'
      BY <1>0, <1>5, CredentialAssumption
      DEF RefreshInterrupted, tuiVars, TypeOK, GrantsInOrder, OneAtWork, AtWork, LoggingIn, Disconnecting
    <2>4. Claims'
      BY <1>0, <1>5, CredentialAssumption
      DEF RefreshInterrupted, tuiVars, TypeOK, GrantsInOrder, OneAtWork, AtWork, Claims, LoggingIn, Disconnecting
    <2>. QED
      BY <2>1, <2>2, <2>3, <2>4 DEF IInv
  <1>. QED
    BY <1>1, <1>2, <1>3, <1>4, <1>5 DEF RefreshStep

\* Every step keeps the inductive invariant.
THEOREM StepInv == IInv /\ [Next]_vars => IInv'
PROOF
  <1> SUFFICES ASSUME IInv, [Next]_vars PROVE IInv'
    OBVIOUS
  <1>1. CASE Next
    <2>1. together' \in BOOLEAN /\ (~together' => ~together) /\ OneAtWork'
      BY <1>1, AtOnce DEF Next, IInv
    <2>2. CASE \E p \in Tuis : TuiStep(p)
      BY <2>1, <2>2, TuiKeeps
    <2>3. CASE \E b \in Refreshes : RefreshStep(b)
      BY <2>1, <2>3, RefreshKeeps
    <2>. QED
      BY <1>1, <2>2, <2>3 DEF Next
  <1>2. CASE UNCHANGED vars
    BY <1>2
    DEF vars, tuiVars, IInv, TypeOK, GrantsInOrder, OneAtWork, AtWork, Claims
  <1>. QED
    BY <1>1, <1>2

\* The inductive invariant holds in every reachable state.
THEOREM SpecInv == Spec => []IInv
PROOF
  BY InitInv, StepInv, PTL DEF Spec

\* Wherever a disconnect stops, the account is not connected over the grant it revoked.
THEOREM NoClaim == Spec => []NoClaimAfterRevocation
PROOF
  <1>1. IInv => NoClaimAfterRevocation
    BY DEF IInv, Claims, NoClaimAfterRevocation
  <1>. QED
    BY SpecInv, <1>1, PTL

\* Only a refresh that overwrites what it did not read takes a connected account's token.
THEOREM OnlyOverwriting == Spec => []OnlyOverwritingBreaks
PROOF
  <1>1. IInv => OnlyOverwritingBreaks
    BY DEF IInv, Claims, OnlyOverwritingBreaks, ConnectedIsUsable
  <1>. QED
    BY SpecInv, <1>1, PTL

\* A completed disconnect leaves no revoked token behind.
THEOREM DisconnectClean == Spec => []DisconnectedIsClean
PROOF
  <1>1. IInv => DisconnectedIsClean
    BY DEF IInv, Claims, DisconnectedIsClean
  <1>. QED
    BY SpecInv, <1>1, PTL
================================================================================
