---------------------------- MODULE TokenCacheProofs ----------------------------
(****************************************************************************)
(* Proofs about the access-token cache, for any number of operations and    *)
(* of tokens.                                                               *)
(****************************************************************************)
EXTENDS TokenCache, TLAPS

\* The operation at Google's token endpoint, and no other, holds the refresh lock.
LockHeld == \A o \in Ops : phase[o] \in {"post", "insert"} <=> lock = o

\* A token under way to the cache is the newest; when none is, the cached one is.
CacheIsNewest ==
    /\ cache <= minted
    /\ \A o \in Ops : phase[o] = "insert" => token[o] = minted
    /\ cache # 0 /\ (\A o \in Ops : phase[o] # "insert") => cache = minted

\* The tokens operations hold, and those they were refused with.
HeldTokens ==
    \A o \in Ops :
        /\ phase[o] \in {"idle", "lookup"} => attempt[o] = 1
        /\ phase[o] = "call" => token[o] <= minted /\ (cache # 0 => token[o] <= cache)
        /\ attempt[o] = 2 => rejected[o] <= minted
        /\ attempt[o] = 2 /\ phase[o] \in {"insert", "call"} => rejected[o] < token[o]

\* Whatever was minted since a steady operation took its first token is good.
LaterTokensGood ==
    \A o \in steady :
        /\ attempt[o] = 1 /\ phase[o] = "call" => (token[o] + 1)..minted \subseteq valid
        /\ attempt[o] = 2 => (rejected[o] + 1)..minted \subseteq valid

\* The inductive invariant.
IInv ==
    /\ TypeOK
    /\ LockHeld
    /\ RefreshOnlyWhenNeeded
    /\ CacheIsNewest
    /\ HeldTokens
    /\ LaterTokensGood
    /\ SteadyNeverUnauthorized

\* Before anything has happened the inductive invariant holds.
THEOREM InitInv == Init => IInv
PROOF
  <1> SUFFICES ASSUME Init PROVE IInv
    OBVIOUS
  <1>1. TypeOK
    <2>1. phase \in [Ops -> {"idle"} \cup Active \cup Ended]
      BY DEF Init
    <2>2. attempt \in [Ops -> {1, 2}]
      BY DEF Init
    <2>3. 0 \in 0..MaxTokens
      BY TokenCacheAssumption
    <2>4. token \in [Ops -> 0..MaxTokens] /\ rejected \in [Ops -> 0..MaxTokens]
      BY <2>3 DEF Init
    <2>. QED
      BY <2>1, <2>2, <2>3, <2>4 DEF Init, TypeOK
  <1>2. LockHeld
    BY TokenCacheAssumption DEF Init, LockHeld
  <1>3. RefreshOnlyWhenNeeded /\ CacheIsNewest /\ HeldTokens
    BY DEF Init, RefreshOnlyWhenNeeded, CacheIsNewest, HeldTokens
  <1>4. LaterTokensGood /\ SteadyNeverUnauthorized
    BY DEF Init, LaterTokensGood, SteadyNeverUnauthorized
  <1>. QED
    BY <1>1, <1>2, <1>3, <1>4 DEF IInv

\* Every step keeps the inductive invariant.
THEOREM StepInv == IInv /\ [Next]_vars => IInv'
PROOF
  <1> SUFFICES ASSUME IInv, [Next]_vars PROVE IInv'
    OBVIOUS
  <1>0. /\ TypeOK /\ LockHeld /\ RefreshOnlyWhenNeeded /\ CacheIsNewest
        /\ HeldTokens /\ LaterTokensGood /\ SteadyNeverUnauthorized
    BY DEF IInv
  <1>1. ASSUME NEW o \in Ops, Begin(o) PROVE IInv'
    <2>1. TypeOK'
      BY <1>0, <1>1, TokenCacheAssumption
      DEF Begin, cacheVars, google, Goes, TypeOK, Active, Ended
    <2>2. LockHeld'
      BY <1>0, <1>1, TokenCacheAssumption
      DEF Begin, cacheVars, google, Goes, TypeOK, LockHeld
    <2>3. RefreshOnlyWhenNeeded'
      BY <1>0, <1>1, TokenCacheAssumption
      DEF Begin, cacheVars, google, Goes, Usable, TypeOK, RefreshOnlyWhenNeeded, LockHeld
    <2>4. CacheIsNewest'
      BY <1>0, <1>1, TokenCacheAssumption
      DEF Begin, cacheVars, google, Goes, TypeOK, CacheIsNewest, LockHeld
    <2>5. HeldTokens'
      BY <1>0, <1>1, TokenCacheAssumption
      DEF Begin, cacheVars, google, Goes, Usable, TypeOK, HeldTokens, CacheIsNewest, RefreshOnlyWhenNeeded
    <2>6. LaterTokensGood'
      BY <1>0, <1>1, TokenCacheAssumption
      DEF Begin, cacheVars, google, Goes, Usable, TypeOK, LaterTokensGood, HeldTokens, CacheIsNewest, RefreshOnlyWhenNeeded
    <2>7. SteadyNeverUnauthorized'
      BY <1>0, <1>1, TokenCacheAssumption
      DEF Begin, cacheVars, google, Goes, TypeOK, SteadyNeverUnauthorized, LaterTokensGood, HeldTokens
    <2>. QED BY <2>1, <2>2, <2>3, <2>4, <2>5, <2>6, <2>7 DEF IInv
  <1>2. ASSUME NEW o \in Ops, Lookup(o) PROVE IInv'
    <2>1. TypeOK'
      BY <1>0, <1>2, TokenCacheAssumption
      DEF Lookup, cacheVars, google, Goes, Usable, TypeOK, Active, Ended
    <2>2. LockHeld'
      BY <1>0, <1>2, TokenCacheAssumption
      DEF Lookup, cacheVars, google, Goes, Usable, TypeOK, LockHeld
    <2>3. RefreshOnlyWhenNeeded'
      BY <1>0, <1>2, TokenCacheAssumption
      DEF Lookup, cacheVars, google, Goes, Usable, TypeOK, RefreshOnlyWhenNeeded, LockHeld
    <2>4. CacheIsNewest'
      BY <1>0, <1>2, TokenCacheAssumption
      DEF Lookup, cacheVars, google, Goes, Usable, TypeOK, CacheIsNewest, LockHeld
    <2>5. HeldTokens'
      BY <1>0, <1>2, TokenCacheAssumption
      DEF Lookup, cacheVars, google, Goes, Usable, TypeOK, HeldTokens, CacheIsNewest, RefreshOnlyWhenNeeded
    <2>6. LaterTokensGood'
      BY <1>0, <1>2, TokenCacheAssumption
      DEF Lookup, cacheVars, google, Goes, Usable, TypeOK, LaterTokensGood, HeldTokens, CacheIsNewest, RefreshOnlyWhenNeeded
    <2>7. SteadyNeverUnauthorized'
      BY <1>0, <1>2, TokenCacheAssumption
      DEF Lookup, cacheVars, google, Goes, Usable, TypeOK, SteadyNeverUnauthorized, LaterTokensGood, HeldTokens
    <2>. QED BY <2>1, <2>2, <2>3, <2>4, <2>5, <2>6, <2>7 DEF IInv
  <1>3. ASSUME NEW o \in Ops, Acquire(o) PROVE IInv'
    <2>1. TypeOK'
      BY <1>0, <1>3, TokenCacheAssumption
      DEF Acquire, cacheVars, google, Goes, LockFree, FoundMeanwhile, CacheAfterRejection, TypeOK, Active, Ended
    <2>2. LockHeld'
      BY <1>0, <1>3, TokenCacheAssumption
      DEF Acquire, cacheVars, google, Goes, LockFree, FoundMeanwhile, CacheAfterRejection, TypeOK, LockHeld
    <2>3. RefreshOnlyWhenNeeded'
      BY <1>0, <1>3, TokenCacheAssumption
      DEF Acquire, cacheVars, google, Goes, LockFree, FoundMeanwhile, CacheAfterRejection, Usable, TypeOK, RefreshOnlyWhenNeeded, LockHeld
    <2>4. CacheIsNewest'
      BY <1>0, <1>3, TokenCacheAssumption
      DEF Acquire, cacheVars, google, Goes, LockFree, FoundMeanwhile, CacheAfterRejection, TypeOK, CacheIsNewest, LockHeld
    <2>5. HeldTokens'
      BY <1>0, <1>3, TokenCacheAssumption
      DEF Acquire, cacheVars, google, Goes, LockFree, FoundMeanwhile, CacheAfterRejection, Usable, TypeOK, HeldTokens, CacheIsNewest, RefreshOnlyWhenNeeded
    <2>6. LaterTokensGood'
      BY <1>0, <1>3, TokenCacheAssumption
      DEF Acquire, cacheVars, google, Goes, LockFree, FoundMeanwhile, CacheAfterRejection, Usable, TypeOK, LaterTokensGood, HeldTokens, CacheIsNewest, RefreshOnlyWhenNeeded
    <2>7. SteadyNeverUnauthorized'
      BY <1>0, <1>3, TokenCacheAssumption
      DEF Acquire, cacheVars, google, Goes, LockFree, FoundMeanwhile, CacheAfterRejection, TypeOK, SteadyNeverUnauthorized, LaterTokensGood, HeldTokens
    <2>. QED BY <2>1, <2>2, <2>3, <2>4, <2>5, <2>6, <2>7 DEF IInv
  <1>4. ASSUME NEW o \in Ops, Mint(o) PROVE IInv'
    <2>1. TypeOK'
      BY <1>0, <1>4, TokenCacheAssumption
      DEF Mint, cacheVars, google, Goes, TypeOK, Active, Ended
    <2>2. LockHeld'
      BY <1>0, <1>4, TokenCacheAssumption
      DEF Mint, cacheVars, google, Goes, TypeOK, LockHeld
    <2>3. RefreshOnlyWhenNeeded'
      BY <1>0, <1>4, TokenCacheAssumption
      DEF Mint, cacheVars, google, Goes, Usable, TypeOK, RefreshOnlyWhenNeeded, LockHeld
    <2>4. CacheIsNewest'
      BY <1>0, <1>4, TokenCacheAssumption
      DEF Mint, cacheVars, google, Goes, TypeOK, CacheIsNewest, LockHeld
    <2>5. HeldTokens'
      BY <1>0, <1>4, TokenCacheAssumption
      DEF Mint, cacheVars, google, Goes, Usable, TypeOK, HeldTokens, CacheIsNewest, RefreshOnlyWhenNeeded
    <2>6. LaterTokensGood'
      BY <1>0, <1>4, TokenCacheAssumption
      DEF Mint, cacheVars, google, Goes, Usable, TypeOK, LaterTokensGood, HeldTokens, CacheIsNewest, RefreshOnlyWhenNeeded
    <2>7. SteadyNeverUnauthorized'
      BY <1>0, <1>4, TokenCacheAssumption
      DEF Mint, cacheVars, google, Goes, TypeOK, SteadyNeverUnauthorized, LaterTokensGood, HeldTokens
    <2>. QED BY <2>1, <2>2, <2>3, <2>4, <2>5, <2>6, <2>7 DEF IInv
  <1>5. ASSUME NEW o \in Ops, RefreshFails(o) PROVE IInv'
    <2>1. TypeOK'
      BY <1>0, <1>5, TokenCacheAssumption
      DEF RefreshFails, cacheVars, google, Goes, TypeOK, Active, Ended
    <2>2. LockHeld'
      BY <1>0, <1>5, TokenCacheAssumption
      DEF RefreshFails, cacheVars, google, Goes, TypeOK, LockHeld
    <2>3. RefreshOnlyWhenNeeded'
      BY <1>0, <1>5, TokenCacheAssumption
      DEF RefreshFails, cacheVars, google, Goes, Usable, TypeOK, RefreshOnlyWhenNeeded, LockHeld
    <2>4. CacheIsNewest'
      BY <1>0, <1>5, TokenCacheAssumption
      DEF RefreshFails, cacheVars, google, Goes, TypeOK, CacheIsNewest, LockHeld
    <2>5. HeldTokens'
      BY <1>0, <1>5, TokenCacheAssumption
      DEF RefreshFails, cacheVars, google, Goes, Usable, TypeOK, HeldTokens, CacheIsNewest, RefreshOnlyWhenNeeded
    <2>6. LaterTokensGood'
      BY <1>0, <1>5, TokenCacheAssumption
      DEF RefreshFails, cacheVars, google, Goes, Usable, TypeOK, LaterTokensGood, HeldTokens, CacheIsNewest, RefreshOnlyWhenNeeded
    <2>7. SteadyNeverUnauthorized'
      BY <1>0, <1>5, TokenCacheAssumption
      DEF RefreshFails, cacheVars, google, Goes, TypeOK, SteadyNeverUnauthorized, LaterTokensGood, HeldTokens
    <2>. QED BY <2>1, <2>2, <2>3, <2>4, <2>5, <2>6, <2>7 DEF IInv
  <1>6. ASSUME NEW o \in Ops, Insert(o) PROVE IInv'
    <2>1. TypeOK'
      BY <1>0, <1>6, TokenCacheAssumption
      DEF Insert, cacheVars, google, Goes, TypeOK, Active, Ended
    <2>2. LockHeld'
      BY <1>0, <1>6, TokenCacheAssumption
      DEF Insert, cacheVars, google, Goes, TypeOK, LockHeld
    <2>3. RefreshOnlyWhenNeeded'
      BY <1>0, <1>6, TokenCacheAssumption
      DEF Insert, cacheVars, google, Goes, Usable, TypeOK, RefreshOnlyWhenNeeded, LockHeld
    <2>4. CacheIsNewest'
      BY <1>0, <1>6, TokenCacheAssumption
      DEF Insert, cacheVars, google, Goes, TypeOK, CacheIsNewest, LockHeld
    <2>5. HeldTokens'
      BY <1>0, <1>6, TokenCacheAssumption
      DEF Insert, cacheVars, google, Goes, Usable, TypeOK, HeldTokens, CacheIsNewest, RefreshOnlyWhenNeeded
    <2>6. LaterTokensGood'
      BY <1>0, <1>6, TokenCacheAssumption
      DEF Insert, cacheVars, google, Goes, Usable, TypeOK, LaterTokensGood, HeldTokens, CacheIsNewest, RefreshOnlyWhenNeeded
    <2>7. SteadyNeverUnauthorized'
      BY <1>0, <1>6, TokenCacheAssumption
      DEF Insert, cacheVars, google, Goes, TypeOK, SteadyNeverUnauthorized, LaterTokensGood, HeldTokens
    <2>. QED BY <2>1, <2>2, <2>3, <2>4, <2>5, <2>6, <2>7 DEF IInv
  <1>7. ASSUME NEW o \in Ops, Accepted(o) PROVE IInv'
    <2>1. TypeOK'
      BY <1>0, <1>7, TokenCacheAssumption
      DEF Accepted, cacheVars, google, Goes, TypeOK, Active, Ended
    <2>2. LockHeld'
      BY <1>0, <1>7, TokenCacheAssumption
      DEF Accepted, cacheVars, google, Goes, TypeOK, LockHeld
    <2>3. RefreshOnlyWhenNeeded'
      BY <1>0, <1>7, TokenCacheAssumption
      DEF Accepted, cacheVars, google, Goes, Usable, TypeOK, RefreshOnlyWhenNeeded, LockHeld
    <2>4. CacheIsNewest'
      BY <1>0, <1>7, TokenCacheAssumption
      DEF Accepted, cacheVars, google, Goes, TypeOK, CacheIsNewest, LockHeld
    <2>5. HeldTokens'
      BY <1>0, <1>7, TokenCacheAssumption
      DEF Accepted, cacheVars, google, Goes, Usable, TypeOK, HeldTokens, CacheIsNewest, RefreshOnlyWhenNeeded
    <2>6. LaterTokensGood'
      BY <1>0, <1>7, TokenCacheAssumption
      DEF Accepted, cacheVars, google, Goes, Usable, TypeOK, LaterTokensGood, HeldTokens, CacheIsNewest, RefreshOnlyWhenNeeded
    <2>7. SteadyNeverUnauthorized'
      BY <1>0, <1>7, TokenCacheAssumption
      DEF Accepted, cacheVars, google, Goes, TypeOK, SteadyNeverUnauthorized, LaterTokensGood, HeldTokens
    <2>. QED BY <2>1, <2>2, <2>3, <2>4, <2>5, <2>6, <2>7 DEF IInv
  <1>8. ASSUME NEW o \in Ops, Unauthorized(o) PROVE IInv'
    <2>1. TypeOK'
      BY <1>0, <1>8, TokenCacheAssumption
      DEF Unauthorized, cacheVars, google, Goes, TypeOK, Active, Ended
    <2>2. LockHeld'
      BY <1>0, <1>8, TokenCacheAssumption
      DEF Unauthorized, cacheVars, google, Goes, TypeOK, LockHeld
    <2>3. RefreshOnlyWhenNeeded'
      BY <1>0, <1>8, TokenCacheAssumption
      DEF Unauthorized, cacheVars, google, Goes, Usable, TypeOK, RefreshOnlyWhenNeeded, LockHeld
    <2>4. CacheIsNewest'
      BY <1>0, <1>8, TokenCacheAssumption
      DEF Unauthorized, cacheVars, google, Goes, TypeOK, CacheIsNewest, LockHeld
    <2>5. HeldTokens'
      BY <1>0, <1>8, TokenCacheAssumption
      DEF Unauthorized, cacheVars, google, Goes, Usable, TypeOK, HeldTokens, CacheIsNewest, RefreshOnlyWhenNeeded
    <2>6. LaterTokensGood'
      BY <1>0, <1>8, TokenCacheAssumption
      DEF Unauthorized, cacheVars, google, Goes, Usable, TypeOK, LaterTokensGood, HeldTokens, CacheIsNewest, RefreshOnlyWhenNeeded
    <2>7. SteadyNeverUnauthorized'
      BY <1>0, <1>8, TokenCacheAssumption
      DEF Unauthorized, cacheVars, google, Goes, TypeOK, SteadyNeverUnauthorized, LaterTokensGood, HeldTokens
    <2>. QED BY <2>1, <2>2, <2>3, <2>4, <2>5, <2>6, <2>7 DEF IInv
  <1>9. CASE CacheExpires
    <2>1. TypeOK'
      BY <1>0, <1>9, TokenCacheAssumption
      DEF CacheExpires, cacheVars, google, TypeOK, Active, Ended
    <2>2. LockHeld'
      BY <1>0, <1>9, TokenCacheAssumption
      DEF CacheExpires, cacheVars, google, TypeOK, LockHeld
    <2>3. RefreshOnlyWhenNeeded'
      BY <1>0, <1>9, TokenCacheAssumption
      DEF CacheExpires, cacheVars, google, Usable, TypeOK, RefreshOnlyWhenNeeded, LockHeld
    <2>4. CacheIsNewest'
      BY <1>0, <1>9, TokenCacheAssumption
      DEF CacheExpires, cacheVars, google, TypeOK, CacheIsNewest, LockHeld
    <2>5. HeldTokens'
      BY <1>0, <1>9, TokenCacheAssumption
      DEF CacheExpires, cacheVars, google, Usable, TypeOK, HeldTokens, CacheIsNewest, RefreshOnlyWhenNeeded
    <2>6. LaterTokensGood'
      BY <1>0, <1>9, TokenCacheAssumption
      DEF CacheExpires, cacheVars, google, Usable, TypeOK, LaterTokensGood, HeldTokens, CacheIsNewest, RefreshOnlyWhenNeeded
    <2>7. SteadyNeverUnauthorized'
      BY <1>0, <1>9, TokenCacheAssumption
      DEF CacheExpires, cacheVars, google, TypeOK, SteadyNeverUnauthorized, LaterTokensGood, HeldTokens
    <2>. QED BY <2>1, <2>2, <2>3, <2>4, <2>5, <2>6, <2>7 DEF IInv
  <1>10. CASE Withdraw
    <2>1. TypeOK'
      BY <1>0, <1>10, TokenCacheAssumption
      DEF Withdraw, cacheVars, google, TypeOK, Active, Ended
    <2>2. LockHeld'
      BY <1>0, <1>10, TokenCacheAssumption
      DEF Withdraw, cacheVars, google, TypeOK, LockHeld
    <2>3. RefreshOnlyWhenNeeded'
      BY <1>0, <1>10, TokenCacheAssumption
      DEF Withdraw, cacheVars, google, Usable, TypeOK, RefreshOnlyWhenNeeded, LockHeld
    <2>4. CacheIsNewest'
      BY <1>0, <1>10, TokenCacheAssumption
      DEF Withdraw, cacheVars, google, TypeOK, CacheIsNewest, LockHeld
    <2>5. HeldTokens'
      BY <1>0, <1>10, TokenCacheAssumption
      DEF Withdraw, cacheVars, google, Usable, TypeOK, HeldTokens, CacheIsNewest, RefreshOnlyWhenNeeded
    <2>6. LaterTokensGood'
      BY <1>0, <1>10, TokenCacheAssumption
      DEF Withdraw, cacheVars, google, Usable, TypeOK, LaterTokensGood, HeldTokens, CacheIsNewest, RefreshOnlyWhenNeeded
    <2>7. SteadyNeverUnauthorized'
      BY <1>0, <1>10, TokenCacheAssumption
      DEF Withdraw, cacheVars, google, TypeOK, SteadyNeverUnauthorized, LaterTokensGood, HeldTokens
    <2>. QED BY <2>1, <2>2, <2>3, <2>4, <2>5, <2>6, <2>7 DEF IInv
  <1>11. CASE Reconnect
    <2>1. TypeOK'
      BY <1>0, <1>11, TokenCacheAssumption
      DEF Reconnect, cacheVars, google, TypeOK, Active, Ended
    <2>2. LockHeld'
      BY <1>0, <1>11, TokenCacheAssumption
      DEF Reconnect, cacheVars, google, TypeOK, LockHeld
    <2>3. RefreshOnlyWhenNeeded'
      BY <1>0, <1>11, TokenCacheAssumption
      DEF Reconnect, cacheVars, google, Usable, TypeOK, RefreshOnlyWhenNeeded, LockHeld
    <2>4. CacheIsNewest'
      BY <1>0, <1>11, TokenCacheAssumption
      DEF Reconnect, cacheVars, google, TypeOK, CacheIsNewest, LockHeld
    <2>5. HeldTokens'
      BY <1>0, <1>11, TokenCacheAssumption
      DEF Reconnect, cacheVars, google, Usable, TypeOK, HeldTokens, CacheIsNewest, RefreshOnlyWhenNeeded
    <2>6. LaterTokensGood'
      BY <1>0, <1>11, TokenCacheAssumption
      DEF Reconnect, cacheVars, google, Usable, TypeOK, LaterTokensGood, HeldTokens, CacheIsNewest, RefreshOnlyWhenNeeded
    <2>7. SteadyNeverUnauthorized'
      BY <1>0, <1>11, TokenCacheAssumption
      DEF Reconnect, cacheVars, google, TypeOK, SteadyNeverUnauthorized, LaterTokensGood, HeldTokens
    <2>. QED BY <2>1, <2>2, <2>3, <2>4, <2>5, <2>6, <2>7 DEF IInv
  <1>12. CASE UNCHANGED vars
    BY <1>0, <1>12
    DEF vars, cacheVars, google, IInv, TypeOK, LockHeld, RefreshOnlyWhenNeeded, CacheIsNewest,
        HeldTokens, LaterTokensGood, SteadyNeverUnauthorized, Usable
  <1>. QED
    BY <1>1, <1>2, <1>3, <1>4, <1>5, <1>6, <1>7, <1>8, <1>9, <1>10, <1>11, <1>12
    DEF Next, Step

\* The inductive invariant holds in every reachable state.
THEOREM SpecInv == Spec => []IInv
PROOF
  BY InitInv, StepInv, PTL DEF Spec

\* The account's cache, its lock and every operation's place keep their types.
THEOREM SpecType == Spec => []TypeOK
PROOF
  <1>1. IInv => TypeOK
    BY DEF IInv
  <1>. QED
    BY SpecInv, <1>1, PTL

\* However many operations contend, none asks Google for a token while the cache
\* offers one: the look repeated under the refresh lock is enough.
THEOREM SharesRefreshes == Spec => []RefreshOnlyWhenNeeded
PROOF
  <1>1. IInv => RefreshOnlyWhenNeeded
    BY DEF IInv
  <1>. QED
    BY SpecInv, <1>1, PTL

\* No late insertion puts an older token over a newer one, and the second attempt
\* presents another token than the refused one.
THEOREM KeepsNewest == Spec => []CacheHoldsNewest
PROOF
  <1>1. IInv => CacheHoldsNewest
    BY DEF IInv, CacheHoldsNewest, TypeOK, HeldTokens
  <1>. QED
    BY SpecInv, <1>1, PTL

\* One retry is enough: an operation during which no credential was withdrawn never
\* ends with Gmail's 401.
THEOREM OneRetrySuffices == Spec => []SteadyNeverUnauthorized
PROOF
  <1>1. IInv => SteadyNeverUnauthorized
    BY DEF IInv
  <1>. QED
    BY SpecInv, <1>1, PTL
================================================================================
