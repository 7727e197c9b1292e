---------------------------- MODULE SignInProofs -----------------------------
(***************************************************************************)
(* Proofs about signing in: the lockout of one account, for any number of  *)
(* requests, and the way of a browser's tabs to their codes, for any       *)
(* number of tabs, users, clients, sessions and codes.  And proofs about   *)
(* the tables of the users and clients that sign in: how starts fill them  *)
(* and administrators change them, for any number of administrators, any   *)
(* requests, any migrations and seeds, and any number of starts.           *)
(***************************************************************************)
EXTENDS UserAccount, AuthorizeFlow, StartUp, FiniteSetTheorems, WellFoundedInduction, TLAPS

LEMMA LockForType ==
  ASSUME NEW n \in Nat
  PROVE  LockFor(n) \in 0..LockTime
BY AccountAssumption DEF LockFor

LEMMA LeastType ==
  ASSUME NEW a \in Nat, NEW b \in Nat
  PROVE  Least(a, b) \in 0..b /\ Least(a, b) <= a
BY DEF Least

LEMMA TypeStep == TypeOK /\ [Next]_vars => TypeOK'
<1> SUFFICES ASSUME TypeOK, [Next]_vars PROVE TypeOK'
  OBVIOUS
<1> USE AccountAssumption DEF Attempts
<1>1. ASSUME NEW r \in Requests, NEW reply \in {"guess", "login"}, LoginRead(r, reply)
      PROVE  TypeOK'
  BY <1>1 DEF LoginRead, GoTo, Begins, row, TypeOK
<1>2. ASSUME NEW r \in Requests, LoginWrong(r) PROVE TypeOK'
  <2>1. /\ seen[r] \in Nat /\ guesses \in Nat
        /\ failed_login_attempts' \in 0..MaxAttempts
        /\ lock_left' \in 0..LockTime
        /\ guesses' \in 0..(GuessBound + 1)
    BY <1>2, LockForType, LeastType DEF LoginWrong, TypeOK
  <2> QED BY <2>1, <1>2 DEF LoginWrong, End, TypeOK
<1>3. ASSUME NEW r \in Requests, LoginRight(r) PROVE TypeOK'
  BY <1>3 DEF LoginRight, End, TypeOK
<1>4. ASSUME NEW r \in Requests, NEW wanted \in {"on", "off", "keep"}, UpdateRead(r, wanted)
      PROVE  TypeOK'
  <2>1. (CASE wanted = "on" -> TRUE [] wanted = "off" -> FALSE
           [] wanted = "keep" -> is_active) \in BOOLEAN
    BY DEF TypeOK
  <2>2. (deleted /\ wanted # "on") \in BOOLEAN
    OBVIOUS
  <2> QED BY <2>1, <2>2, <1>4 DEF UpdateRead, GoTo, Begins, row, TypeOK
<1>5. ASSUME NEW r \in Requests, UpdateWrite(r) PROVE TypeOK'
  BY <1>5 DEF UpdateWrite, End, TypeOK
<1>6. CASE Delete
  BY <1>6 DEF Delete, Begins, TypeOK
<1>7. ASSUME NEW r \in Requests, Drop(r) PROVE TypeOK'
  BY <1>7 DEF Drop, End, row, TypeOK
<1>8. CASE Tick
  BY <1>8 DEF Tick, Locked, TypeOK
<1>9. CASE UNCHANGED vars
  BY <1>9 DEF vars, row, TypeOK
<1> QED BY <1>1, <1>2, <1>3, <1>4, <1>5, <1>6, <1>7, <1>8, <1>9 DEF Next

LEMMA InitType == Init => TypeOK
<1> SUFFICES ASSUME Init PROVE TypeOK
  OBVIOUS
<1>1. writes_active \in [Requests -> BOOLEAN]
  BY DEF Init
<1>2. is_active \in BOOLEAN /\ deleted \in BOOLEAN /\ overlapped \in BOOLEAN
  BY DEF Init
<1> QED BY <1>1, <1>2, AccountAssumption DEF Init, TypeOK, Attempts

(* The row, the handlers and the history keep their types, for any number  *)
(* of concurrent requests and any limit.                                   *)
THEOREM TypeCorrect == Spec => []TypeOK
BY InitType, TypeStep, PTL DEF Spec

-----------------------------------------------------------------------------
(* As long as no two requests overlapped: only one is at work, the counter *)
(* counts every guess, and what an update will write is up to date.        *)

OneAtWork == \A r, s \in Requests : pc[r] # "idle" /\ pc[s] # "idle" => r = s

\* The failures counted are at least the guesses made, and a handler that is
\* about to count one read the row as it still is.
CountedExactly ==
  /\ guesses <= failed_login_attempts
  /\ \A r \in Requests : pc[r] = "guess" => seen[r] = failed_login_attempts /\ ~Locked

\* No update is about to activate a deleted user.
UpToDate == \A r \in Requests : deleted /\ pc[r] = "updating" => ~writes_active[r]

SeqInv ==
  /\ TypeOK
  /\ ~overlapped => OneAtWork /\ CountedExactly /\ UpToDate
  /\ FailuresLock
  /\ DeletedStaysInactive

\* What a step must preserve when nothing has overlapped, not even with it.
InTurn ==
  /\ OneAtWork /\ CountedExactly /\ UpToDate
  /\ guesses >= MaxAttempts => Locked
  /\ deleted => ~is_active

LEMMA InTurnStep ==
  ASSUME TypeOK, InTurn, ~overlapped', [Next]_vars
  PROVE  InTurn'
<1> USE AccountAssumption DEF Attempts
<1>1. TypeOK'
  BY TypeStep
<1>2. /\ guesses \in Nat /\ failed_login_attempts \in 0..MaxAttempts /\ lock_left \in Nat
      /\ guesses <= failed_login_attempts
      /\ seen \in [Requests -> 0..MaxAttempts]
  BY DEF TypeOK, InTurn, CountedExactly
<1>3. ASSUME NEW r \in Requests, NEW reply \in {"guess", "login"}, LoginRead(r, reply)
      PROVE  InTurn'
  <2>1. /\ \A s \in Requests : pc[s] = "idle"
        /\ \A s \in Requests : s # r => pc'[s] = "idle"
        /\ pc'[r] = reply /\ seen'[r] = failed_login_attempts /\ ~Locked
        /\ UNCHANGED <<failed_login_attempts, lock_left, guesses, deleted, is_active>>
    BY <1>3 DEF LoginRead, GoTo, Begins, row, TypeOK
  <2>2. OneAtWork' /\ UpToDate'
    BY <2>1 DEF OneAtWork, UpToDate
  <2>3. CountedExactly'
    BY <2>1, <1>2 DEF CountedExactly, Locked
  <2> QED BY <2>1, <2>2, <2>3 DEF InTurn, Locked
<1>4. ASSUME NEW r \in Requests, LoginWrong(r) PROVE InTurn'
  <2>1. /\ pc[r] = "guess" /\ pc'[r] = "idle"
        /\ \A s \in Requests : s # r => pc'[s] = pc[s]
        /\ failed_login_attempts' = Least(seen[r] + 1, MaxAttempts)
        /\ lock_left' = LockFor(seen[r] + 1)
        /\ guesses' = Least(guesses + 1, GuessBound + 1)
        /\ UNCHANGED <<is_active, deleted>>
    BY <1>4 DEF LoginWrong, End, TypeOK
  <2>2. /\ \A s \in Requests : pc'[s] = "idle"
        /\ guesses < MaxAttempts /\ seen[r] = failed_login_attempts
    BY <2>1, <1>2 DEF InTurn, OneAtWork, CountedExactly
  <2>3. guesses' <= guesses + 1 /\ guesses' \in Nat
    BY <2>1, <1>2, LeastType
  <2>4. guesses' <= failed_login_attempts'
    BY <2>1, <2>2, <2>3, <1>2 DEF Least
  <2>5. guesses' >= MaxAttempts => lock_left' > 0
    BY <2>1, <2>2, <2>3, <1>2 DEF LockFor
  <2>6. OneAtWork' /\ UpToDate' /\ CountedExactly'
    BY <2>2, <2>4 DEF OneAtWork, UpToDate, CountedExactly
  <2> QED BY <2>1, <2>5, <2>6 DEF InTurn, Locked
<1>5. ASSUME NEW r \in Requests, LoginRight(r) PROVE InTurn'
  <2>1. /\ pc[r] = "login" /\ pc'[r] = "idle" /\ guesses' = 0
        /\ \A s \in Requests : s # r => pc'[s] = pc[s]
        /\ UNCHANGED <<is_active, deleted>>
    BY <1>5 DEF LoginRight, End, TypeOK
  <2>2. \A s \in Requests : pc'[s] = "idle"
    BY <2>1 DEF InTurn, OneAtWork
  <2>3. failed_login_attempts' \in Nat
    BY <1>1 DEF TypeOK
  <2>4. OneAtWork' /\ UpToDate' /\ CountedExactly'
    BY <2>1, <2>2, <2>3 DEF OneAtWork, UpToDate, CountedExactly
  <2> QED BY <2>1, <2>4 DEF InTurn
<1>6. ASSUME NEW r \in Requests, NEW wanted \in {"on", "off", "keep"}, UpdateRead(r, wanted)
      PROVE  InTurn'
  <2>1. /\ \A s \in Requests : pc[s] = "idle"
        /\ \A s \in Requests : s # r => pc'[s] = "idle"
        /\ pc'[r] = "updating"
        /\ UNCHANGED <<failed_login_attempts, lock_left, guesses, is_active>>
    BY <1>6 DEF UpdateRead, GoTo, Begins, row, TypeOK
  <2>2. deleted' => deleted /\ wanted # "on"
    BY <1>6 DEF UpdateRead
  <2>3. wanted # "on" => writes_active'[r] \in {FALSE, is_active}
    BY <1>6 DEF UpdateRead, TypeOK
  <2>4. deleted' => ~writes_active'[r] /\ ~is_active
    BY <2>2, <2>3 DEF InTurn
  <2>5. OneAtWork' /\ UpToDate' /\ CountedExactly'
    BY <2>1, <2>4, <1>2 DEF OneAtWork, UpToDate, CountedExactly
  <2> QED BY <2>1, <2>4, <2>5 DEF InTurn, Locked
<1>7. ASSUME NEW r \in Requests, UpdateWrite(r) PROVE InTurn'
  <2>1. /\ pc[r] = "updating" /\ pc'[r] = "idle"
        /\ \A s \in Requests : s # r => pc'[s] = pc[s]
        /\ is_active' = writes_active[r]
        /\ UNCHANGED <<failed_login_attempts, lock_left, guesses, deleted>>
    BY <1>7 DEF UpdateWrite, End, TypeOK
  <2>2. \A s \in Requests : pc'[s] = "idle"
    BY <2>1 DEF InTurn, OneAtWork
  <2>3. deleted' => ~is_active'
    BY <2>1 DEF InTurn, UpToDate
  <2>4. OneAtWork' /\ UpToDate' /\ CountedExactly'
    BY <2>1, <2>2, <1>2 DEF OneAtWork, UpToDate, CountedExactly
  <2> QED BY <2>1, <2>3, <2>4 DEF InTurn, Locked
<1>8. ASSUME NEW r \in Requests, Drop(r) PROVE InTurn'
  <2>1. /\ pc[r] # "idle" /\ pc'[r] = "idle"
        /\ \A s \in Requests : s # r => pc'[s] = pc[s]
        /\ UNCHANGED <<is_active, failed_login_attempts, lock_left, guesses, deleted>>
    BY <1>8 DEF Drop, End, row, TypeOK
  <2>2. \A s \in Requests : pc'[s] = "idle"
    BY <2>1 DEF InTurn, OneAtWork
  <2>3. OneAtWork' /\ UpToDate' /\ CountedExactly'
    BY <2>1, <2>2, <1>2 DEF OneAtWork, UpToDate, CountedExactly
  <2> QED BY <2>1, <2>3 DEF InTurn, Locked
<1>9. CASE Delete
  <2>1. /\ \A s \in Requests : pc'[s] = "idle"
        /\ is_active' = FALSE
        /\ UNCHANGED <<failed_login_attempts, lock_left, guesses>>
    BY <1>9 DEF Delete, Begins, TypeOK
  <2>2. OneAtWork' /\ UpToDate' /\ CountedExactly'
    BY <2>1, <1>2 DEF OneAtWork, UpToDate, CountedExactly
  <2> QED BY <2>1, <2>2 DEF InTurn, Locked
<1>10. CASE Tick
  <2>1. /\ Locked /\ \A s \in Requests : pc'[s] # "guess"
        /\ lock_left' = lock_left - 1
        /\ guesses' = IF lock_left = 1 THEN 0 ELSE guesses
        /\ UNCHANGED <<is_active, failed_login_attempts, pc, deleted, writes_active>>
    BY <1>10 DEF Tick, InTurn, CountedExactly
  <2>2. OneAtWork' /\ UpToDate'
    BY <2>1 DEF InTurn, OneAtWork, UpToDate
  <2>3. CountedExactly' /\ (guesses' >= MaxAttempts => lock_left' > 0)
    BY <2>1, <1>2 DEF CountedExactly, Locked
  <2> QED BY <2>1, <2>2, <2>3 DEF InTurn, Locked
<1>11. CASE UNCHANGED vars
  BY <1>11 DEF vars, row, InTurn, OneAtWork, UpToDate, CountedExactly, Locked
<1> QED BY <1>3, <1>4, <1>5, <1>6, <1>7, <1>8, <1>9, <1>10, <1>11 DEF Next

\* Once two requests have overlapped it stays that way.
LEMMA OverlapStays ==
  ASSUME TypeOK, [Next]_vars, overlapped
  PROVE  overlapped'
<1>1. ASSUME NEW r \in Requests, NEW reply \in {"guess", "login"}, LoginRead(r, reply)
      PROVE  overlapped'
  BY <1>1 DEF LoginRead, Begins
<1>2. ASSUME NEW r \in Requests, LoginWrong(r) \/ LoginRight(r) PROVE overlapped'
  BY <1>2 DEF LoginWrong, LoginRight
<1>3. ASSUME NEW r \in Requests, NEW wanted \in {"on", "off", "keep"}, UpdateRead(r, wanted)
      PROVE  overlapped'
  BY <1>3 DEF UpdateRead, Begins
<1>4. ASSUME NEW r \in Requests, UpdateWrite(r) \/ Drop(r) PROVE overlapped'
  BY <1>4 DEF UpdateWrite, Drop
<1>5. CASE Delete \/ Tick \/ UNCHANGED vars
  BY <1>5 DEF Delete, Begins, Tick, vars
<1> QED BY <1>1, <1>2, <1>3, <1>4, <1>5 DEF Next

LEMMA SeqInvariance == Spec => []SeqInv
<1>1. Init => SeqInv
  <2> SUFFICES ASSUME Init PROVE SeqInv
    OBVIOUS
  <2>1. TypeOK
    BY InitType
  <2>2. OneAtWork /\ CountedExactly /\ UpToDate
    BY DEF Init, OneAtWork, CountedExactly, UpToDate
  <2>3. FailuresLock /\ DeletedStaysInactive
    BY AccountAssumption DEF Init, FailuresLock, DeletedStaysInactive
  <2> QED BY <2>1, <2>2, <2>3 DEF SeqInv
<1>2. SeqInv /\ [Next]_vars => SeqInv'
  <2> SUFFICES ASSUME SeqInv, [Next]_vars PROVE SeqInv'
    OBVIOUS
  <2>1. TypeOK /\ TypeOK'
    BY TypeStep DEF SeqInv
  <2>2. CASE overlapped'
    BY <2>1, <2>2 DEF SeqInv, FailuresLock, DeletedStaysInactive
  <2>3. CASE ~overlapped'
    <3>1. InTurn
      BY <2>1, <2>3, OverlapStays DEF SeqInv, InTurn, FailuresLock, DeletedStaysInactive
    <3>2. InTurn'
      BY <2>1, <2>3, <3>1, InTurnStep
    <3> QED BY <2>1, <3>2 DEF SeqInv, InTurn, FailuresLock, DeletedStaysInactive
  <2> QED BY <2>2, <2>3
<1> QED BY <1>1, <1>2, PTL DEF Spec

(* authenticate: unless two requests overlapped, MaxAttempts wrong         *)
(* passwords in a row lock the account, for any limit and any length of    *)
(* the lock, whatever updates, deletions, dropped handlers and ended locks *)
(* come in between.                                                        *)
THEOREM FailuresLockTheAccount == Spec => []FailuresLock
<1>1. SeqInv => FailuresLock
  BY DEF SeqInv
<1> QED BY <1>1, SeqInvariance, PTL

(* delete_user and update_user: unless two requests overlapped, a deleted  *)
(* user stays inactive until somebody asks to activate the user again.     *)
THEOREM DeletedUsersStayInactive == Spec => []DeletedStaysInactive
<1>1. SeqInv => DeletedStaysInactive
  BY DEF SeqInv
<1> QED BY <1>1, SeqInvariance, PTL
-----------------------------------------------------------------------------
(* How many guesses overlapping can cost.  A request stands at the lowest  *)
(* count it may still make the row go on from: the one it read, or the     *)
(* row's own.  A guess moves the request that makes it up, and whom it     *)
(* moves down stays above where that request stood; so the tallies grow in *)
(* the order that asks first for fewer requests at the lowest count, and   *)
(* no guess finds a tally again before the guesses start from none.        *)

Standing == [r \in Requests |->
  IF pc[r] \in {"guess", "login"}
    THEN Least(Least(seen[r], MaxAttempts - 1), failed_login_attempts)
    ELSE failed_login_attempts]

Precedes(c, d) ==
  \E n \in Attempts : d[n] < c[n] /\ \A k \in Attempts : k < n => c[k] = d[k]

Below(c) == {t \in Tallies : Precedes(t, c)}

\* Every guess has used up a tally, and none is counted when the lock is over
\* while the count is still at its limit.
GuessInv ==
  /\ TypeOK
  /\ guesses <= Cardinality(Below(Tally(Standing)))
  /\ failed_login_attempts = MaxAttempts /\ ~Locked => guesses = 0

LEMMA AtCount ==
  ASSUME NEW counts, NEW n
  PROVE  /\ IsFiniteSet({r \in Requests : counts[r] = n})
         /\ Cardinality({r \in Requests : counts[r] = n}) \in Nat
BY FS_Subset, FS_CardinalityType, GuessAssumption

LEMMA TallyType ==
  ASSUME NEW counts \in [Requests -> Attempts]
  PROVE  Tally(counts) \in Tallies /\ Tally(counts) \in [Attempts -> Nat]
BY AtCount DEF Tally, Tallies

LEMMA TalliesAreFinite == IsFiniteSet(Tallies)
<1> DEFINE All == [Requests -> Attempts]
           Pairs(v) == {<<r, v[r]>> : r \in Requests}
           f == [v \in All |-> Pairs(v)]
           g == [v \in All |-> Tally(v)]
<1>1. IsFiniteSet(SUBSET (Requests \X Attempts))
  <2>1. IsFiniteSet(Attempts)
    BY FS_Interval, AccountAssumption DEF Attempts
  <2>2. IsFiniteSet(Requests \X Attempts)
    BY <2>1, FS_Product, GuessAssumption
  <2> QED BY <2>2, FS_SUBSET
<1>2. f \in Injection(All, SUBSET (Requests \X Attempts))
  <2>1. f \in [All -> SUBSET (Requests \X Attempts)]
    OBVIOUS
  <2>2. ASSUME NEW v \in All, NEW w \in All, Pairs(v) = Pairs(w) PROVE v = w
    <3>1. ASSUME NEW r \in Requests PROVE v[r] = w[r]
      <4>1. <<r, v[r]>> \in Pairs(w)
        BY <2>2
      <4> QED BY <4>1
    <3> QED BY <3>1
  <2> QED BY <2>1, <2>2 DEF Injection, IsInjective
<1>3. IsFiniteSet(All)
  BY <1>1, <1>2, FS_Injection
<1>4. g \in Surjection(All, Tallies)
  BY DEF Surjection, Tallies
<1> QED BY <1>3, <1>4, FS_Surjection

LEMMA BelowIsFinite ==
  ASSUME NEW c
  PROVE  IsFiniteSet(Below(c)) /\ Cardinality(Below(c)) \in Nat
BY TalliesAreFinite, FS_Subset, FS_CardinalityType DEF Below

LEMMA PrecedesIsStrict ==
  ASSUME NEW c \in [Attempts -> Nat]
  PROVE  ~Precedes(c, c)
BY DEF Precedes

LEMMA PrecedesIsTransitive ==
  ASSUME NEW b \in [Attempts -> Nat], NEW c \in [Attempts -> Nat], NEW d \in [Attempts -> Nat],
         Precedes(b, c), Precedes(c, d)
  PROVE  Precedes(b, d)
<1> USE AccountAssumption DEF Attempts
<1>1. PICK n \in Attempts : c[n] < b[n] /\ \A k \in Attempts : k < n => b[k] = c[k]
  BY DEF Precedes
<1>2. PICK m \in Attempts : d[m] < c[m] /\ \A k \in Attempts : k < m => c[k] = d[k]
  BY DEF Precedes
<1>3. CASE n < m
  <2>1. d[n] < b[n] /\ \A k \in Attempts : k < n => b[k] = d[k]
    BY <1>1, <1>2, <1>3
  <2> QED BY <2>1 DEF Precedes
<1>4. CASE m <= n
  <2>1. d[m] < b[m]
    <3>1. c[m] <= b[m]
      BY <1>1, <1>4
    <3>2. /\ b[m] \in Nat /\ c[m] \in Nat /\ d[m] \in Nat
          /\ d[m] < c[m]
      BY <1>2
    <3> QED BY <3>1, <3>2
  <2>2. \A k \in Attempts : k < m => b[k] = d[k]
    BY <1>1, <1>2, <1>4
  <2> QED BY <2>1, <2>2 DEF Precedes
<1> QED BY <1>3, <1>4

\* A later tally has at least one more below it.
LEMMA LaterHasMoreBelow ==
  ASSUME NEW c \in Tallies, NEW d \in Tallies, Precedes(c, d)
  PROVE  Cardinality(Below(c)) + 1 <= Cardinality(Below(d))
<1>1. Tallies \subseteq [Attempts -> Nat]
  BY TallyType DEF Tallies
<1>2. Below(c) \union {c} \subseteq Below(d)
  BY <1>1, PrecedesIsTransitive DEF Below
<1>3. c \notin Below(c)
  BY <1>1, PrecedesIsStrict DEF Below
<1>4. Cardinality(Below(c) \union {c}) = Cardinality(Below(c)) + 1
  BY <1>3, BelowIsFinite, FS_AddElement
<1>5. Cardinality(Below(c) \union {c}) <= Cardinality(Below(d))
  BY <1>2, BelowIsFinite, FS_Subset
<1> QED BY <1>4, <1>5

LEMMA NeverMoreBelowThanTheBound ==
  ASSUME NEW c \in Tallies
  PROVE  Cardinality(Below(c)) <= GuessBound
<1>1. c \in [Attempts -> Nat]
  BY TallyType DEF Tallies
<1>2. Below(c) \subseteq Tallies /\ c \notin Below(c) /\ IsFiniteSet(Tallies)
  BY <1>1, PrecedesIsStrict, TalliesAreFinite DEF Below
<1>3. Below(c) \in SUBSET (Tallies \ {c})
  BY <1>2
<1>4. /\ IsFiniteSet(Tallies \ {c})
      /\ Cardinality(Tallies \ {c}) = Cardinality(Tallies) - 1 /\ Cardinality(Tallies) \in Nat
  BY <1>2, FS_RemoveElement, FS_CardinalityType
<1>5. Cardinality(Below(c)) <= Cardinality(Tallies \ {c})
  BY <1>3, <1>4, FS_Subset
<1> QED BY <1>4, <1>5, BelowIsFinite, GuessAssumption, AccountAssumption

\* A request leaves its count for a higher one, and who is as low as it was, or
\* lower, had been there before: the tally grows.
LEMMA RaisingGrows ==
  ASSUME NEW v \in [Requests -> Attempts], NEW w \in [Requests -> Attempts], NEW x \in Requests,
         v[x] < w[x], \A r \in Requests : w[r] <= v[x] => w[r] = v[r]
  PROVE  Precedes(Tally(v), Tally(w))
<1> USE AccountAssumption DEF Attempts
<1> DEFINE V(n) == {r \in Requests : v[r] = n}
           W(n) == {r \in Requests : w[r] = n}
           Differing == {n \in 0..v[x] : V(n) # W(n)}
<1>1. v[x] \in Differing /\ Differing \subseteq Nat
  OBVIOUS
<1>2. PICK n \in Differing : \A k \in Differing : ~(<<k, n>> \in OpToRel(<, Nat))
  <2> HIDE DEF Differing
  <2> QED BY <1>1, WFMin, NatLessThanWellFounded
<1>3. \A k \in Attempts : k < n => V(k) = W(k)
  <2> SUFFICES ASSUME NEW k \in Attempts, k < n PROVE V(k) = W(k)
    OBVIOUS
  <2>1. k \in 0..v[x]
    OBVIOUS
  <2>2. <<k, n>> \in OpToRel(<, Nat)
    BY DEF OpToRel
  <2> QED BY <2>1, <2>2, <1>2
<1>4. W(n) \subseteq V(n) /\ W(n) # V(n)
  OBVIOUS
<1>5. Cardinality(W(n)) < Cardinality(V(n))
  <2>1. IsFiniteSet(V(n)) /\ Cardinality(V(n)) \in Nat /\ Cardinality(W(n)) \in Nat
    BY AtCount
  <2> HIDE DEF V, W
  <2>2. Cardinality(W(n)) <= Cardinality(V(n)) /\ Cardinality(W(n)) # Cardinality(V(n))
    BY <1>4, <2>1, FS_Subset
  <2> QED BY <2>1, <2>2
<1>6. \A k \in Attempts : Tally(v)[k] = Cardinality(V(k)) /\ Tally(w)[k] = Cardinality(W(k))
  BY DEF Tally
<1>7. n \in Attempts
  BY <1>2
<1> HIDE DEF V, W
<1>8. \A k \in Attempts : k < n => Tally(v)[k] = Tally(w)[k]
  BY <1>3, <1>6
<1>9. Tally(w)[n] < Tally(v)[n]
  BY <1>5, <1>6, <1>7
<1> QED BY <1>7, <1>8, <1>9 DEF Precedes

\* A request that gives up its count for a higher one of the row's own, or keeps
\* it, leaves no fewer tallies below.
LEMMA RisingKeeps ==
  ASSUME NEW v \in [Requests -> Attempts], NEW w \in [Requests -> Attempts], NEW x \in Requests,
         v[x] <= w[x], \A r \in Requests : r # x => w[r] = v[r]
  PROVE  Cardinality(Below(Tally(v))) <= Cardinality(Below(Tally(w)))
<1> USE AccountAssumption DEF Attempts
<1>1. CASE v[x] = w[x]
  <2>1. v = w
    BY <1>1
  <2> QED BY <2>1, BelowIsFinite
<1>2. CASE v[x] < w[x]
  <2>1. Precedes(Tally(v), Tally(w))
    BY <1>2, RaisingGrows
  <2>2. Cardinality(Below(Tally(v))) + 1 <= Cardinality(Below(Tally(w)))
    BY <2>1, TallyType, LaterHasMoreBelow
  <2> QED BY <2>2, BelowIsFinite
<1> QED BY <1>1, <1>2

LEMMA StandingType == TypeOK => Standing \in [Requests -> Attempts]
BY AccountAssumption DEF TypeOK, Standing, Least, Attempts

LEMMA StandingTypeNext == TypeOK' => Standing' \in [Requests -> Attempts]
BY AccountAssumption DEF TypeOK, Standing, Least, Attempts

\* A wrong password moves its request up and none to where it was or below.
LEMMA GuessGrows ==
  ASSUME TypeOK, TypeOK', NEW r \in Requests, LoginWrong(r)
  PROVE  Precedes(Tally(Standing), Tally(Standing'))
<1> USE AccountAssumption DEF Attempts
<1>1. /\ pc[r] = "guess" /\ pc'[r] = "idle"
      /\ \A q \in Requests : q # r => pc'[q] = pc[q] /\ seen'[q] = seen[q]
      /\ failed_login_attempts' = Least(seen[r] + 1, MaxAttempts)
      /\ seen \in [Requests -> Attempts] /\ failed_login_attempts \in Attempts
  BY DEF LoginWrong, End, TypeOK
<1>2. /\ Standing[r] = Least(Least(seen[r], MaxAttempts - 1), failed_login_attempts)
      /\ Standing'[r] = failed_login_attempts'
  BY <1>1 DEF Standing
<1>3. Standing[r] < failed_login_attempts'
  BY <1>1, <1>2 DEF Least
<1>4. ASSUME NEW q \in Requests, Standing'[q] <= Standing[r]
      PROVE  Standing'[q] = Standing[q]
  <2>1. CASE pc'[q] \notin {"guess", "login"}
    <3>1. Standing'[q] = failed_login_attempts'
      BY <2>1 DEF Standing
    <3>2. Standing[r] \in Attempts /\ failed_login_attempts' \in Attempts
      BY StandingType DEF TypeOK
    <3> HIDE DEF Standing
    <3> QED BY <3>1, <3>2, <1>3, <1>4
  <2>2. CASE pc'[q] \in {"guess", "login"}
    <3>1. q # r /\ pc[q] \in {"guess", "login"} /\ seen'[q] = seen[q]
      BY <1>1, <2>2
    <3>2. /\ Standing[q] = Least(Least(seen[q], MaxAttempts - 1), failed_login_attempts)
          /\ Standing'[q] = Least(Least(seen[q], MaxAttempts - 1), failed_login_attempts')
      BY <2>2, <3>1 DEF Standing
    <3>3. Least(seen[q], MaxAttempts - 1) \in Attempts
      BY <1>1 DEF Least
    <3>4. Standing[r] <= failed_login_attempts /\ Standing[r] \in Attempts /\ failed_login_attempts' \in Attempts
      BY <1>1, <1>2, StandingType DEF Least, TypeOK
    <3> HIDE DEF Standing
    <3> QED BY <1>3, <1>4, <1>1, <3>2, <3>3, <3>4 DEF Least
  <2> QED BY <2>1, <2>2
<1>5. Standing \in [Requests -> Attempts] /\ Standing' \in [Requests -> Attempts]
  BY StandingType, StandingTypeNext
<1> QED BY <1>2, <1>3, <1>4, <1>5, RaisingGrows

\* What the other steps preserve: the tallies below, if the guesses go on.
LEMMA TallyStep ==
  ASSUME TypeOK, TypeOK', [Next]_vars, \A r \in Requests : ~LoginWrong(r), guesses' # 0,
         failed_login_attempts = MaxAttempts /\ ~Locked => guesses = 0
  PROVE  Cardinality(Below(Tally(Standing))) <= Cardinality(Below(Tally(Standing')))
<1> USE AccountAssumption DEF Attempts
<1>0. Standing \in [Requests -> Attempts] /\ Standing' \in [Requests -> Attempts]
  BY StandingType, StandingTypeNext
<1> DEFINE Kept == Cardinality(Below(Tally(Standing))) <= Cardinality(Below(Tally(Standing')))
<1>a. Standing' = Standing => Kept
  BY BelowIsFinite
<1>1. ASSUME NEW r \in Requests, NEW reply \in {"guess", "login"}, LoginRead(r, reply) PROVE Kept
  <2>1. failed_login_attempts \in 0..(MaxAttempts - 1)
    BY <1>1 DEF LoginRead, TypeOK
  <2>2. Standing' = Standing
    BY <1>1, <2>1 DEF LoginRead, GoTo, row, Standing, Least, TypeOK
  <2> QED BY <2>2, <1>a
<1>3. ASSUME NEW r \in Requests, LoginRight(r) PROVE FALSE
  BY <1>3 DEF LoginRight
<1>4. ASSUME NEW r \in Requests, NEW wanted \in {"on", "off", "keep"}, UpdateRead(r, wanted) PROVE Kept
  <2>1. Standing' = Standing
    BY <1>4 DEF UpdateRead, GoTo, row, Standing, TypeOK
  <2> QED BY <2>1, <1>a
<1>5. ASSUME NEW r \in Requests, UpdateWrite(r) PROVE Kept
  <2>1. Standing' = Standing
    BY <1>5 DEF UpdateWrite, End, Standing, TypeOK
  <2> QED BY <2>1, <1>a
<1>6. CASE Delete
  <2>1. Standing' = Standing
    BY <1>6 DEF Delete, Standing
  <2> QED BY <2>1, <1>a
<1>7. ASSUME NEW r \in Requests, Drop(r) PROVE Kept
  <2>1. /\ \A q \in Requests : q # r => pc'[q] = pc[q] /\ seen'[q] = seen[q]
        /\ failed_login_attempts' = failed_login_attempts /\ pc'[r] = "idle"
    BY <1>7 DEF Drop, End, row, TypeOK
  <2>2. \A q \in Requests : q # r => Standing'[q] = Standing[q]
    BY <2>1 DEF Standing
  <2>3. Standing'[r] = failed_login_attempts
    BY <2>1 DEF Standing
  <2>4. Standing[r] <= failed_login_attempts
    BY DEF Standing, Least, TypeOK
  <2>5. Standing[r] <= Standing'[r]
    BY <2>3, <2>4
  <2> HIDE DEF Kept
  <2>6. Cardinality(Below(Tally(Standing))) <= Cardinality(Below(Tally(Standing')))
    BY <1>0, <2>2, <2>5, RisingKeeps
  <2> QED BY <2>6 DEF Kept
<1>8. CASE Tick
  <2>1. Standing' = Standing
    BY <1>8 DEF Tick, Standing
  <2> QED BY <2>1, <1>a
<1>9. CASE UNCHANGED vars
  <2>1. Standing' = Standing
    BY <1>9 DEF vars, row, Standing
  <2> QED BY <2>1, <1>a
<1> QED BY <1>1, <1>3, <1>4, <1>5, <1>6, <1>7, <1>8, <1>9 DEF Next

LEMMA GuessStep == GuessInv /\ [Next]_vars => GuessInv'
<1> SUFFICES ASSUME GuessInv, [Next]_vars PROVE GuessInv'
  OBVIOUS
<1> USE AccountAssumption DEF Attempts
<1>1. TypeOK /\ TypeOK'
  BY TypeStep DEF GuessInv
<1>2. guesses \in Nat /\ guesses' \in Nat
  BY <1>1 DEF TypeOK
<1>3. Cardinality(Below(Tally(Standing))) \in Nat /\ Cardinality(Below(Tally(Standing'))) \in Nat
  BY BelowIsFinite
<1>4. guesses' <= Cardinality(Below(Tally(Standing')))
  <2>1. ASSUME NEW r \in Requests, LoginWrong(r) PROVE guesses' <= guesses + 1
    BY <2>1, <1>2, LeastType DEF LoginWrong
  <2>2. ASSUME NEW r \in Requests, LoginWrong(r)
        PROVE  Cardinality(Below(Tally(Standing))) + 1 <= Cardinality(Below(Tally(Standing')))
    <3>1. Precedes(Tally(Standing), Tally(Standing'))
      BY <2>2, <1>1, GuessGrows
    <3>2. Tally(Standing) \in Tallies /\ Tally(Standing') \in Tallies
      BY <1>1, StandingType, StandingTypeNext, TallyType
    <3> QED BY <3>1, <3>2, LaterHasMoreBelow
  <2>3. CASE \E r \in Requests : LoginWrong(r)
    BY <2>1, <2>2, <2>3, <1>2, <1>3 DEF GuessInv
  <2>4. CASE guesses' = 0
    BY <2>4, <1>3
  <2>5. CASE guesses' # 0 /\ \A r \in Requests : ~LoginWrong(r)
    <3>1. Cardinality(Below(Tally(Standing))) <= Cardinality(Below(Tally(Standing')))
      BY <2>5, <1>1, TallyStep DEF GuessInv
    <3>2. guesses' <= guesses
      <4>1. guesses' \in {0, guesses}
        BY <2>5 DEF Next, LoginRead, LoginRight, UpdateRead, UpdateWrite, Delete, Drop, Tick, vars, row
      <4> QED BY <4>1, <1>2
    <3> QED BY <3>1, <3>2, <1>2, <1>3 DEF GuessInv
  <2> QED BY <2>3, <2>4, <2>5
<1>5. (failed_login_attempts = MaxAttempts /\ ~Locked => guesses = 0)'
  <2>1. ASSUME NEW r \in Requests, LoginWrong(r), failed_login_attempts' = MaxAttempts PROVE lock_left' > 0
    <3>1. seen[r] \in 0..MaxAttempts /\ MaxAttempts = Least(seen[r] + 1, MaxAttempts)
      BY <2>1, <1>1 DEF LoginWrong, TypeOK
    <3>2. seen[r] + 1 >= MaxAttempts
      BY <3>1 DEF Least
    <3> QED BY <2>1, <3>1, <3>2 DEF LoginWrong, LockFor
  <2>2. ASSUME NEW r \in Requests, LoginRight(r) PROVE guesses' = 0
    BY <2>2 DEF LoginRight
  <2>3. CASE Tick
    BY <2>3, <1>1 DEF Tick, Locked, TypeOK, GuessInv
  <2>4. CASE UNCHANGED <<failed_login_attempts, lock_left, guesses>>
    BY <2>4 DEF GuessInv, Locked
  <2>5. \/ \E r \in Requests : LoginWrong(r) \/ LoginRight(r)
        \/ Tick \/ UNCHANGED <<failed_login_attempts, lock_left, guesses>>
    BY DEF Next, LoginRead, UpdateRead, UpdateWrite, Delete, Drop, vars, row
  <2> QED BY <2>1, <2>2, <2>3, <2>4, <2>5 DEF Locked
<1> QED BY <1>1, <1>4, <1>5 DEF GuessInv

(* authenticate: however many requests overlap, the wrong passwords that   *)
(* can be tried before the account is locked for good are fewer than the   *)
(* tallies of as many requests, C(m + n, n) for n requests and a limit of  *)
(* m, whatever updates are lost and whatever handlers are dropped.         *)
THEOREM GuessesAreAlwaysBounded == Spec => []GuessesAreBounded
<1>1. Init => GuessInv
  <2> SUFFICES ASSUME Init PROVE GuessInv
    OBVIOUS
  <2>1. TypeOK /\ guesses = 0
    BY InitType DEF Init
  <2> QED BY <2>1, BelowIsFinite DEF GuessInv
<1>2. GuessInv => GuessesAreBounded
  <2> SUFFICES ASSUME GuessInv PROVE GuessesAreBounded
    OBVIOUS
  <2>1. Cardinality(Below(Tally(Standing))) <= GuessBound
    BY StandingType, TallyType, NeverMoreBelowThanTheBound DEF GuessInv
  <2> QED BY <2>1, BelowIsFinite, AccountAssumption DEF GuessInv, GuessesAreBounded, TypeOK
<1> QED BY <1>1, <1>2, GuessStep, PTL DEF Spec
-----------------------------------------------------------------------------
(* The journeys of the tabs.                                               *)

\* The users a request that was sent with cookie s may act for, now.
Carrying(t, s) ==
  {u \in Users :
     \/ Claimed(t, s) = u
     \/ t \notin HtmlTabs /\ bearer[t] \in live /\ BearerUser[bearer[t]] = u}

Reasons == {"session", "user", "permission", "client"}

\* A request on its way to its handler's look at who asks.
Unidentified == {"authorize", "form", "form_session", "form_word", "submit", "submit_session"}
\* A request with the user's decision, on that way.
Deciding == {"form", "form_session", "form_word", "submit", "submit_session"}
\* A request whose user is known.
Identified == {"submit_user", "submit_client", "issue_authorize", "issue_consent"}

\* What holds of a tab at each of its places.
CookieKnown(t) == cookie[t] \in Sessions \union {None} /\ (cookie[t] # None => session[cookie[t]] # None)

\* What came too late for the request when it was sent cannot come back.
StaysLate(t) ==
  at[t] \in Unidentified =>
    /\ "session" \in late[t] => Carrying(t, cookie[t]) = {}
    /\ "user" \in late[t] => Carrying(t, cookie[t]) \intersect active = {}
    /\ "permission" \in late[t] => Carrying(t, cookie[t]) \intersect consenting = {}

\* Whoever the handler takes for the user has agreed to what the tab asks for.
Agreed(t) ==
  /\ at[t] \in Deciding /\ form[t].decision \in Agreement =>
       \A u \in Carrying(t, cookie[t]) : Consent(u, query[t]) \in allowed
  /\ at[t] \in {"submit_user", "submit_client"} /\ form[t].decision \in Agreement =>
       Consent(user[t], query[t]) \in allowed
  /\ at[t] = "issue_consent" => Consent(user[t], query[t]) \in allowed
  /\ at[t] = "issue_authorize" => query[t].client \notin RequireConsent

\* The checks that the handler has behind it, and those before it.
Checked(t) ==
  /\ at[t] \in Identified => user[t] \in Users /\ "session" \notin late[t]
  /\ at[t] = "submit_user" /\ "user" \in late[t] => user[t] \notin active
  /\ at[t] \in {"submit_user", "submit_client"} /\ "permission" \in late[t] => user[t] \notin consenting
  /\ at[t] \in {"submit_client", "issue_consent"} => "user" \notin late[t]
  /\ at[t] = "issue_consent" => "permission" \notin late[t]
  /\ at[t] = "token" /\ "client" \in late[t] => query[t].client \notin enabled
  /\ at[t] = "grant" => "client" \notin late[t]

TabInv(t) ==
  /\ answer[t] # "none" <=> at[t] = "end"
  /\ at[t] \in {"authenticate", "open_session"} => form[t] \in LoginForms
  /\ CookieKnown(t) /\ StaysLate(t) /\ Agreed(t) /\ Checked(t)

FlowTypes ==
  /\ session \in [Sessions -> [user : Users, live : BOOLEAN] \union {None}]
  /\ jar \in Sessions \union {None} /\ (jar # None => session[jar] # None)
  /\ live \subseteq DOMAIN BearerUser /\ bearer \in [Tabs -> DOMAIN BearerUser \union {None}]
  /\ active \subseteq Users /\ consenting \subseteq Users /\ enabled \subseteq Clients
  /\ at \in [Tabs -> Places] /\ late \in [Tabs -> SUBSET Reasons]
  /\ DOMAIN query = Tabs /\ DOMAIN cookie = Tabs /\ DOMAIN user = Tabs /\ DOMAIN form = Tabs /\ DOMAIN answer = Tabs
  /\ DOMAIN codes = Codes

\* A code's row, written for a request that had every check behind it.
CodeIsSound(k, agreed) ==
  /\ k \in [tab : Tabs, via : {"issue_authorize", "issue_consent"}, consent : Consents, challenge : {k.challenge},
            late : SUBSET Reasons, used : BOOLEAN]
  /\ IF k.via = "issue_authorize" THEN k.consent.client \notin RequireConsent ELSE k.consent \in agreed
  /\ k.consent.uri \in RedirectUris[k.consent.client] /\ k.consent.scope \subseteq AllowedScopes[k.consent.client]
  /\ k.consent.client \in Public => k.challenge = "good"
  /\ "session" \notin k.late /\ (k.via = "issue_consent" => k.late \intersect {"user", "permission"} = {})

CodesAreSound == \A c \in Codes : codes[c] # None => CodeIsSound(codes[c], allowed)
GrantsAreSound == \A g \in grants : g.consent \in Consents /\ "client" \notin g.late

FlowInv == FlowTypes /\ (\A t \in Tabs : TabInv(t)) /\ CodesAreSound /\ GrantsAreSound
\* What no step takes back: sessions, tokens, users and clients only end, and
\* what was agreed to stays agreed to.
Aged ==
  /\ \A s \in Sessions : session[s] # None =>
       session'[s] # None /\ session'[s].user = session[s].user /\ (session'[s].live => session[s].live)
  /\ live' \subseteq live /\ active' \subseteq active /\ consenting' \subseteq consenting /\ enabled' \subseteq enabled
  /\ allowed \subseteq allowed' /\ bearer' = bearer

SameTab(t) ==
  /\ at'[t] = at[t] /\ query'[t] = query[t] /\ cookie'[t] = cookie[t] /\ user'[t] = user[t] /\ form'[t] = form[t]
  /\ late'[t] = late[t] /\ answer'[t] = answer[t]

LEMMA CarryingShrinks ==
  ASSUME NEW t \in Tabs, CookieKnown(t), cookie'[t] = cookie[t], Aged
  PROVE  Carrying(t, cookie[t])' \subseteq Carrying(t, cookie[t])
<1>1. None \notin Users
  BY FlowAssumption
<1>2. ASSUME NEW u \in Users, Claimed(t, cookie[t])' = u PROVE Claimed(t, cookie[t]) = u
  BY <1>1, <1>2 DEF CookieKnown, Aged, Claimed, Live
<1>3. bearer'[t] = bearer[t] /\ live' \subseteq live
  BY DEF Aged
<1> QED BY <1>2, <1>3 DEF Carrying

LEMMA SameTabKeeps ==
  ASSUME FlowTypes, NEW t \in Tabs, TabInv(t), SameTab(t), Aged
  PROVE  TabInv(t)'
<1>1. Carrying(t, cookie[t])' \subseteq Carrying(t, cookie[t])
  BY CarryingShrinks DEF TabInv, SameTab
<1>2. (answer[t] # "none" <=> at[t] = "end")' /\ (at[t] \in {"authenticate", "open_session"} => form[t] \in LoginForms)'
  BY DEF TabInv, SameTab
<1>3. CookieKnown(t)'
  BY DEF TabInv, SameTab, CookieKnown, Aged
<1>4. StaysLate(t)'
  BY <1>1 DEF TabInv, SameTab, StaysLate, Aged
<1>5. Agreed(t)'
  BY <1>1 DEF TabInv, SameTab, Agreed, Aged, Consent
<1>6. Checked(t)'
  BY DEF TabInv, SameTab, Checked, Aged
<1> QED BY <1>2, <1>3, <1>4, <1>5, <1>6 DEF TabInv

LEMMA CodesStaySound ==
  ASSUME CodesAreSound, GrantsAreSound, allowed \subseteq allowed', UNCHANGED <<codes, grants>>
  PROVE  CodesAreSound' /\ GrantsAreSound'
BY DEF CodesAreSound, GrantsAreSound, CodeIsSound

\* A step of one tab.
LEMMA TabSteps ==
  ASSUME FlowInv, NEW t \in Tabs, FlowTypes', TabInv(t)', Aged, \A u \in Tabs \ {t} : SameTab(u),
         UNCHANGED <<codes, grants>>
  PROVE  FlowInv'
<1>1. \A u \in Tabs : TabInv(u)'
  BY SameTabKeeps DEF FlowInv
<1>2. CodesAreSound' /\ GrantsAreSound'
  BY CodesStaySound DEF FlowInv, Aged
<1> QED BY <1>1, <1>2 DEF FlowInv

\* A page is shown, or the journey ends.
LEMMA ShowKeeps ==
  ASSUME FlowInv, NEW t \in Tabs, NEW from, from # "end", NEW page \in {"login", "consent", "asked"}, Show(t, from, page)
  PROVE  FlowInv'
<1> USE DEF Show, Move, Forget, environment, results
<1>1. FlowTypes'
  BY DEF FlowInv, FlowTypes, Places
<1>2. TabInv(t)'
  BY <1>1 DEF FlowInv, FlowTypes, TabInv, CookieKnown, StaysLate, Agreed, Checked, Unidentified, Deciding, Identified
<1>3. Aged /\ \A u \in Tabs \ {t} : SameTab(u)
  BY DEF Aged, SameTab, FlowInv, FlowTypes
<1> QED BY <1>1, <1>2, <1>3, TabSteps

LEMMA EndKeeps ==
  ASSUME FlowInv, NEW t \in Tabs, NEW from, NEW result, result # "none", EndJourney(t, from, result)
  PROVE  FlowInv'
<1> USE DEF EndJourney, Move, Forget, environment
<1>1. FlowTypes'
  BY DEF FlowInv, FlowTypes, Places
<1>2. TabInv(t)'
  BY <1>1 DEF FlowInv, FlowTypes, TabInv, CookieKnown, StaysLate, Agreed, Checked, Unidentified, Deciding, Identified
<1>3. Aged /\ \A u \in Tabs \ {t} : SameTab(u)
  BY DEF Aged, SameTab, FlowInv, FlowTypes
<1> QED BY <1>1, <1>2, <1>3, TabSteps

\* The handler goes on to its next step.
GoesOn(t, from, to) == Move(t, from, to) /\ UNCHANGED <<environment, request, late, results>>

LEMMA GoesOnKeeps ==
  ASSUME FlowInv, NEW t \in Tabs, NEW from, NEW to \in Places, GoesOn(t, from, to), TabInv(t)'
  PROVE  FlowInv'
<1> USE DEF GoesOn, Move, environment, request, results
<1>1. FlowTypes'
  BY DEF FlowInv, FlowTypes, Places
<1>2. Aged /\ \A u \in Tabs \ {t} : SameTab(u)
  BY DEF Aged, SameTab, FlowInv, FlowTypes
<1> QED BY <1>1, <1>2, TabSteps
LEMMA NoneIsApart ==
  /\ None \notin Users /\ None \notin Sessions /\ None \notin Codes /\ None \notin DOMAIN BearerUser
  /\ None \notin [user : Users, live : BOOLEAN]
<1>1. None \notin DOMAIN BearerUser \union Users \union Sessions \union Codes \union UNION {Queries[t] : t \in Tabs}
  BY FlowAssumption, Zenon
<1>2. None \notin [user : Users, live : BOOLEAN]
  BY FlowAssumption, Zenon
<1> QED BY <1>1, <1>2

\* Who asks is one of those whose credentials the request carries.
LEMMA SubjectIsCarried ==
  ASSUME FlowTypes, NEW t \in Tabs, CookieKnown(t), Subject(t, cookie[t]) # None
  PROVE  Subject(t, cookie[t]) \in Users /\ Subject(t, cookie[t]) \in Carrying(t, cookie[t])
<1>1. CASE Claimed(t, cookie[t]) # None
  <2>1. Claimed(t, cookie[t]) \in Users
    BY <1>1, NoneIsApart DEF FlowTypes, CookieKnown, Claimed, Live
  <2> QED BY <1>1, <2>1 DEF Subject, Carrying
<1>2. CASE Claimed(t, cookie[t]) = None
  <2>1. t \notin HtmlTabs /\ bearer[t] \in live /\ Subject(t, cookie[t]) = BearerUser[bearer[t]]
    BY <1>2 DEF Subject
  <2>2. Subject(t, cookie[t]) \in Users
    BY <2>1, FlowAssumption DEF FlowTypes
  <2> QED BY <2>1, <2>2 DEF Carrying
<1> QED BY <1>1, <1>2

\* The handler learns who asks and goes on.
Learns(t, from, to) ==
  /\ Move(t, from, to) /\ Subject(t, cookie[t]) # None
  /\ user' = [user EXCEPT ![t] = Subject(t, cookie[t])]
  /\ UNCHANGED <<environment, bearer, query, cookie, form, late, results>>

LEMMA LearnsKeeps ==
  ASSUME FlowInv, NEW t \in Tabs, NEW from, NEW to \in Places, Learns(t, from, to), TabInv(t)'
  PROVE  FlowInv'
<1> USE DEF Learns, Move, environment, results
<1>1. FlowTypes'
  BY DEF FlowInv, FlowTypes, Places
<1>2. Aged /\ \A u \in Tabs \ {t} : SameTab(u)
  BY DEF Aged, SameTab, FlowInv, FlowTypes
<1> QED BY <1>1, <1>2, TabSteps

LEMMA LayerKeeps ==
  ASSUME FlowInv, NEW t \in Tabs,
         NEW pair \in {<<"info", "info_session">>, <<"page", "page_session">>, <<"form", "form_session">>,
                       <<"submit", "submit_session">>},
         Layer(t, pair[1], pair[2])
  PROVE  FlowInv'
<1>1. CASE GoesOn(t, pair[1], pair[2])
  <2>1. at[t] = pair[1] /\ at'[t] = pair[2] /\ UNCHANGED <<environment, request, late, results>>
    BY <1>1 DEF GoesOn, Move, FlowInv, FlowTypes
  <2>2. Carrying(t, cookie[t])' = Carrying(t, cookie[t])
    BY <2>1 DEF Carrying, Claimed, Live, environment, request
  <2>3. TabInv(t)'
    BY <2>1, <2>2 DEF FlowInv, TabInv, CookieKnown, StaysLate, Agreed, Checked, Unidentified, Deciding, Identified,
       environment, request, results, Consent
  <2>4. pair[2] \in Places
    BY DEF Places
  <2> QED BY <1>1, <2>3, <2>4, GoesOnKeeps
<1>2. CASE EndJourney(t, pair[1], "unauthorized")
  BY <1>2, EndKeeps
<1> QED BY <1>1, <1>2 DEF Layer, GoesOn

LEMMA IdentifyKeeps ==
  ASSUME FlowInv, NEW t \in Tabs,
         NEW pair \in {<<"info_session", "info_user">>, <<"page_session", "page_user">>, <<"form_session", "form_word">>,
                       <<"submit_session", "submit_user">>},
         Identify(t, pair[1], pair[2])
  PROVE  FlowInv'
<1>1. CASE Learns(t, pair[1], pair[2])
  <2>1. /\ at[t] = pair[1] /\ at'[t] = pair[2] /\ user'[t] = Subject(t, cookie[t])
        /\ UNCHANGED <<environment, bearer, query, cookie, form, late, results>>
    BY <1>1 DEF Learns, Move, FlowInv, FlowTypes
  <2>2. Carrying(t, cookie[t])' = Carrying(t, cookie[t])
    BY <2>1 DEF Carrying, Claimed, Live, environment
  <2>3. user'[t] \in Users /\ user'[t] \in Carrying(t, cookie[t])
    BY <1>1, <2>1, SubjectIsCarried DEF Learns, FlowInv, TabInv
  <2>4. CookieKnown(t)' /\ StaysLate(t)'
    BY <2>1, <2>2 DEF FlowInv, TabInv, CookieKnown, StaysLate, Unidentified, environment
  <2>5. Agreed(t)'
    <3>1. ASSUME at'[t] \in Deciding, form'[t].decision \in Agreement, NEW u \in Carrying(t, cookie[t])'
          PROVE  Consent(u, query[t])' \in allowed'
      <4>1. at[t] \in Deciding /\ form[t].decision \in Agreement
        BY <2>1, <3>1 DEF Deciding
      <4>2. u \in Carrying(t, cookie[t])
        BY <2>2
      <4>3. Consent(u, query[t]) \in allowed
        BY <4>1, <4>2 DEF FlowInv, TabInv, Agreed
      <4> QED BY <2>1, <4>3 DEF Consent, results
    <3>2. ASSUME at'[t] \in {"submit_user", "submit_client"}, form'[t].decision \in Agreement
          PROVE  Consent(user[t], query[t])' \in allowed'
      <4>1. at[t] \in Deciding /\ form[t].decision \in Agreement
        BY <2>1, <3>2 DEF Deciding
      <4>2. Consent(user'[t], query[t]) \in allowed
        BY <2>3, <4>1 DEF FlowInv, TabInv, Agreed
      <4> QED BY <2>1, <4>2 DEF Consent, results
    <3>3. at'[t] \notin {"issue_consent", "issue_authorize"}
      BY <2>1
    <3> QED BY <3>1, <3>2, <3>3 DEF Agreed
  <2>6. Checked(t)'
    BY <2>1, <2>2, <2>3 DEF FlowInv, TabInv, StaysLate, Checked, Unidentified, Identified, environment
  <2>7. TabInv(t)'
    BY <2>1, <2>4, <2>5, <2>6 DEF FlowInv, TabInv, results
  <2>8. pair[2] \in Places
    BY DEF Places
  <2> QED BY <1>1, <2>7, <2>8, LearnsKeeps
<1>2. CASE EndJourney(t, pair[1], "refused")
  BY <1>2, EndKeeps
<1> QED BY <1>1, <1>2 DEF Identify, Learns
\* The request is sent.
LEMMA OverStays ==
  ASSUME FlowTypes, NEW t \in Tabs, UNCHANGED <<environment, bearer>>, cookie'[t] = jar, late'[t] = Over(t)
  PROVE  CookieKnown(t)' /\ StaysLate(t)'
<1>1. Carrying(t, cookie[t])' = Carried(t)
  BY DEF Carrying, Carried, Claimed, Live, environment
<1> QED BY <1>1 DEF FlowTypes, CookieKnown, StaysLate, Over, environment

\* What all the steps by which a tab sends a request have in common.
SendsFrom(t, from, to) == Send(t, from, to) /\ UNCHANGED <<environment, bearer, answer, codes, grants>>

LEMMA SendTypes ==
  ASSUME FlowInv, NEW t \in Tabs, NEW from, from # "end", NEW to \in Places \ {"end"}, SendsFrom(t, from, to),
         DOMAIN query' = Tabs, DOMAIN user' = Tabs, DOMAIN form' = Tabs
  PROVE  /\ FlowTypes' /\ CookieKnown(t)' /\ StaysLate(t)' /\ at'[t] = to
         /\ (answer[t] # "none" <=> at[t] = "end")'
<1>1. at[t] = from /\ at'[t] = to /\ cookie'[t] = jar /\ late'[t] = Over(t)
  BY DEF FlowInv, FlowTypes, SendsFrom, Send, Move
<1>2. CookieKnown(t)' /\ StaysLate(t)'
  BY <1>1, OverStays DEF FlowInv, SendsFrom
<1>3. Over(t) \in SUBSET Reasons
  BY DEF Over, Reasons
<1>4. FlowTypes'
  BY <1>3 DEF FlowInv, FlowTypes, SendsFrom, Send, Move, environment
<1> QED BY <1>1, <1>2, <1>4 DEF FlowInv, TabInv, SendsFrom

LEMMA SendKeeps ==
  ASSUME FlowInv, NEW t \in Tabs, NEW from, NEW to, SendsFrom(t, from, to), FlowTypes', TabInv(t)', allowed \subseteq allowed',
         \A u \in Tabs \ {t} : query'[u] = query[u] /\ user'[u] = user[u] /\ form'[u] = form[u]
  PROVE  FlowInv'
<1>1. Aged /\ \A u \in Tabs \ {t} : SameTab(u)
  BY DEF Aged, SameTab, FlowInv, FlowTypes, SendsFrom, Send, Move, environment
<1> QED BY <1>1, TabSteps DEF SendsFrom

LEMMA StartJourneyKeeps ==
  ASSUME FlowInv, NEW t \in Tabs, NEW q, StartJourney(t, q)
  PROVE  FlowInv'
<1>1. SendsFrom(t, "client", "authorize") /\ UNCHANGED <<allowed, user, form>>
  BY DEF StartJourney, SendsFrom, results
<1>2. DOMAIN query' = Tabs /\ \A u \in Tabs \ {t} : query'[u] = query[u]
  BY DEF StartJourney, FlowInv, FlowTypes
<1>3. /\ FlowTypes' /\ CookieKnown(t)' /\ StaysLate(t)' /\ at'[t] = "authorize"
      /\ (answer[t] # "none" <=> at[t] = "end")'
  BY <1>1, <1>2, SendTypes DEF FlowInv, FlowTypes, Places
<1>4. TabInv(t)'
  BY <1>3 DEF TabInv, Agreed, Checked, Deciding, Identified
<1> QED BY <1>1, <1>2, <1>3, <1>4, SendKeeps

LEMMA SubmitLoginKeeps ==
  ASSUME FlowInv, NEW t \in Tabs, NEW f \in LoginForms, SubmitLogin(t, f)
  PROVE  FlowInv'
<1>1. SendsFrom(t, "login", "authenticate") /\ UNCHANGED <<allowed, user, query>>
  BY DEF SubmitLogin, SendsFrom, results
<1>2. form' = [form EXCEPT ![t] = f] /\ DOMAIN form = Tabs
  BY DEF SubmitLogin, FlowInv, FlowTypes
<1>3. /\ FlowTypes' /\ CookieKnown(t)' /\ StaysLate(t)' /\ at'[t] = "authenticate"
      /\ (answer[t] # "none" <=> at[t] = "end")'
  BY <1>1, <1>2, SendTypes DEF FlowInv, FlowTypes, Places
<1>4. TabInv(t)'
  BY <1>2, <1>3 DEF TabInv, Agreed, Checked, Deciding, Identified
<1> QED BY <1>1, <1>2, <1>3, <1>4, SendKeeps

LEMMA RequestTokenKeeps ==
  ASSUME FlowInv, NEW t \in Tabs, RequestToken(t)
  PROVE  FlowInv'
<1>1. SendsFrom(t, "callback", "token") /\ UNCHANGED <<allowed, user, query, form, enabled>>
  BY DEF RequestToken, SendsFrom, results, environment
<1>2. late'[t] = Over(t)
  BY DEF RequestToken, Send, FlowInv, FlowTypes
<1>3. /\ FlowTypes' /\ CookieKnown(t)' /\ StaysLate(t)' /\ at'[t] = "token"
      /\ (answer[t] # "none" <=> at[t] = "end")'
  BY <1>1, SendTypes DEF FlowInv, FlowTypes, Places
<1>4. Checked(t)'
  BY <1>1, <1>2, <1>3 DEF Checked, Identified, Over
<1>5. TabInv(t)'
  BY <1>3, <1>4 DEF TabInv, Agreed, Deciding
<1> QED BY <1>1, <1>3, <1>5, SendKeeps

LEMMA LoadConsentPageKeeps ==
  ASSUME FlowInv, NEW t \in Tabs, LoadConsentPage(t)
  PROVE  FlowInv'
<1>1. CASE EndJourney(t, "consent", "lost")
  BY <1>1, EndKeeps
<1>2. CASE ~EndJourney(t, "consent", "lost")
  <2> DEFINE to == IF t \in HtmlTabs THEN "page" ELSE "info"
  <2>1. SendsFrom(t, "consent", to) /\ UNCHANGED <<allowed, user, query, form>>
    BY <1>2 DEF LoadConsentPage, SendsFrom, results
  <2>2. to \in {"page", "info"}
    OBVIOUS
  <2> HIDE DEF to
  <2>3. /\ FlowTypes' /\ CookieKnown(t)' /\ StaysLate(t)' /\ at'[t] = to
        /\ (answer[t] # "none" <=> at[t] = "end")'
    BY <2>1, <2>2, SendTypes DEF FlowInv, FlowTypes, Places
  <2>4. TabInv(t)'
    BY <2>2, <2>3 DEF TabInv, Agreed, Checked, Deciding, Identified
  <2> QED BY <2>1, <2>3, <2>4, SendKeeps
<1> QED BY <1>1, <1>2

LEMMA SubmitConsentKeeps ==
  ASSUME FlowInv, NEW t \in Tabs, NEW w, SubmitConsent(t, w)
  PROVE  FlowInv'
<1> DEFINE to == IF t \in HtmlTabs THEN "form" ELSE "submit"
<1>1. SendsFrom(t, "asked", to) /\ UNCHANGED <<user, query>>
  BY DEF SubmitConsent, SendsFrom
<1>2. to \in {"form", "submit"}
  OBVIOUS
<1> HIDE DEF to
<1>3. form' = [form EXCEPT ![t] = [decision |-> w]] /\ DOMAIN form = Tabs
  BY DEF SubmitConsent, FlowInv, FlowTypes
<1>4. allowed \subseteq allowed' /\ (w \in Agreement => \A u \in Carried(t) : Consent(u, query[t]) \in allowed')
  BY DEF SubmitConsent
<1>5. /\ FlowTypes' /\ CookieKnown(t)' /\ StaysLate(t)' /\ at'[t] = to
      /\ (answer[t] # "none" <=> at[t] = "end")'
  BY <1>1, <1>2, <1>3, SendTypes DEF FlowInv, FlowTypes, Places
<1>6. Carrying(t, cookie[t])' = Carried(t)
  <2>1. cookie'[t] = jar /\ UNCHANGED <<environment, bearer>>
    BY DEF SubmitConsent, Send, FlowInv, FlowTypes
  <2> QED BY <2>1 DEF Carrying, Carried, Claimed, Live, environment
<1>7. Agreed(t)'
  BY <1>1, <1>2, <1>3, <1>4, <1>5, <1>6 DEF Agreed, Consent
<1>8. TabInv(t)'
  BY <1>2, <1>5, <1>7 DEF TabInv, Checked, Identified
<1> QED BY <1>1, <1>3, <1>4, <1>5, <1>8, SendKeeps
\* Going on as far as a step that nothing is known at, or from one check to the next.
LEMMA StepFacts ==
  ASSUME FlowInv, NEW t \in Tabs, NEW from, NEW to, GoesOn(t, from, to)
  PROVE  /\ TabInv(t) /\ at[t] = from /\ at'[t] = to /\ UNCHANGED <<environment, request, late, results>>
         /\ Carrying(t, cookie[t])' = Carrying(t, cookie[t])
<1>1. at[t] = from /\ at'[t] = to /\ UNCHANGED <<environment, request, late, results>>
  BY DEF GoesOn, Move, FlowInv, FlowTypes
<1> QED BY <1>1 DEF FlowInv, Carrying, Claimed, Live, environment, request

LEMMA AgreementGoesOn ==
  ASSUME FlowInv, NEW t \in Tabs,
         NEW pair \in {<<"form_word", "submit_session">>, <<"submit_user", "submit_client">>,
                       <<"submit_client", "issue_consent">>},
         GoesOn(t, pair[1], pair[2]), pair[2] = "issue_consent" => form[t].decision \in Agreement
  PROVE  Agreed(t)'
<1>1. /\ Agreed(t) /\ at[t] = pair[1] /\ at'[t] = pair[2] /\ UNCHANGED <<request, allowed>>
      /\ Carrying(t, cookie[t])' = Carrying(t, cookie[t])
  BY StepFacts DEF TabInv, results
<1>2. ASSUME at'[t] \in Deciding, form'[t].decision \in Agreement, NEW u \in Carrying(t, cookie[t])'
      PROVE  Consent(u, query[t])' \in allowed'
  <2>1. at[t] \in Deciding /\ form[t].decision \in Agreement /\ u \in Carrying(t, cookie[t])
    BY <1>1, <1>2 DEF Deciding, request
  <2>2. Consent(u, query[t]) \in allowed
    BY <1>1, <2>1 DEF Agreed
  <2> QED BY <1>1, <2>2 DEF Consent, request
<1>3. ASSUME at'[t] \in {"submit_client", "issue_consent"}, at'[t] # "issue_consent" => form'[t].decision \in Agreement
      PROVE  Consent(user[t], query[t])' \in allowed'
  <2>1. at[t] \in {"submit_user", "submit_client"} /\ form[t].decision \in Agreement
    BY <1>1, <1>3 DEF request
  <2>2. Consent(user[t], query[t]) \in allowed
    BY <1>1, <2>1 DEF Agreed
  <2> QED BY <1>1, <2>2 DEF Consent, request
<1>4. at'[t] \in {"submit_session", "submit_client", "issue_consent"}
  BY <1>1
<1> QED BY <1>2, <1>3, <1>4 DEF Agreed

LEMMA CheckKeeps ==
  ASSUME FlowInv, NEW t \in Tabs, NEW from, from # "end", NEW ok, NEW to \in Places, Check(t, from, ok, to),
         ok /\ GoesOn(t, from, to) => TabInv(t)'
  PROVE  FlowInv'
BY EndKeeps, GoesOnKeeps DEF Check, GoesOn

LEMMA RenderKeeps ==
  ASSUME FlowInv, NEW t \in Tabs, NEW from, from # "end", NEW ok, NEW page \in {"login", "consent", "asked"},
         Render(t, from, ok, page)
  PROVE  FlowInv'
BY EndKeeps, ShowKeeps DEF Render

LEMMA AuthorizeKeeps ==
  ASSUME FlowInv, NEW t \in Tabs, Authorize(t)
  PROVE  FlowInv'
<1>1. CASE EndJourney(t, "authorize", "refused")
  BY <1>1, EndKeeps
<1>2. CASE \E page \in {"login", "consent"} : Show(t, "authorize", page)
  BY <1>2, ShowKeeps
<1>3. CASE Learns(t, "authorize", "issue_authorize") /\ NextPage(t) # "consent"
  <2>1. /\ at[t] = "authorize" /\ at'[t] = "issue_authorize" /\ user'[t] = Subject(t, cookie[t])
        /\ UNCHANGED <<environment, bearer, query, cookie, form, late, results>>
    BY <1>3 DEF Learns, Move, FlowInv, FlowTypes
  <2>2. user'[t] \in Users /\ user'[t] \in Carrying(t, cookie[t])
    BY <1>3, <2>1, SubjectIsCarried DEF Learns, FlowInv, TabInv
  <2>3. CookieKnown(t)' /\ StaysLate(t)'
    BY <2>1 DEF FlowInv, TabInv, CookieKnown, StaysLate, Unidentified, environment
  <2>4. Agreed(t)'
    BY <1>3, <2>1 DEF Agreed, Deciding, NextPage
  <2>5. Checked(t)'
    BY <2>1, <2>2 DEF FlowInv, TabInv, StaysLate, Checked, Unidentified, Identified
  <2>6. TabInv(t)'
    BY <2>1, <2>3, <2>4, <2>5 DEF FlowInv, TabInv, results
  <2>7. "issue_authorize" \in Places
    BY DEF Places
  <2> QED BY <1>3, <2>6, <2>7, LearnsKeeps
<1> QED BY <1>1, <1>2, <1>3 DEF Authorize, NextPage, Learns

LEMMA AuthenticateLoginKeeps ==
  ASSUME FlowInv, NEW t \in Tabs, AuthenticateLogin(t)
  PROVE  FlowInv'
<1>1. CASE GoesOn(t, "authenticate", "open_session")
  <2>1. TabInv(t)'
    BY <1>1, StepFacts DEF TabInv, CookieKnown, StaysLate, Agreed, Checked, Unidentified, Deciding, Identified,
       environment, request, results
  <2>2. "open_session" \in Places
    BY DEF Places
  <2> QED BY <1>1, <2>1, <2>2, GoesOnKeeps
<1>2. CASE Show(t, "authenticate", "login")
  BY <1>2, ShowKeeps
<1> QED BY <1>1, <1>2 DEF AuthenticateLogin, GoesOn

LEMMA ConsentInfoKeeps ==
  ASSUME FlowInv, NEW t \in Tabs, ConsentInfo(t)
  PROVE  FlowInv'
<1>1. CASE Layer(t, "info", "info_session")
  BY <1>1, LayerKeeps
<1>2. CASE Identify(t, "info_session", "info_user")
  BY <1>2, IdentifyKeeps
<1>3. CASE Check(t, "info_user", user[t] \in active, "info_client")
  <2>1. GoesOn(t, "info_user", "info_client") => TabInv(t)'
    BY StepFacts DEF TabInv, CookieKnown, StaysLate, Agreed, Checked, Unidentified, Deciding, Identified,
       environment, request, results
  <2>2. "info_client" \in Places
    BY DEF Places
  <2> QED BY <1>3, <2>1, <2>2, CheckKeeps
<1>4. CASE Render(t, "info_client", user[t] \in consenting /\ ValidConsentRequest(query[t]), "asked")
  BY <1>4, RenderKeeps
<1> QED BY <1>1, <1>2, <1>3, <1>4 DEF ConsentInfo

LEMMA ConsentPageKeeps ==
  ASSUME FlowInv, NEW t \in Tabs, ConsentPage(t)
  PROVE  FlowInv'
<1>1. CASE Layer(t, "page", "page_session")
  BY <1>1, LayerKeeps
<1>2. CASE Identify(t, "page_session", "page_user")
  BY <1>2, IdentifyKeeps
<1>3. CASE Render(t, "page_user", user[t] \in active /\ KnownClient(query[t]), "asked")
  BY <1>3, RenderKeeps
<1> QED BY <1>1, <1>2, <1>3 DEF ConsentPage

LEMMA ConsentFormKeeps ==
  ASSUME FlowInv, NEW t \in Tabs, ConsentForm(t)
  PROVE  FlowInv'
<1>1. CASE Layer(t, "form", "form_session")
  BY <1>1, LayerKeeps
<1>2. CASE Identify(t, "form_session", "form_word")
  BY <1>2, IdentifyKeeps
<1>3. CASE Check(t, "form_word", form[t].decision \in {"approve", "deny"}, "submit_session")
  <2>1. GoesOn(t, "form_word", "submit_session") => TabInv(t)'
    <3> SUFFICES ASSUME GoesOn(t, "form_word", "submit_session") PROVE TabInv(t)'
      OBVIOUS
    <3>1. Agreed(t)'
      BY AgreementGoesOn
    <3>2. CookieKnown(t)' /\ StaysLate(t)' /\ Checked(t)'
      BY StepFacts DEF TabInv, CookieKnown, StaysLate, Checked, Unidentified, Identified, environment, request
    <3> QED BY <3>1, <3>2, StepFacts DEF TabInv, results
  <2>2. "submit_session" \in Places
    BY DEF Places
  <2> QED BY <1>3, <2>1, <2>2, CheckKeeps
<1> QED BY <1>1, <1>2, <1>3 DEF ConsentForm

LEMMA SubmitKeeps ==
  ASSUME FlowInv, NEW t \in Tabs, Submit(t)
  PROVE  FlowInv'
<1>1. CASE Layer(t, "submit", "submit_session")
  BY <1>1, LayerKeeps
<1>2. CASE Identify(t, "submit_session", "submit_user")
  BY <1>2, IdentifyKeeps
<1>3. CASE Check(t, "submit_user", user[t] \in active, "submit_client")
  <2>1. user[t] \in active /\ GoesOn(t, "submit_user", "submit_client") => TabInv(t)'
    <3> SUFFICES ASSUME user[t] \in active, GoesOn(t, "submit_user", "submit_client") PROVE TabInv(t)'
      OBVIOUS
    <3>1. Agreed(t)'
      BY AgreementGoesOn
    <3>2. CookieKnown(t)' /\ StaysLate(t)' /\ Checked(t)'
      BY StepFacts DEF TabInv, CookieKnown, StaysLate, Checked, Unidentified, Identified, environment, request
    <3> QED BY <3>1, <3>2, StepFacts DEF TabInv, results
  <2>2. "submit_client" \in Places
    BY DEF Places
  <2> QED BY <1>3, <2>1, <2>2, CheckKeeps
<1>4. CASE EndJourney(t, "submit_client", "access_denied")
  BY <1>4, EndKeeps
<1> DEFINE may == user[t] \in consenting /\ ValidConsentRequest(query[t])
<1>5. CASE Check(t, "submit_client", may /\ form[t].decision = AllowWord, "issue_consent")
  <2>1. may /\ form[t].decision = AllowWord /\ GoesOn(t, "submit_client", "issue_consent") => TabInv(t)'
    <3> SUFFICES ASSUME user[t] \in consenting, form[t].decision = "allow", GoesOn(t, "submit_client", "issue_consent")
                 PROVE  TabInv(t)'
      BY DEF AllowWord
    <3>1. Agreed(t)'
      BY AgreementGoesOn DEF Agreement
    <3>2. Checked(t)'
      BY StepFacts DEF TabInv, Checked, Identified, request
    <3>3. CookieKnown(t)' /\ StaysLate(t)'
      BY StepFacts DEF TabInv, CookieKnown, StaysLate, Unidentified, environment, request
    <3> QED BY <3>1, <3>2, <3>3, StepFacts DEF TabInv, results
  <2>2. "issue_consent" \in Places
    BY DEF Places
  <2> HIDE DEF may
  <2> QED BY <1>5, <2>1, <2>2, CheckKeeps
<1> QED BY <1>1, <1>2, <1>3, <1>4, <1>5 DEF Submit

LEMMA AuthenticateClientKeeps ==
  ASSUME FlowInv, NEW t \in Tabs, AuthenticateClient(t)
  PROVE  FlowInv'
<1>1. Check(t, "token", Authenticated(query[t].client), "grant")
  BY DEF AuthenticateClient
<1>2. Authenticated(query[t].client) /\ GoesOn(t, "token", "grant") => TabInv(t)'
  BY StepFacts DEF TabInv, CookieKnown, StaysLate, Agreed, Checked, Unidentified, Deciding, Identified,
     environment, request, results, Authenticated
<1>3. "grant" \in Places
  BY DEF Places
<1> QED BY <1>1, <1>2, <1>3, CheckKeeps
LEMMA OpenSessionKeeps ==
  ASSUME FlowInv, NEW t \in Tabs, NEW s \in Sessions, OpenSession(t, s)
  PROVE  FlowInv'
<1>1. /\ at[t] = "open_session" /\ at' = [at EXCEPT ![t] = "consent"] /\ Forget(t) /\ session[s] = None
      /\ session' = [session EXCEPT ![s] = [user |-> form[t].user, live |-> TRUE]] /\ jar' = s
      /\ DOMAIN query' = Tabs /\ (\A u \in Tabs \ {t} : query'[u] = query[u])
      /\ UNCHANGED <<live, active, consenting, enabled, bearer, results>>
  BY DEF OpenSession, Move, FlowInv, FlowTypes
<1>2. form[t].user \in Users
  BY <1>1, FlowAssumption DEF FlowInv, TabInv
<1>3. [user |-> form[t].user, live |-> TRUE] \in [user : Users, live : BOOLEAN]
  BY <1>2
<1>4. session' \in [Sessions -> [user : Users, live : BOOLEAN] \union {None}] /\ session'[s] # None
      /\ \A x \in Sessions \ {s} : session'[x] = session[x]
  BY <1>1, <1>3, NoneIsApart DEF FlowInv, FlowTypes
<1>5. FlowTypes'
  BY <1>1, <1>4, NoneIsApart DEF FlowInv, FlowTypes, Forget, Places, results
<1>6. at'[t] = "consent" /\ at[t] # "end" /\ cookie'[t] = None /\ answer' = answer
  BY <1>1 DEF FlowInv, FlowTypes, Forget, results
<1>7. TabInv(t)'
  BY <1>6 DEF FlowInv, TabInv, CookieKnown, StaysLate, Agreed, Checked, Unidentified, Deciding, Identified
<1>8. Aged
  BY <1>1, <1>4 DEF Aged, results
<1>9. \A u \in Tabs \ {t} : SameTab(u)
  BY <1>1 DEF SameTab, Forget, FlowInv, FlowTypes, results
<1> QED BY <1>1, <1>5, <1>7, <1>8, <1>9, TabSteps DEF results

\* What the registry lets create_auth_code write.
LEMMA CreatedIsSound ==
  ASSUME FlowInv, NEW t \in Tabs, at[t] \in {"issue_authorize", "issue_consent"}, ValidCodeRequest(query[t]),
         NEW k, k = [tab |-> t, via |-> at[t], consent |-> Consent(user[t], query[t]), challenge |-> query[t].challenge,
                     late |-> late[t], used |-> FALSE]
  PROVE  CodeIsSound(k, allowed)
<1>1. TabInv(t) /\ late[t] \in SUBSET Reasons
  BY DEF FlowInv, FlowTypes
<1>2. user[t] \in Users /\ "session" \notin late[t]
      /\ (at[t] = "issue_consent" => late[t] \intersect {"user", "permission"} = {})
  BY <1>1 DEF TabInv, Checked, Identified
<1>3. IF at[t] = "issue_authorize" THEN query[t].client \notin RequireConsent ELSE Consent(user[t], query[t]) \in allowed
  BY <1>1 DEF TabInv, Agreed
<1> DEFINE q == query[t]
<1>4. /\ q.client \in Clients /\ q.uri \in RedirectUris[q.client] /\ q.scope \subseteq AllowedScopes[q.client]
      /\ (q.client \in Public => q.challenge = "good")
  BY DEF ValidCodeRequest, KnownClient, ValidRedirectUri, ValidScope, WellFormedChallenge
<1>5. Consent(user[t], q) \in Consents
  BY <1>2, <1>4 DEF Consent, Consents
<1>6. /\ Consent(user[t], q).client = q.client /\ Consent(user[t], q).uri = q.uri
      /\ Consent(user[t], q).scope = q.scope
  BY DEF Consent
<1>7. /\ k.tab = t /\ k.via = at[t] /\ k.consent = Consent(user[t], q) /\ k.challenge = q.challenge /\ k.late = late[t]
      /\ k.used = FALSE
  OBVIOUS
<1>8. k \in [tab : Tabs, via : {"issue_authorize", "issue_consent"}, consent : Consents, challenge : {k.challenge},
             late : SUBSET Reasons, used : BOOLEAN]
  BY <1>1, <1>5, <1>7
<1> HIDE DEF q
<1> QED BY <1>2, <1>3, <1>4, <1>6, <1>7, <1>8 DEF CodeIsSound, q

LEMMA CreateCodeKeeps ==
  ASSUME FlowInv, NEW t \in Tabs, NEW c \in Codes, CreateCode(t, c)
  PROVE  FlowInv'
<1>1. at[t] \in {"issue_authorize", "issue_consent"}
  BY DEF CreateCode
<1>2. CASE EndJourney(t, at[t], IssueError(at[t]))
  BY <1>1, <1>2, EndKeeps DEF IssueError
<1>3. CASE ~EndJourney(t, at[t], IssueError(at[t]))
  <2> DEFINE k == [tab |-> t, via |-> at[t], consent |-> Consent(user[t], query[t]), challenge |-> query[t].challenge,
                   late |-> late[t], used |-> FALSE]
  <2>1. /\ ValidCodeRequest(query[t]) /\ codes' = [codes EXCEPT ![c] = k]
        /\ at' = [at EXCEPT ![t] = "callback"] /\ Forget(t)
        /\ UNCHANGED <<environment, bearer, query, answer, grants, allowed>>
    BY <1>3 DEF CreateCode, Move
  <2>2. CodeIsSound(k, allowed)
    BY <1>1, <2>1, CreatedIsSound
  <2> HIDE DEF k
  <2>3. FlowTypes'
    BY <2>1 DEF FlowInv, FlowTypes, Forget, Places, environment
  <2>4. at'[t] = "callback" /\ cookie'[t] = None /\ answer' = answer /\ at[t] # "end"
    BY <1>1, <2>1 DEF FlowInv, FlowTypes, Forget
  <2>5. TabInv(t)'
    BY <2>4 DEF FlowInv, TabInv, CookieKnown, StaysLate, Agreed, Checked, Unidentified, Deciding, Identified
  <2>6. Aged /\ \A u \in Tabs \ {t} : SameTab(u)
    BY <2>1 DEF Aged, SameTab, Forget, FlowInv, FlowTypes, environment
  <2>7. \A u \in Tabs : TabInv(u)'
    BY <2>5, <2>6, SameTabKeeps DEF FlowInv
  <2>8. CodesAreSound'
    <3> SUFFICES ASSUME NEW d \in Codes, codes'[d] # None PROVE CodeIsSound(codes'[d], allowed)
      BY <2>1 DEF CodesAreSound
    <3> QED BY <2>1, <2>2 DEF FlowInv, FlowTypes, CodesAreSound
  <2>9. GrantsAreSound'
    BY <2>1 DEF FlowInv, GrantsAreSound
  <2> QED BY <2>3, <2>7, <2>8, <2>9 DEF FlowInv
<1> QED BY <1>2, <1>3

LEMMA GrantTokenKeeps ==
  ASSUME FlowInv, NEW t \in Tabs, NEW c \in Codes, GrantToken(t, c)
  PROVE  FlowInv'
<1>1. /\ codes[c] # None /\ at[t] = "grant" /\ at' = [at EXCEPT ![t] = "end"] /\ Forget(t)
      /\ codes' = [codes EXCEPT ![c].used = TRUE]
      /\ UNCHANGED <<environment, bearer, query, allowed>>
  BY DEF GrantToken, Move
<1>2. /\ DOMAIN answer' = Tabs /\ answer'[t] \in {"tokens", "burnt"} /\ \A u \in Tabs \ {t} : answer'[u] = answer[u]
  BY DEF GrantToken, FlowInv, FlowTypes
<1>3. grants' \subseteq grants \union {[consent |-> codes[c].consent, late |-> late[t]]}
  BY DEF GrantToken
<1>4. FlowTypes'
  BY <1>1, <1>2 DEF FlowInv, FlowTypes, Forget, Places, environment
<1>5. at'[t] = "end" /\ cookie'[t] = None
  BY <1>1 DEF FlowInv, FlowTypes, Forget
<1>6. TabInv(t)'
  BY <1>2, <1>5 DEF TabInv, CookieKnown, StaysLate, Agreed, Checked, Unidentified, Deciding, Identified
<1>7. Aged /\ \A u \in Tabs \ {t} : SameTab(u)
  BY <1>1, <1>2 DEF Aged, SameTab, Forget, FlowInv, FlowTypes, environment
<1>8. \A u \in Tabs : TabInv(u)'
  BY <1>6, <1>7, SameTabKeeps DEF FlowInv
<1>9. CodesAreSound'
  <2> SUFFICES ASSUME NEW d \in Codes, codes'[d] # None PROVE CodeIsSound(codes'[d], allowed)
    BY <1>1 DEF CodesAreSound
  <2>1. CodeIsSound(codes[c], allowed)
    BY <1>1 DEF FlowInv, CodesAreSound
  <2>2. CASE d = c
    <3> DEFINE k == codes[c]
    <3>1. k \in [tab : Tabs, via : {"issue_authorize", "issue_consent"}, consent : Consents, challenge : {k.challenge},
                 late : SUBSET Reasons, used : BOOLEAN]
      BY <2>1 DEF CodeIsSound
    <3>2. codes'[c] = [k EXCEPT !.used = TRUE]
      BY <1>1 DEF FlowInv, FlowTypes
    <3> HIDE DEF k
    <3>3. /\ codes'[c] \in [tab : Tabs, via : {"issue_authorize", "issue_consent"}, consent : Consents,
                            challenge : {k.challenge}, late : SUBSET Reasons, used : BOOLEAN]
          /\ codes'[c].via = k.via /\ codes'[c].consent = k.consent /\ codes'[c].challenge = k.challenge
          /\ codes'[c].late = k.late
      BY <3>1, <3>2
    <3> QED BY <1>1, <2>1, <2>2, <3>3 DEF CodeIsSound, k
  <2>3. CASE d # c
    <3>1. codes'[d] = codes[d]
      BY <1>1, <2>3 DEF FlowInv, FlowTypes
    <3> QED BY <3>1 DEF FlowInv, CodesAreSound
  <2> QED BY <2>2, <2>3
<1>10. GrantsAreSound'
  <2>1. codes[c].consent \in Consents
    BY <1>1 DEF FlowInv, CodesAreSound, CodeIsSound
  <2>2. "client" \notin late[t]
    BY <1>1 DEF FlowInv, TabInv, Checked
  <2> QED BY <1>3, <2>1, <2>2 DEF FlowInv, GrantsAreSound
<1> QED BY <1>4, <1>8, <1>9, <1>10 DEF FlowInv

\* The administrators and the clock.
LEMMA AgeingKeeps ==
  ASSUME FlowInv, FlowTypes', Aged, UNCHANGED Others
  PROVE  FlowInv'
<1>1. \A t \in Tabs : SameTab(t)
  BY DEF SameTab, Others, request, results
<1>2. \A t \in Tabs : TabInv(t)'
  BY <1>1, SameTabKeeps DEF FlowInv
<1>3. CodesAreSound' /\ GrantsAreSound'
  BY CodesStaySound DEF FlowInv, Others, results
<1> QED BY <1>2, <1>3 DEF FlowInv

LEMMA EndedSession ==
  ASSUME NEW e \in [user : Users, live : BOOLEAN]
  PROVE  [e EXCEPT !.live = FALSE] \in [user : Users, live : BOOLEAN] /\ [e EXCEPT !.live = FALSE].user = e.user
         /\ ~[e EXCEPT !.live = FALSE].live
OBVIOUS

LEMMA EndSessionKeeps ==
  ASSUME FlowInv, NEW s \in Sessions, EndSession(s)
  PROVE  FlowInv'
<1>1. /\ session[s] # None /\ session' = [session EXCEPT ![s].live = FALSE]
      /\ UNCHANGED <<live, active, consenting, enabled, Others>>
  BY DEF EndSession, Live
<1>2. session[s] \in [user : Users, live : BOOLEAN]
  BY <1>1 DEF FlowInv, FlowTypes
<1> DEFINE ended == [session[s] EXCEPT !.live = FALSE]
<1>3. ended \in [user : Users, live : BOOLEAN] /\ ended.user = session[s].user /\ ~ended.live
  BY <1>2, EndedSession
<1>4. session' = [session EXCEPT ![s] = ended]
  BY <1>1
<1> HIDE DEF ended
<1>5. /\ session' \in [Sessions -> [user : Users, live : BOOLEAN] \union {None}] /\ session'[s] # None
      /\ session'[s].user = session[s].user /\ ~session'[s].live
      /\ \A x \in Sessions \ {s} : session'[x] = session[x]
  BY <1>3, <1>4, NoneIsApart DEF FlowInv, FlowTypes
<1>6. FlowTypes'
  BY <1>1, <1>5 DEF FlowInv, FlowTypes, Others, request, results
<1>7. Aged
  BY <1>1, <1>5 DEF Aged, Others, request, results
<1> QED BY <1>1, <1>6, <1>7, AgeingKeeps

LEMMA FlowStep ==
  ASSUME FlowInv, [FlowNext]_flowVars
  PROVE  FlowInv'
<1>1. ASSUME NEW t \in Tabs, NEW q \in Queries[t], StartJourney(t, q) PROVE FlowInv'
  BY <1>1, StartJourneyKeeps
<1>2. ASSUME NEW t \in Tabs, NEW f \in LoginForms, SubmitLogin(t, f) PROVE FlowInv'
  BY <1>2, SubmitLoginKeeps
<1>3. ASSUME NEW t \in Tabs, NEW w \in {"allow", "approve", "deny", "other"}, SubmitConsent(t, w) PROVE FlowInv'
  BY <1>3, SubmitConsentKeeps
<1>4. ASSUME NEW t \in Tabs, Server(t) PROVE FlowInv'
  BY <1>4, AuthorizeKeeps, AuthenticateLoginKeeps, OpenSessionKeeps, ConsentInfoKeeps, ConsentPageKeeps,
     ConsentFormKeeps, SubmitKeeps, AuthenticateClientKeeps, CreateCodeKeeps, GrantTokenKeeps DEF Server
<1>5. ASSUME NEW t \in Tabs, Browser(t) PROVE FlowInv'
  BY <1>5, LoadConsentPageKeeps, RequestTokenKeeps DEF Browser
<1>6. ASSUME NEW s \in Sessions, EndSession(s) PROVE FlowInv'
  BY <1>6, EndSessionKeeps
<1>7. CASE \/ \E b \in DOMAIN BearerUser : EndBearer(b)
           \/ \E u \in Users : Deactivate(u) \/ TakePermission(u)
           \/ \E c \in Clients : Disable(c)
  <2>1. UNCHANGED Others /\ UNCHANGED session /\ live' \subseteq live /\ active' \subseteq active
        /\ consenting' \subseteq consenting /\ enabled' \subseteq enabled
    BY <1>7 DEF EndBearer, Deactivate, TakePermission, Disable
  <2>2. FlowTypes' /\ Aged
    BY <2>1 DEF FlowInv, FlowTypes, Aged, Others, request, results
  <2> QED BY <2>1, <2>2, AgeingKeeps
<1>8. CASE UNCHANGED flowVars
  <2>1. UNCHANGED Others /\ FlowTypes' /\ Aged
    BY <1>8 DEF FlowInv, FlowTypes, Aged, Others, flowVars, environment, request, results
  <2> QED BY <2>1, AgeingKeeps
<1> QED BY <1>1, <1>2, <1>3, <1>4, <1>5, <1>6, <1>7, <1>8 DEF FlowNext

LEMMA FlowBegins == FlowInit => FlowInv
<1> SUFFICES ASSUME FlowInit PROVE FlowInv
  OBVIOUS
<1>1. FlowTypes
  BY DEF FlowInit, FlowTypes, Places
<1>2. \A t \in Tabs : TabInv(t)
  BY DEF FlowInit, TabInv, CookieKnown, StaysLate, Agreed, Checked, Unidentified, Deciding, Identified
<1>3. CodesAreSound /\ GrantsAreSound
  BY DEF FlowInit, CodesAreSound, GrantsAreSound
<1> QED BY <1>1, <1>2, <1>3 DEF FlowInv

LEMMA FlowHolds == FlowSpec => []FlowInv
<1> QED BY FlowBegins, FlowStep, PTL DEF FlowSpec

\* The tabs, the sessions and the codes keep their types, for any number of
\* them and any registration of the clients.
THEOREM FlowTypeCorrect == FlowSpec => []FlowTypeOK
<1>1. FlowInv => FlowTypeOK
  <2> SUFFICES ASSUME FlowInv PROVE FlowTypeOK
    OBVIOUS
  <2>1. \A s \in Sessions : session[s] # None => session[s].user \in Users /\ session[s].live \in BOOLEAN
    BY DEF FlowInv, FlowTypes
  <2>2. \A t \in Tabs : answer[t] # "none" <=> at[t] = "end"
    BY DEF FlowInv, TabInv
  <2>3. (\A c \in Codes : codes[c] # None => codes[c].consent \in Consents) /\ \A g \in grants : g.consent \in Consents
    BY DEF FlowInv, CodesAreSound, GrantsAreSound, CodeIsSound
  <2> QED BY <2>1, <2>2, <2>3 DEF FlowTypeOK, FlowInv, FlowTypes
<1> QED BY <1>1, FlowHolds, PTL

\* No tab comes to a code that its user did not agree to on the consent page,
\* unless the client asks for no consent: not even when another tab signs in as
\* somebody else while the form is under way (routes/oauth.rs:738-787,
\* routes/consent.rs:195-336).
THEOREM CodesAreAlwaysAuthorised == FlowSpec => []CodesAreAuthorised
<1>1. FlowInv => CodesAreAuthorised
  BY DEF FlowInv, CodesAreSound, CodeIsSound, CodesAreAuthorised, Issued
<1> QED BY <1>1, FlowHolds, PTL

\* Every code is for a redirect URI and a scope that its client registered, and
\* a public client's code has its challenge (auth_code_service.rs:35-91).
THEOREM CodesAlwaysMatch == FlowSpec => []CodesMatchRegistration
<1>1. FlowInv => CodesMatchRegistration
  BY DEF FlowInv, CodesAreSound, CodeIsSound, CodesMatchRegistration, Issued
<1> QED BY <1>1, FlowHolds, PTL

\* What was over when a request was sent is over for the handler, at whichever
\* await the rest of the system overtakes it (routes/consent.rs:237-275).
THEOREM LateRequestsAreAlwaysRefused == FlowSpec => []LateRequestsAreRefused
<1>1. FlowInv => LateRequestsAreRefused
  BY DEF FlowInv, CodesAreSound, CodeIsSound, GrantsAreSound, LateRequestsAreRefused, Issued
<1> QED BY <1>1, FlowHolds, PTL

-----------------------------------------------------------------------------
(* The tables.                                                             *)

\* Every id of every table holds a row of it, or none; what refers to rows
\* refers to rows there are.
TablesOK ==
  /\ DOMAIN table = Kinds
  /\ \A k \in Kinds : DOMAIN table[k] = Ids[k]
  /\ \A k \in Kinds : \A i \in Ids[k] : table[k][i] \in RowsOf(k) \union {Unused, Gone}

References ==
  /\ roleGrants \subseteq Rows("role") \X Rows("permission")
  /\ members \subseteq Rows("user") \X Rows("role")

LEMMA KindFacts ==
  /\ "user" \in Kinds /\ "role" \in Kinds /\ "permission" \in Kinds /\ "client" \in Kinds
  /\ \A k \in Kinds : k # "client" => RowsOf(k) = [name : Names, note : Texts, active : BOOLEAN, system : BOOLEAN]
  /\ RowsOf("client") =
       [name : Names \union Ids["client"], note : Texts, active : BOOLEAN, system : BOOLEAN, parts : Lists]
  /\ \A k \in Kinds : Unused \notin RowsOf(k) /\ Gone \notin RowsOf(k)
BY StartUpAssumption DEF Kinds, RowsOf

LEMMA RowType ==
  ASSUME TablesOK, NEW k \in Kinds
  PROVE  /\ Rows(k) \subseteq Ids[k]
         /\ \A i \in Rows(k) : table[k][i] \in RowsOf(k)
         /\ \A i \in Ids[k] : table[k][i] \in RowsOf(k) => i \in Rows(k)
BY KindFacts DEF TablesOK, Rows

\* A step that puts one row in its place.
LEMMA PutFacts ==
  ASSUME TablesOK, NEW k \in Kinds, NEW i \in Ids[k], NEW entry \in RowsOf(k) \union {Unused, Gone},
         Put(k, i, entry)
  PROVE  /\ TablesOK'
         /\ table'[k][i] = entry
         /\ \A h \in Kinds : \A j \in Ids[h] : h # k \/ j # i => table'[h][j] = table[h][j]
         /\ entry \in RowsOf(k) => Rows(k)' = Rows(k) \union {i}
         /\ \A h \in Kinds : h # k => Rows(h)' = Rows(h)
<1>1. /\ DOMAIN table' = Kinds
      /\ \A h \in Kinds : h # k => table'[h] = table[h]
      /\ table'[k] = [table[k] EXCEPT ![i] = entry]
  BY DEF Put, TablesOK
<1>2. /\ DOMAIN table'[k] = Ids[k] /\ table'[k][i] = entry
      /\ \A j \in Ids[k] : j # i => table'[k][j] = table[k][j]
  BY <1>1 DEF TablesOK
<1>3. TablesOK'
  BY <1>1, <1>2 DEF TablesOK
<1>4. entry \in RowsOf(k) => Rows(k)' = Rows(k) \union {i}
  BY <1>2, KindFacts DEF Rows
<1>5. \A h \in Kinds : h # k => Rows(h)' = Rows(h)
  BY <1>1 DEF Rows
<1> QED
  BY <1>1, <1>2, <1>3, <1>4, <1>5

LEMMA PutKeepsReferences ==
  ASSUME TablesOK, References, NEW k \in Kinds, NEW i \in Ids[k], NEW entry \in RowsOf(k),
         Put(k, i, entry), UNCHANGED <<roleGrants, members>>
  PROVE  TablesOK' /\ References'
<1>1. TablesOK' /\ \A h \in Kinds : Rows(h) \subseteq Rows(h)'
  BY PutFacts
<1>2. Rows("user") \subseteq Rows("user")' /\ Rows("role") \subseteq Rows("role")'
      /\ Rows("permission") \subseteq Rows("permission")'
  BY <1>1, KindFacts
<1> QED
  BY <1>1, <1>2 DEF References

LEMMA FreshFacts ==
  ASSUME TablesOK, NEW k \in Kinds, FreshIds(k) # {}
  PROVE  /\ (CHOOSE i \in FreshIds(k) : TRUE) \in Ids[k]
         /\ (CHOOSE i \in FreshIds(k) : TRUE) \notin SeedIds
         /\ (CHOOSE i \in FreshIds(k) : TRUE) \notin Rows(k)
BY DEF FreshIds, Rows

-----------------------------------------------------------------------------
(* What a request's handler knows at its awaits: the request, and what it   *)
(* has read, which may have changed since.                                 *)

UserAt(r, to, read) ==
  /\ r \in UserRequests
  /\ to \in {"check", "insert"} => r.op = "create"
  /\ to = "write" => r.id \in Rows("user") /\ read \in RowsOf("user")

RoleAt(r, to, read) ==
  /\ r \in RoleRequests
  /\ to \in {"check", "insert"} => r.op = "create"
  /\ to = "find" => r.op \in {"get", "delete", "update"}
  /\ to \in {"write", "conflict"} => r.id \in Ids["role"] /\ read \in RowsOf("role")

PermissionAt(r, to) ==
  /\ r \in PermissionRequests
  /\ to \in {"create", "update", "get", "delete"} => r.op = to

ClientAt(r, to, read) ==
  /\ r \in ClientRequests
  /\ to \in {"parts", "write"} => read \in Rows("client")

AuditAt(r, to, read) ==
  /\ r \in AuditRequests
  /\ to \in {"count", "page"} => r.op = "list"
  /\ to = "page" => read \in Nat /\ read <= logs

HandlerAt(r, to, read) ==
  to # "idle" =>
    /\ r.kind = "user" => UserAt(r, to, read)
    /\ r.kind = "role" => RoleAt(r, to, read)
    /\ r.kind = "permission" => PermissionAt(r, to)
    /\ r.kind = "client" => ClientAt(r, to, read)
    /\ r.kind = "audit" => AuditAt(r, to, read)

HandlersOK ==
  /\ awaits = [a \in Admins |-> awaits[a]] /\ req = [a \in Admins |-> req[a]]
  /\ loaded = [a \in Admins |-> loaded[a]] /\ logs \in Nat
  /\ \A a \in Admins : HandlerAt(req[a], awaits[a], loaded[a])

\* What never goes away.
Stay ==
  /\ Rows("user") \subseteq Rows("user")' /\ Rows("client") \subseteq Rows("client")'
  /\ logs' \in Nat /\ logs <= logs'

LEMMA HandlerStays ==
  ASSUME Stay, logs \in Nat, NEW r, NEW to, NEW read, HandlerAt(r, to, read)
  PROVE  HandlerAt(r, to, read)'
<1>1. UserAt(r, to, read) => UserAt(r, to, read)'
  BY DEF Stay, UserAt
<1>2. RoleAt(r, to, read) => RoleAt(r, to, read)'
  BY DEF RoleAt
<1>3. ClientAt(r, to, read) => ClientAt(r, to, read)'
  BY DEF Stay, ClientAt
<1>4. AuditAt(r, to, read) => AuditAt(r, to, read)'
  <2>1. \A x, y, z \in Nat : x <= y /\ y <= z => x <= z
    OBVIOUS
  <2> QED BY <2>1 DEF Stay, AuditAt
<1> QED
  BY <1>1, <1>2, <1>3, <1>4 DEF HandlerAt, PermissionAt

\* One handler takes a step, and the others are where they were.
LEMMA HandlersGo ==
  ASSUME HandlersOK, Stay, NEW a \in Admins, NEW r, NEW to, NEW read,
         awaits' = [awaits EXCEPT ![a] = to], req' = [req EXCEPT ![a] = r],
         loaded' = [loaded EXCEPT ![a] = read], HandlerAt(r, to, read)'
  PROVE  HandlersOK'
<1>1. /\ awaits' = [b \in Admins |-> awaits'[b]] /\ req' = [b \in Admins |-> req'[b]]
      /\ loaded' = [b \in Admins |-> loaded'[b]] /\ logs' \in Nat
      /\ awaits'[a] = to /\ req'[a] = r /\ loaded'[a] = read
  BY DEF HandlersOK, Stay
<1>2. ASSUME NEW b \in Admins PROVE HandlerAt(req[b], awaits[b], loaded[b])'
  <2>1. CASE b = a
    BY <1>1, <2>1, Zenon DEF HandlerAt, UserAt, RoleAt, PermissionAt, ClientAt, AuditAt, Rows
  <2>2. CASE b # a
    <3>1. awaits'[b] = awaits[b] /\ req'[b] = req[b] /\ loaded'[b] = loaded[b]
      BY <2>2 DEF HandlersOK
    <3>2. PICK r0, to0, read0 : r0 = req[b] /\ to0 = awaits[b] /\ read0 = loaded[b]
      OBVIOUS
    <3>3. HandlerAt(r0, to0, read0) /\ logs \in Nat
      BY <3>2 DEF HandlersOK
    <3>4. HandlerAt(r0, to0, read0)'
      BY <3>3, HandlerStays
    <3> QED
      BY <3>1, <3>2, <3>4, Zenon DEF HandlerAt, UserAt, RoleAt, PermissionAt, ClientAt, AuditAt, Rows
  <2> QED BY <2>1, <2>2
<1> QED
  BY <1>1, <1>2 DEF HandlersOK

-----------------------------------------------------------------------------
(* The steps of the administrators.                                        *)

\* Clients stay what they are; a new one has its lists and a name of its own.
ClientsGo ==
  \A i \in Rows("client")' :
    IF i \in Rows("client")
      THEN /\ table'["client"][i].name = table["client"][i].name
           /\ table'["client"][i].parts = table["client"][i].parts
      ELSE i \notin SeedIds /\ table'["client"][i].name = i /\ table'["client"][i].parts = ClientForm

WellKept == TablesOK /\ References /\ HandlersOK
TablesGo == TablesOK' /\ References' /\ Stay /\ ClientsGo
Served == TablesGo /\ HandlersOK' /\ CountedPagesHaveRows'

LEMMA NothingWritten ==
  ASSUME WellKept, UNCHANGED <<table, logs>>, References'
  PROVE  TablesGo
BY DEF WellKept, TablesGo, TablesOK, HandlersOK, Stay, ClientsGo, Rows

LEMMA TablesUntouched ==
  ASSUME WellKept, UNCHANGED <<tables, logs>>
  PROVE  TablesGo
<1>1. UNCHANGED <<table, logs>> /\ References'
  BY DEF WellKept, tables, References, Rows
<1> QED BY <1>1, NothingWritten

LEMMA RowWritten ==
  ASSUME WellKept, NEW k \in Kinds, k # "client", NEW i \in Ids[k], NEW entry \in RowsOf(k),
         Put(k, i, entry), UNCHANGED <<roleGrants, members, logs>>
  PROVE  TablesGo
<1>1. TablesOK' /\ References'
  BY PutKeepsReferences DEF WellKept
<1>2. /\ \A h \in Kinds : Rows(h) \subseteq Rows(h)'
      /\ Rows("client")' = Rows("client")
      /\ \A j \in Ids["client"] : table'["client"][j] = table["client"][j]
  BY PutFacts, KindFacts DEF WellKept
<1>3. Rows("client") \subseteq Ids["client"]
  BY RowType, KindFacts DEF WellKept
<1> QED
  BY <1>1, <1>2, <1>3, KindFacts DEF WellKept, HandlersOK, TablesGo, Stay, ClientsGo

LEMMA ClientWritten ==
  ASSUME WellKept, NEW i \in Ids["client"], NEW entry \in RowsOf("client"),
         Put("client", i, entry), UNCHANGED <<roleGrants, members, logs>>,
         IF i \in Rows("client")
           THEN entry.name = table["client"][i].name /\ entry.parts = table["client"][i].parts
           ELSE i \notin SeedIds /\ entry.name = i /\ entry.parts = ClientForm
  PROVE  TablesGo
<1>1. TablesOK' /\ References'
  BY PutKeepsReferences, KindFacts DEF WellKept
<1>2. /\ \A h \in Kinds : Rows(h) \subseteq Rows(h)'
      /\ Rows("client")' = Rows("client") \union {i}
      /\ \A j \in Ids["client"] : j # i => table'["client"][j] = table["client"][j]
      /\ table'["client"][i] = entry
  BY PutFacts, KindFacts DEF WellKept
<1>3. Rows("client") \subseteq Ids["client"]
  BY RowType, KindFacts DEF WellKept
<1>4. Stay
  BY <1>2, KindFacts DEF WellKept, HandlersOK, Stay
<1>5. ClientsGo
  BY <1>2, <1>3 DEF ClientsGo
<1> QED
  BY <1>1, <1>4, <1>5 DEF TablesGo

LEMMA Answered ==
  ASSUME HandlersOK, TablesGo, NEW a \in Admins, awaits[a] # "page", NEW s, NEW body, Answer(a, s, body)
  PROVE  Served
<1>1. HandlerAt(Null, "idle", Null)'
  BY DEF HandlerAt
<1>2. HandlersOK'
  BY <1>1, HandlersGo DEF Answer, TablesGo
<1>3. CountedPagesHaveRows'
  BY DEF Answer, CountedPagesHaveRows
<1> QED BY <1>2, <1>3 DEF Served

LEMMA Refused ==
  ASSUME WellKept, NEW a \in Admins, awaits[a] # "page", NEW e, Refuse(a, e), UNCHANGED logs
  PROVE  Served
<1>1. TablesGo
  BY TablesUntouched DEF Refuse
<1> QED BY <1>1, Answered DEF Refuse, WellKept

LEMMA WentOn ==
  ASSUME HandlersOK, TablesGo, NEW a \in Admins, NEW r, r = req[a], NEW to, NEW read,
         GoOn(a, to, read), HandlerAt(r, to, read)'
  PROVE  Served
<1>1. req' = [req EXCEPT ![a] = r]
  BY DEF GoOn, HandlersOK
<1>2. HandlersOK'
  BY <1>1, HandlersGo DEF GoOn, TablesGo
<1>3. CountedPagesHaveRows'
  BY DEF GoOn, CountedPagesHaveRows
<1> QED BY <1>2, <1>3 DEF Served

LEMMA Awaited ==
  ASSUME WellKept, NEW a \in Admins, NEW r, NEW to, Await(a, r, to), UNCHANGED logs,
         \A read : HandlerAt(r, to, read)'
  PROVE  Served
<1>1. TablesGo
  BY TablesUntouched DEF Await
<1>2. PICK read : read = loaded[a]
  OBVIOUS
<1>3. loaded' = [loaded EXCEPT ![a] = read] /\ HandlerAt(r, to, read)'
  BY <1>2 DEF Await, WellKept, HandlersOK
<1>4. HandlersOK'
  BY <1>1, <1>3, HandlersGo DEF Await, TablesGo, WellKept
<1>5. CountedPagesHaveRows'
  BY DEF Await, CountedPagesHaveRows
<1> QED BY <1>1, <1>4, <1>5 DEF Served

LEMMA Listed ==
  ASSUME WellKept, NEW a \in Admins, NEW k, NEW size, List(a, k, size)
  PROVE  Served
<1>1. TablesGo /\ awaits[a] # "page"
  BY TablesUntouched DEF List, Reached
<1> QED BY <1>1, Answered DEF List, WellKept

LEMMA RequestKinds ==
  /\ \A r \in UserRequests : r.kind = "user"
  /\ \A r \in RoleRequests : r.kind = "role"
  /\ \A r \in PermissionRequests : r.kind = "permission"
  /\ \A r \in ClientRequests : r.kind = "client"
  /\ \A r \in GrantRequests : r.kind = "grant"
  /\ \A r \in MemberRequests : r.kind = "member"
  /\ \A r \in AuditRequests : r.kind = "audit"
<1>1. \A r \in UserRequests : r.kind = "user"
  BY DEF UserRequests
<1>2. \A r \in RoleRequests : r.kind = "role"
  BY DEF RoleRequests
<1>3. \A r \in PermissionRequests : r.kind = "permission"
  BY DEF PermissionRequests
<1>4. \A r \in ClientRequests : r.kind = "client"
  BY DEF ClientRequests
<1>5. \A r \in GrantRequests : r.kind = "grant"
  BY DEF GrantRequests
<1>6. \A r \in MemberRequests : r.kind = "member"
  BY DEF MemberRequests
<1>7. \A r \in AuditRequests : r.kind = "audit"
  BY DEF AuditRequests
<1> QED BY <1>1, <1>2, <1>3, <1>4, <1>5, <1>6, <1>7

\* What the requests that write a row say of it.
LEMMA RequestFields ==
  /\ \A r \in UserRequests : r.op = "create" => r.name \in Names /\ r.note \in Notes
  /\ \A r \in UserRequests : r.op = "update" => r.note \in Notes /\ r.active \in BOOLEAN \union {Null}
  /\ \A r \in RoleRequests : r.op = "create" => r.name \in Names /\ r.note \in Notes
  /\ \A r \in RoleRequests : r.op = "update" => r.name \in Names \union {Null} /\ r.note \in Notes
  /\ \A r \in RoleRequests : r.op \in {"get", "delete", "update"} => r.id \in Ids["role"]
  /\ \A r \in PermissionRequests : r.op = "create" => r.name \in Names /\ r.note \in Notes
  /\ \A r \in PermissionRequests : r.op = "update" => r.note \in Notes
  /\ \A r \in PermissionRequests : r.op \in {"get", "delete", "update"} => r.id \in Ids["permission"]
<1>1. \A r \in UserRequests :
         /\ r.op = "create" => r.name \in Names /\ r.note \in Notes
         /\ r.op = "update" => r.note \in Notes /\ r.active \in BOOLEAN \union {Null}
  BY DEF UserRequests
<1>2. \A r \in RoleRequests :
         /\ r.op = "create" => r.name \in Names /\ r.note \in Notes
         /\ r.op = "update" => r.name \in Names \union {Null} /\ r.note \in Notes
         /\ r.op \in {"get", "delete", "update"} => r.id \in Ids["role"]
  BY DEF RoleRequests
<1>3. \A r \in PermissionRequests :
         /\ r.op = "create" => r.name \in Names /\ r.note \in Notes
         /\ r.op = "update" => r.note \in Notes
         /\ r.op \in {"get", "delete", "update"} => r.id \in Ids["permission"]
  BY DEF PermissionRequests
<1> QED BY <1>1, <1>2, <1>3

LEMMA HandlerFacts ==
  ASSUME WellKept, NEW a \in Admins, awaits[a] # "idle"
  PROVE  /\ req[a].kind = "user" => UserAt(req[a], awaits[a], loaded[a])
         /\ req[a].kind = "role" => RoleAt(req[a], awaits[a], loaded[a])
         /\ req[a].kind = "permission" => PermissionAt(req[a], awaits[a])
         /\ req[a].kind = "client" => ClientAt(req[a], awaits[a], loaded[a])
         /\ req[a].kind = "audit" => AuditAt(req[a], awaits[a], loaded[a])
<1>1. HandlerAt(req[a], awaits[a], loaded[a])
  BY DEF WellKept, HandlersOK
<1> QED BY <1>1, Zenon DEF HandlerAt

LEMMA GivenFacts ==
  ASSUME NEW S, NEW x \in S \union {Null}, NEW y \in S
  PROVE  Given(x, y) \in S
BY DEF Given

\* What updates make of a row is one.
LEMMA RowChanges ==
  ASSUME NEW N, NEW T, NEW R, R = [name : N, note : T, active : BOOLEAN, system : BOOLEAN]
  PROVE  \A entry \in R :
           /\ entry.name \in N /\ entry.note \in T /\ entry.active \in BOOLEAN
           /\ [entry EXCEPT !.active = FALSE] \in R
           /\ \A note \in T : \A on \in BOOLEAN : [entry EXCEPT !.note = note, !.active = on] \in R
           /\ \A note \in T : [entry EXCEPT !.note = note] \in R
           /\ \A note \in T : \A name \in N : [entry EXCEPT !.name = name, !.note = note] \in R
OBVIOUS

LEMMA UserOrRole ==
  ASSUME NEW k \in Kinds, k # "client"
  PROVE  \A entry \in RowsOf(k) :
           /\ entry.name \in Names /\ entry.note \in Texts /\ entry.active \in BOOLEAN
           /\ [entry EXCEPT !.active = FALSE] \in RowsOf(k)
           /\ \A note \in Texts : \A on \in BOOLEAN : [entry EXCEPT !.note = note, !.active = on] \in RowsOf(k)
           /\ \A note \in Texts : [entry EXCEPT !.note = note] \in RowsOf(k)
           /\ \A note \in Texts : \A name \in Names : [entry EXCEPT !.name = name, !.note = note] \in RowsOf(k)
<1>1. RowsOf(k) = [name : Names, note : Texts, active : BOOLEAN, system : BOOLEAN]
  BY KindFacts
<1> QED BY <1>1, RowChanges

LEMMA NotesAreTexts == Notes \subseteq Texts /\ Null \in Texts /\ "seed" \in Texts
BY DEF Texts

LEMMA UserStep ==
  ASSUME WellKept, NEW a \in Admins, UserSteps(a)
  PROVE  Served
<1> USE KindFacts
<1>1. ASSUME UserRoutes(a) PROVE Served
  <2> PICK r \in Asks \intersect UserRequests :
        /\ Idle(a) /\ Take(a) /\ UNCHANGED logs
        /\ \/ r.op = "create" /\ (r.name = Blank \/ r.password = "short") /\ Refuse(a, "ValidationError")
           \/ r.op = "create" /\ r.name # Blank /\ r.password = "long" /\ Await(a, r, "check")
           \/ r.op = "me" /\ r.id = Null /\ Refuse(a, "Unauthorized")
           \/ r.op \in {"get", "delete", "me", "update"} /\ r.id # Null /\ Await(a, r, "find")
           \/ r.op = "list" /\ Await(a, r, "list")
    BY <1>1 DEF UserRoutes
  <2>1. r.kind = "user" /\ awaits[a] # "page"
    BY RequestKinds DEF Idle
  <2>2. \A read : /\ r.op = "create" => HandlerAt(r, "check", read)'
                  /\ HandlerAt(r, "find", read)' /\ HandlerAt(r, "list", read)'
    BY <2>1 DEF HandlerAt, UserAt
  <2> QED BY <2>1, <2>2, Refused, Awaited
<1>2. ASSUME CheckUsername(a) PROVE Served
  <2>1. TablesGo /\ awaits[a] = "check" /\ req[a].kind = "user" /\ UNCHANGED logs
    BY <1>2, TablesUntouched DEF CheckUsername, Reached
  <2>2. PICK r : r = req[a]
    OBVIOUS
  <2>3. HandlerAt(r, "insert", Null)'
    BY <2>1, <2>2, HandlerFacts DEF HandlerAt, UserAt
  <2> QED BY <1>2, <2>1, <2>2, <2>3, Refused, WentOn DEF CheckUsername, WellKept
<1>3. ASSUME InsertUser(a) PROVE Served
  <2>1. awaits[a] = "insert" /\ req[a].kind = "user" /\ UNCHANGED <<roleGrants, members, logs>>
    BY <1>3 DEF InsertUser, Reached
  <2>2. CASE Refuse(a, "Database")
    BY <2>1, <2>2, Refused
  <2>3. CASE Insert("user", UserRow(req[a].name, req[a].note)) /\ Answer(a, 200, req[a].name)
    <3>1. UserRow(req[a].name, req[a].note) \in RowsOf("user")
      BY <2>1, HandlerFacts, RequestFields DEF UserAt, UserRow, Row, Texts
    <3>2. TablesGo
      BY <2>1, <2>3, <3>1, FreshFacts, RowWritten DEF Insert, WellKept
    <3> QED BY <2>1, <2>3, <3>2, Answered DEF WellKept
  <2> QED BY <1>3, <2>2, <2>3 DEF InsertUser
<1>4. ASSUME FindUser(a) PROVE Served
  <2>1. TablesGo /\ awaits[a] = "find" /\ req[a].kind = "user" /\ UNCHANGED <<table, logs>>
    BY <1>4, TablesUntouched DEF FindUser, Reached, tables
  <2>2. PICK r, entry : r = req[a] /\ entry = table["user"][req[a].id]
    OBVIOUS
  <2>3. r.id \in Rows("user") => HandlerAt(r, "write", entry)'
    BY <2>1, <2>2, HandlerFacts, RowType DEF HandlerAt, UserAt, Rows, WellKept
  <2> QED BY <1>4, <2>1, <2>2, <2>3, Refused, Answered, WentOn DEF FindUser, WellKept
<1>5. ASSUME UpdateUser(a) PROVE Served
  <2> DEFINE entry == table["user"][req[a].id]
             new == [entry EXCEPT !.note = Given(req[a].note, loaded[a].note),
                                !.active = Given(req[a].active, loaded[a].active)]
  <2>1. awaits[a] = "write" /\ req[a].kind = "user" /\ req[a].op = "update"
        /\ UNCHANGED <<roleGrants, members, logs>>
    BY <1>5 DEF UpdateUser, Reached
  <2>2. /\ req[a] \in UserRequests /\ req[a].id \in Ids["user"] /\ entry \in RowsOf("user") /\ loaded[a] \in RowsOf("user")
    BY <2>1, HandlerFacts, RowType DEF UserAt, WellKept
  <2>3. req[a].note \in Notes /\ req[a].active \in BOOLEAN \union {Null}
    BY <2>1, <2>2, RequestFields
  <2>4. Given(req[a].note, loaded[a].note) \in Texts /\ Given(req[a].active, loaded[a].active) \in BOOLEAN
    <3>1. loaded[a].note \in Texts /\ loaded[a].active \in BOOLEAN
      BY <2>2, UserOrRole
    <3> QED BY <3>1, <2>3, NotesAreTexts, GivenFacts, Zenon
  <2>5. new \in RowsOf("user")
    BY <2>2, <2>4, UserOrRole, Zenon
  <2>6. Put("user", req[a].id, new) /\ Answer(a, 200, loaded[a].name)
    BY <1>5 DEF UpdateUser
  <2> HIDE DEF new
  <2>7. TablesGo
    BY <2>1, <2>2, <2>5, <2>6, RowWritten
  <2> QED BY <2>1, <2>6, <2>7, Answered DEF WellKept
<1>6. ASSUME DeleteUser(a) PROVE Served
  <2> DEFINE entry == table["user"][req[a].id]
             new == [entry EXCEPT !.active = FALSE]
  <2>1. awaits[a] = "write" /\ req[a].kind = "user" /\ UNCHANGED <<roleGrants, members, logs>>
    BY <1>6 DEF DeleteUser, Reached
  <2>2. req[a].id \in Ids["user"] /\ entry \in RowsOf("user")
    BY <2>1, HandlerFacts, RowType DEF UserAt, WellKept
  <2>3. new \in RowsOf("user")
    BY <2>2, UserOrRole, Zenon
  <2>4. Put("user", req[a].id, new) /\ Answer(a, 200, Null)
    BY <1>6 DEF DeleteUser
  <2> HIDE DEF new
  <2>5. TablesGo
    BY <2>1, <2>2, <2>3, <2>4, RowWritten
  <2> QED BY <2>1, <2>4, <2>5, Answered DEF WellKept
<1> QED
  BY <1>1, <1>2, <1>3, <1>4, <1>5, <1>6, Listed DEF UserSteps

LEMMA RoleStep ==
  ASSUME WellKept, NEW a \in Admins, RoleSteps(a)
  PROVE  Served
<1> USE KindFacts
<1>1. ASSUME RoleRoutes(a) PROVE Served
  <2> PICK r \in Asks \intersect RoleRequests :
        /\ Idle(a) /\ Take(a) /\ UNCHANGED logs
        /\ \/ r.op = "create" /\ r.name = Blank /\ Refuse(a, "ValidationError")
           \/ r.op = "create" /\ r.name # Blank /\ Await(a, r, "check")
           \/ r.op \in {"get", "delete", "update"} /\ Await(a, r, "find")
           \/ r.op = "list" /\ Await(a, r, "list")
    BY <1>1 DEF RoleRoutes
  <2>1. r.kind = "role" /\ awaits[a] # "page"
    BY RequestKinds DEF Idle
  <2>2. \A read : /\ r.op = "create" => HandlerAt(r, "check", read)'
                  /\ r.op \in {"get", "delete", "update"} => HandlerAt(r, "find", read)'
                  /\ HandlerAt(r, "list", read)'
    BY <2>1 DEF HandlerAt, RoleAt
  <2> QED BY <2>1, <2>2, Refused, Awaited
<1>2. ASSUME CheckRoleName(a) PROVE Served
  <2>1. TablesGo /\ awaits[a] = "check" /\ req[a].kind = "role" /\ UNCHANGED logs
    BY <1>2, TablesUntouched DEF CheckRoleName, Reached
  <2>2. PICK r : r = req[a]
    OBVIOUS
  <2>3. HandlerAt(r, "insert", Null)'
    BY <2>1, <2>2, HandlerFacts DEF HandlerAt, RoleAt
  <2> QED BY <1>2, <2>1, <2>2, <2>3, Refused, WentOn DEF CheckRoleName, WellKept
<1>3. ASSUME InsertRole(a) PROVE Served
  <2>1. awaits[a] = "insert" /\ req[a].kind = "role" /\ UNCHANGED <<roleGrants, members, logs>>
    BY <1>3 DEF InsertRole, Reached
  <2>2. CASE Refuse(a, "Database")
    BY <2>1, <2>2, Refused
  <2>3. CASE /\ Insert("role", RoleRow(req[a].name, req[a].note))
             /\ GoOn(a, "reread", CHOOSE i \in FreshIds("role") : TRUE)
    <3>1. RoleRow(req[a].name, req[a].note) \in RowsOf("role")
      BY <2>1, HandlerFacts, RequestFields DEF RoleAt, RoleRow, Row, Texts
    <3>2. TablesGo
      BY <2>1, <2>3, <3>1, FreshFacts, RowWritten DEF Insert, WellKept
    <3>3. PICK r, i : r = req[a] /\ i = CHOOSE j \in FreshIds("role") : TRUE
      OBVIOUS
    <3>4. HandlerAt(r, "reread", i)'
      BY <2>1, <3>3, HandlerFacts DEF HandlerAt, RoleAt
    <3> QED BY <2>3, <3>2, <3>3, <3>4, WentOn DEF WellKept
  <2> QED BY <1>3, <2>2, <2>3 DEF InsertRole
<1>4. ASSUME FindRole(a) PROVE Served
  <2>1. TablesGo /\ awaits[a] = "find" /\ req[a].kind = "role" /\ UNCHANGED <<table, logs>>
    BY <1>4, TablesUntouched DEF FindRole, Reached, tables
  <2>2. PICK r, entry : r = req[a] /\ entry = table["role"][req[a].id]
    OBVIOUS
  <2>3. r.id \in Rows("role") => HandlerAt(r, "write", entry)' /\ HandlerAt(r, "conflict", entry)'
    BY <2>1, <2>2, HandlerFacts, RowType DEF HandlerAt, RoleAt, WellKept
  <2> QED BY <1>4, <2>1, <2>2, <2>3, Refused, Answered, WentOn DEF FindRole, WellKept
<1>5. ASSUME FindRoleByName(a) PROVE Served
  <2>1. TablesGo /\ awaits[a] = "conflict" /\ req[a].kind = "role" /\ UNCHANGED logs
    BY <1>5, TablesUntouched DEF FindRoleByName, Reached
  <2>2. PICK r, entry : r = req[a] /\ entry = loaded[a]
    OBVIOUS
  <2>3. HandlerAt(r, "write", entry)'
    BY <2>1, <2>2, HandlerFacts DEF HandlerAt, RoleAt
  <2> QED BY <1>5, <2>1, <2>2, <2>3, Refused, WentOn DEF FindRoleByName, WellKept
<1>6. ASSUME UpdateRole(a) PROVE Served
  <2> DEFINE i == req[a].id
             name == Given(req[a].name, loaded[a].name)
             entry == table["role"][i]
             new == [entry EXCEPT !.name = name, !.note = Given(req[a].note, loaded[a].note)]
  <2>1. awaits[a] = "write" /\ req[a].kind = "role" /\ req[a].op = "update"
        /\ UNCHANGED <<roleGrants, members, logs>>
    BY <1>6 DEF UpdateRole, Reached
  <2>2. /\ req[a] \in RoleRequests /\ i \in Ids["role"] /\ loaded[a] \in RowsOf("role")
        /\ i \in Rows("role") => entry \in RowsOf("role")
    BY <2>1, HandlerFacts, RowType DEF RoleAt, WellKept
  <2>3. name \in Names /\ Given(req[a].note, loaded[a].note) \in Texts
    <3>1. loaded[a].name \in Names /\ loaded[a].note \in Texts
      BY <2>2, UserOrRole
    <3>2. req[a].name \in Names \union {Null} /\ req[a].note \in Texts \union {Null}
      BY <2>1, <2>2, RequestFields, NotesAreTexts
    <3> QED BY <3>1, <3>2, GivenFacts
  <2>4. i \in Rows("role") => new \in RowsOf("role")
    BY <2>2, <2>3, UserOrRole, Zenon
  <2>5. PICK r, j : r = req[a] /\ j = i
    OBVIOUS
  <2>6. HandlerAt(r, "reread", j)'
    BY <2>1, <2>5, HandlerFacts DEF HandlerAt, RoleAt
  <2>7. \/ Refuse(a, "Database")
        \/ i \in Rows("role") /\ Put("role", i, new) /\ GoOn(a, "reread", j)
        \/ GoOn(a, "reread", j) /\ UNCHANGED table
    BY <1>6, <2>5 DEF UpdateRole
  <2> HIDE DEF new
  <2>8. CASE Refuse(a, "Database")
    BY <2>1, <2>8, Refused
  <2>9. CASE i \in Rows("role") /\ Put("role", i, new) /\ GoOn(a, "reread", j)
    <3>1. TablesGo
      BY <2>1, <2>2, <2>4, <2>9, RowWritten
    <3> QED BY <2>5, <2>6, <2>9, <3>1, WentOn DEF WellKept
  <2>10. CASE GoOn(a, "reread", j) /\ UNCHANGED table
    <3>1. TablesGo
      BY <2>1, <2>10, TablesUntouched DEF tables
    <3> QED BY <2>5, <2>6, <2>10, <3>1, WentOn DEF WellKept
  <2> QED BY <2>7, <2>8, <2>9, <2>10
<1>7. ASSUME ReadRoleBack(a) PROVE Served
  <2>1. TablesGo /\ awaits[a] = "reread" /\ UNCHANGED logs
    BY <1>7, TablesUntouched DEF ReadRoleBack, Reached
  <2> QED BY <1>7, <2>1, Refused, Answered DEF ReadRoleBack, WellKept
<1>8. ASSUME DeleteRole(a) PROVE Served
  <2>1. awaits[a] = "write" /\ req[a].kind = "role" /\ Put("role", req[a].id, Gone) /\ UNCHANGED logs
    BY <1>8 DEF DeleteRole, Reached, Put
  <2>2. req[a].id \in Ids["role"]
    BY <2>1, HandlerFacts DEF RoleAt
  <2>3. /\ TablesOK' /\ table'["role"][req[a].id] = Gone
        /\ \A j \in Ids["role"] : j # req[a].id => table'["role"][j] = table["role"][j]
        /\ Rows("user")' = Rows("user") /\ Rows("permission")' = Rows("permission")
        /\ Rows("client")' = Rows("client")
        /\ \A j \in Ids["client"] : table'["client"][j] = table["client"][j]
    BY <2>1, <2>2, PutFacts DEF WellKept
  <2>4. Rows("role") \ {req[a].id} \subseteq Rows("role")'
    BY <2>3 DEF Rows
  <2>5. References'
    BY <1>8, <2>3, <2>4 DEF DeleteRole, References, WellKept
  <2>6. TablesGo
    BY <2>1, <2>3, <2>5, RowType DEF TablesGo, Stay, ClientsGo, WellKept, HandlersOK
  <2> QED BY <1>8, <2>1, <2>6, Answered DEF DeleteRole, WellKept
<1> QED
  BY <1>1, <1>2, <1>3, <1>4, <1>5, <1>6, <1>7, <1>8, Listed DEF RoleSteps

LEMMA PermissionStep ==
  ASSUME WellKept, NEW a \in Admins, PermissionSteps(a)
  PROVE  Served
<1> USE KindFacts
<1>1. ASSUME PermissionRoutes(a) PROVE Served
  <2> PICK r \in Asks \intersect PermissionRequests :
        /\ Idle(a) /\ Take(a) /\ UNCHANGED logs
        /\ \/ r.op = "create" /\ r.name = Blank /\ Refuse(a, "ValidationError")
           \/ r.op # "create" /\ Await(a, r, r.op)
           \/ r.op = "create" /\ r.name # Blank /\ Await(a, r, "create")
    BY <1>1 DEF PermissionRoutes
  <2>1. r.kind = "permission" /\ awaits[a] # "page"
    BY RequestKinds DEF Idle
  <2>2. PICK to : to = r.op
    OBVIOUS
  <2>3. \A read : HandlerAt(r, to, read)'
    BY <2>1, <2>2 DEF HandlerAt, PermissionAt
  <2> QED BY <2>1, <2>2, <2>3, Refused, Awaited
<1>2. ASSUME CreatePermission(a) PROVE Served
  <2>1. awaits[a] = "create" /\ req[a].kind = "permission" /\ UNCHANGED <<roleGrants, members, logs>>
    BY <1>2 DEF CreatePermission, Reached
  <2>2. CASE Refuse(a, "Conflict")
    BY <2>1, <2>2, Refused
  <2>3. CASE Insert("permission", PermissionRow(req[a].name, req[a].note)) /\ Answer(a, 200, req[a].name)
    <3>1. PermissionRow(req[a].name, req[a].note) \in RowsOf("permission")
      BY <2>1, HandlerFacts, RequestFields DEF PermissionAt, PermissionRow, Row, Texts
    <3>2. TablesGo
      BY <2>1, <2>3, <3>1, FreshFacts, RowWritten DEF Insert, WellKept
    <3> QED BY <2>1, <2>3, <3>2, Answered DEF WellKept
  <2> QED BY <1>2, <2>2, <2>3 DEF CreatePermission
<1>3. ASSUME FindPermission(a) PROVE Served
  <2>1. TablesGo /\ awaits[a] = "get" /\ UNCHANGED logs
    BY <1>3, TablesUntouched DEF FindPermission, Reached
  <2> QED BY <1>3, <2>1, Refused, Answered DEF FindPermission, WellKept
<1>4. ASSUME UpdatePermission(a) PROVE Served
  <2> DEFINE i == req[a].id
             new == [table["permission"][i] EXCEPT !.note = req[a].note]
  <2>1. awaits[a] = "update" /\ req[a].kind = "permission" /\ UNCHANGED <<roleGrants, members, logs>>
    BY <1>4 DEF UpdatePermission, Reached
  <2>2. i \in Ids["permission"] /\ req[a].note \in Texts
    BY <2>1, HandlerFacts, RequestFields, NotesAreTexts DEF PermissionAt
  <2>3. i \in Rows("permission") => new \in RowsOf("permission")
    BY <2>2, RowType, UserOrRole DEF WellKept
  <2>4. \/ i \in Rows("permission") /\ Put("permission", i, new)
             /\ Answer(a, 200, table["permission"][i].name)
        \/ Refuse(a, "Internal")
    BY <1>4 DEF UpdatePermission
  <2> HIDE DEF new
  <2>5. CASE Refuse(a, "Internal")
    BY <2>1, <2>5, Refused
  <2>6. CASE i \in Rows("permission") /\ Put("permission", i, new) /\ Answer(a, 200, table["permission"][i].name)
    <3>1. TablesGo
      BY <2>1, <2>2, <2>3, <2>6, RowWritten
    <3> QED BY <2>1, <2>6, <3>1, Answered DEF WellKept
  <2> QED BY <2>4, <2>5, <2>6
<1>5. ASSUME DeletePermission(a) PROVE Served
  <2> DEFINE i == req[a].id
             gone == IF table["permission"][i] = Unused THEN Unused ELSE Gone
  <2>1. awaits[a] = "delete" /\ req[a].kind = "permission" /\ UNCHANGED logs
    BY <1>5 DEF DeletePermission, Reached
  <2>2. i \in Ids["permission"]
    BY <2>1, HandlerFacts, RequestFields DEF PermissionAt
  <2>3. Put("permission", i, gone)
    BY <1>5 DEF DeletePermission, Put
  <2>4. gone \in {Unused, Gone}
    OBVIOUS
  <2> HIDE DEF gone
  <2>5. /\ TablesOK' /\ table'["permission"][i] = gone
        /\ \A j \in Ids["permission"] : j # i => table'["permission"][j] = table["permission"][j]
        /\ Rows("user")' = Rows("user") /\ Rows("role")' = Rows("role")
        /\ Rows("client")' = Rows("client")
        /\ \A j \in Ids["client"] : table'["client"][j] = table["client"][j]
    BY <2>2, <2>3, <2>4, PutFacts DEF WellKept
  <2>6. Rows("permission") \ {i} \subseteq Rows("permission")'
    BY <2>5 DEF Rows
  <2>7. References'
    BY <1>5, <2>5, <2>6 DEF DeletePermission, References, WellKept
  <2>8. TablesGo
    BY <2>1, <2>5, <2>7, RowType DEF TablesGo, Stay, ClientsGo, WellKept, HandlersOK
  <2> QED BY <1>5, <2>1, <2>8, Answered DEF DeletePermission, WellKept
<1> QED
  BY <1>1, <1>2, <1>3, <1>4, <1>5, Listed DEF PermissionSteps

LEMMA AssignmentStep ==
  ASSUME WellKept, NEW a \in Admins, AssignmentSteps(a)
  PROVE  Served
<1> USE KindFacts
<1>1. ASSUME GrantRoutes(a) PROVE Served
  <2> PICK r \in Asks \intersect GrantRequests :
        Idle(a) /\ Await(a, r, IF r.op = "get" THEN "read" ELSE "find") /\ UNCHANGED logs
    BY <1>1 DEF GrantRoutes
  <2>1. r.kind = "grant"
    BY RequestKinds
  <2>2. \A to, read : HandlerAt(r, to, read)'
    BY <2>1 DEF HandlerAt
  <2> QED BY <2>2, Awaited
<1>2. ASSUME MemberRoutes(a) PROVE Served
  <2> PICK r \in Asks \intersect MemberRequests :
        Idle(a) /\ Await(a, r, IF r.op = "get" THEN "read" ELSE "write") /\ UNCHANGED logs
    BY <1>2 DEF MemberRoutes
  <2>1. r.kind = "member"
    BY RequestKinds
  <2>2. \A to, read : HandlerAt(r, to, read)'
    BY <2>1 DEF HandlerAt
  <2> QED BY <2>2, Awaited
<1>3. ASSUME ReadGrants(a) \/ ReadMembers(a) PROVE Served
  <2>1. TablesGo /\ awaits[a] = "read"
    BY <1>3, TablesUntouched DEF ReadGrants, ReadMembers, Reached
  <2> QED BY <1>3, <2>1, Answered DEF ReadGrants, ReadMembers, WellKept
<1>4. ASSUME FindGrantedRole(a) PROVE Served
  <2>1. TablesGo /\ awaits[a] = "find" /\ req[a].kind = "grant" /\ UNCHANGED logs
    BY <1>4, TablesUntouched DEF FindGrantedRole, Reached
  <2>2. PICK r, i : r = req[a] /\ i = req[a].id
    OBVIOUS
  <2>3. HandlerAt(r, "write", i)'
    BY <2>1, <2>2 DEF HandlerAt
  <2> QED BY <1>4, <2>1, <2>2, <2>3, Refused, WentOn DEF FindGrantedRole, WellKept
<1>5. ASSUME AssignPermissions(a) PROVE Served
  <2>1. awaits[a] = "write" /\ UNCHANGED <<table, members, logs>> /\ \E s, body : Answer(a, s, body)
    BY <1>5 DEF AssignPermissions, Reached
  <2>2. roleGrants' \subseteq Rows("role") \X Rows("permission")
    BY <1>5 DEF AssignPermissions, References, WellKept
  <2>3. References'
    BY <2>1, <2>2 DEF References, WellKept, Rows
  <2> QED BY <2>1, <2>3, NothingWritten, Answered DEF WellKept
<1>6. ASSUME RemovePermissions(a) PROVE Served
  <2>1. awaits[a] = "write" /\ UNCHANGED <<table, members, logs>> /\ \E s, body : Answer(a, s, body)
    BY <1>6 DEF RemovePermissions, Reached
  <2>2. References'
    BY <1>6, <2>1 DEF RemovePermissions, References, WellKept, Rows
  <2> QED BY <2>1, <2>2, NothingWritten, Answered DEF WellKept
<1>7. ASSUME AssignRole(a) PROVE Served
  <2>1. awaits[a] = "write" /\ UNCHANGED logs
    BY <1>7 DEF AssignRole, Reached
  <2>2. CASE Refuse(a, "NotFound") \/ Refuse(a, "Conflict")
    BY <2>1, <2>2, Refused
  <2>3. CASE /\ req[a].role \in Rows("role") /\ req[a].id \in Rows("user")
             /\ members' = members \union {<<req[a].id, req[a].role>>}
             /\ Answer(a, 200, Null) /\ UNCHANGED <<table, roleGrants>>
    <3>1. References'
      BY <2>3 DEF References, WellKept, Rows
    <3> QED BY <2>1, <2>3, <3>1, NothingWritten, Answered DEF WellKept
  <2> QED BY <1>7, <2>2, <2>3 DEF AssignRole
<1>8. ASSUME RemoveRole(a) PROVE Served
  <2>1. awaits[a] = "write" /\ UNCHANGED logs
    BY <1>8 DEF RemoveRole, Reached
  <2>2. CASE Refuse(a, "NotFound")
    BY <2>1, <2>2, Refused
  <2>3. CASE /\ members' = members \ {<<req[a].id, req[a].role>>}
             /\ Answer(a, 200, Null) /\ UNCHANGED <<table, roleGrants>>
    <3>1. References'
      BY <2>3 DEF References, WellKept, Rows
    <3> QED BY <2>1, <2>3, <3>1, NothingWritten, Answered DEF WellKept
  <2> QED BY <1>8, <2>2, <2>3 DEF RemoveRole
<1> QED
  BY <1>1, <1>2, <1>3, <1>4, <1>5, <1>6, <1>7, <1>8 DEF AssignmentSteps

LEMMA ClientChanges ==
  ASSUME NEW N, NEW T, NEW L, NEW R,
         R = [name : N, note : T, active : BOOLEAN, system : BOOLEAN, parts : L]
  PROVE  \A entry \in R : /\ entry.name \in N /\ entry.parts \in L
                        /\ [entry EXCEPT !.active = FALSE] \in R
                        /\ [entry EXCEPT !.active = FALSE].name = entry.name
                        /\ [entry EXCEPT !.active = FALSE].parts = entry.parts
OBVIOUS

LEMMA ClientRows ==
  \A entry \in RowsOf("client") :
    /\ entry.name \in Names \union Ids["client"] /\ entry.parts \in Lists
    /\ [entry EXCEPT !.active = FALSE] \in RowsOf("client")
    /\ [entry EXCEPT !.active = FALSE].name = entry.name
    /\ [entry EXCEPT !.active = FALSE].parts = entry.parts
<1> DEFINE N == Names \union Ids["client"]  R == RowsOf("client")
<1>1. R = [name : N, note : Texts, active : BOOLEAN, system : BOOLEAN, parts : Lists]
  BY KindFacts
<1> HIDE DEF N, R
<1>2. \A entry \in R :
        /\ entry.name \in N /\ entry.parts \in Lists
        /\ [entry EXCEPT !.active = FALSE] \in R
        /\ [entry EXCEPT !.active = FALSE].name = entry.name
        /\ [entry EXCEPT !.active = FALSE].parts = entry.parts
  BY <1>1, ClientChanges
<1> QED
  BY <1>2 DEF N, R

LEMMA ClientStep ==
  ASSUME WellKept, NEW a \in Admins, ClientSteps(a)
  PROVE  Served
<1> USE KindFacts
<1>1. ASSUME ClientRoutes(a) PROVE Served
  <2> PICK r \in Asks \intersect ClientRequests :
        /\ Idle(a) /\ Take(a) /\ UNCHANGED logs
        /\ \/ r.op = "create" /\ r.name = Blank /\ Refuse(a, "ValidationError")
           \/ r.op = "create" /\ r.name # Blank /\ Await(a, r, "insert")
           \/ r.op # "create" /\ Await(a, r, IF r.op \in {"list", "update"} THEN r.op ELSE "find")
    BY <1>1 DEF ClientRoutes
  <2>1. r.kind = "client" /\ awaits[a] # "page"
    BY RequestKinds DEF Idle
  <2>2. PICK to : to = IF r.op \in {"list", "update"} THEN r.op ELSE "find"
    OBVIOUS
  <2>3. \A read : HandlerAt(r, to, read)' /\ HandlerAt(r, "insert", read)'
    BY <2>1, <2>2 DEF HandlerAt, ClientAt
  <2> QED BY <2>1, <2>2, <2>3, Refused, Awaited
<1>2. ASSUME InsertClient(a) PROVE Served
  <2> DEFINE i == CHOOSE i \in FreshIds("client") : TRUE
             entry == ClientRow(i, ClientForm)
  <2>1. awaits[a] = "insert" /\ req[a].kind = "client" /\ UNCHANGED <<roleGrants, members, logs>>
    BY <1>2 DEF InsertClient, Reached
  <2>2. CASE Refuse(a, "ValidationError") \/ Refuse(a, "Database")
    BY <2>1, <2>2, Refused
  <2>3. CASE Insert("client", entry) /\ GoOn(a, "parts", i)
    <3>1. FreshIds("client") # {} /\ Put("client", i, entry)
      BY <2>3 DEF Insert
    <3>2. i \in Ids["client"] /\ i \notin SeedIds /\ i \notin Rows("client")
      BY <3>1, FreshFacts DEF WellKept
    <3>3. entry.name = i /\ entry.parts = ClientForm
      BY DEF ClientRow
    <3>4. entry \in RowsOf("client")
      BY <3>2, NotesAreTexts, StartUpAssumption DEF ClientRow
    <3> HIDE DEF entry
    <3>5. TablesGo
      BY <2>1, <3>1, <3>2, <3>3, <3>4, ClientWritten
    <3>6. i \in Rows("client")'
      BY <3>1, <3>2, <3>4, PutFacts DEF WellKept
    <3>7. PICK r, j : r = req[a] /\ j = i
      OBVIOUS
    <3>8. HandlerAt(r, "parts", j)'
      BY <2>1, <3>6, <3>7, HandlerFacts DEF HandlerAt, ClientAt
    <3> QED BY <2>3, <3>5, <3>7, <3>8, WentOn DEF WellKept
  <2> QED BY <1>2, <2>2, <2>3 DEF InsertClient
<1>3. ASSUME FindClient(a) PROVE Served
  <2>1. TablesGo /\ awaits[a] = "find" /\ req[a].kind = "client" /\ UNCHANGED <<table, logs>>
    BY <1>3, TablesUntouched DEF FindClient, Reached, tables
  <2>2. PICK r, i : r = req[a] /\ i = req[a].id
    OBVIOUS
  <2>3. i \in Rows("client") => HandlerAt(r, "parts", i)'
    BY <2>1, <2>2, HandlerFacts DEF HandlerAt, ClientAt, Rows
  <2> QED BY <1>3, <2>1, <2>2, <2>3, Refused, WentOn DEF FindClient, WellKept
<1>4. ASSUME FindClientParts(a) PROVE Served
  <2>1. TablesGo /\ awaits[a] = "parts" /\ req[a].kind = "client" /\ UNCHANGED <<table, logs>>
    BY <1>4, TablesUntouched DEF FindClientParts, Reached, tables
  <2>2. PICK r, i : r = req[a] /\ i = loaded[a]
    OBVIOUS
  <2>3. HandlerAt(r, "write", i)'
    BY <2>1, <2>2, HandlerFacts DEF HandlerAt, ClientAt, Rows
  <2>4. GoOn(a, "write", i) \/ \E body : Answer(a, 200, body)
    BY <1>4, <2>2 DEF FindClientParts
  <2> QED BY <2>1, <2>2, <2>3, <2>4, Answered, WentOn DEF WellKept
<1>5. ASSUME UpdateClient(a) PROVE Served
  <2>1. awaits[a] = "update"
    BY <1>5 DEF UpdateClient, Reached
  <2> QED BY <1>5, <2>1, Refused DEF UpdateClient
<1>6. ASSUME DeleteClient(a) PROVE Served
  <2> DEFINE i == loaded[a]
             entry == table["client"][i]
             new == [entry EXCEPT !.active = FALSE]
  <2>1. /\ awaits[a] = "write" /\ req[a].kind = "client" /\ UNCHANGED <<roleGrants, members, logs>>
        /\ Put("client", i, new) /\ Answer(a, 200, Null)
    BY <1>6 DEF DeleteClient, Reached
  <2>2. i \in Rows("client") /\ i \in Ids["client"] /\ entry \in RowsOf("client")
    BY <2>1, HandlerFacts, RowType DEF ClientAt, WellKept
  <2>3. new \in RowsOf("client") /\ new.name = entry.name /\ new.parts = entry.parts
    BY <2>2, ClientRows, Zenon
  <2> HIDE DEF new
  <2>4. TablesGo
    BY <2>1, <2>2, <2>3, ClientWritten
  <2> QED BY <2>1, <2>4, Answered DEF WellKept
<1>7. ASSUME ListClients(a) PROVE Served
  BY <1>7, Listed DEF ListClients
<1> QED
  BY <1>1, <1>2, <1>3, <1>4, <1>5, <1>6, <1>7 DEF ClientSteps

\* Every page that is counted begins before the last row, and the offset that
\* 32 bits leave of its beginning is no greater.
LEMMA PageHasRows ==
  ASSUME NEW n \in Nat, NEW total \in Nat, total <= n, NEW L \in Nat \ {0}, NEW P \in Nat \ {0},
         NEW offset \in Int, P <= Pages(total, L), offset <= ((P - 1) * L) % Word
  PROVE  Window(n, L, offset) > 0
<1>1. (P - 1) * L < total
  <2> DEFINE q == (total + L - 1) \div L
  <2>1. q \in Int /\ q * L <= total + L - 1 /\ P <= q
    BY DEF Pages
  <2> HIDE DEF q
  <2>2. P * L <= q * L
    BY <2>1
  <2>3. (P - 1) * L = P * L - L
    OBVIOUS
  <2> QED BY <2>1, <2>2, <2>3
<1>2. (P - 1) * L \in Nat
  OBVIOUS
<1>3. \A x \in Nat : x % Word <= x
  BY AdministrationAssumption
<1>4. offset < total
  <2>1. ((P - 1) * L) % Word <= (P - 1) * L /\ ((P - 1) * L) % Word \in Int
    BY <1>2, <1>3, AdministrationAssumption
  <2> QED BY <1>1, <1>2, <2>1
<1> DEFINE rest == IF offset < 0 THEN n ELSE IF offset > n THEN 0 ELSE n - offset
<1>5. rest \in Nat /\ rest > 0
  BY <1>1, <1>2, <1>4
<1> HIDE DEF rest
<1>6. Window(n, L, offset) = IF L < 0 \/ L > rest THEN rest ELSE L
  BY DEF Window, rest
<1> QED
  BY <1>5, <1>6

LEMMA ReadPageFacts ==
  ASSUME NEW r \in AuditRequests, r.op = "list", NEW n \in Nat, NEW total \in Nat, total <= n,
         PageNumber(r) <= Pages(total, PageLimit(r))
  PROVE  Window(n, PageLimit(r), PageOffset(r)) > 0
<1>1. r.page \in Nat /\ r.limit \in Nat
  BY DEF AuditRequests
<1>2. PageNumber(r) \in Nat \ {0} /\ PageLimit(r) \in Nat \ {0}
  BY <1>1, AdministrationAssumption DEF PageNumber, PageLimit, AtMost
<1>3. PageOffset(r) \in Int /\ PageOffset(r) <= ((PageNumber(r) - 1) * PageLimit(r)) % Word
  <2> DEFINE x == (PageNumber(r) - 1) * PageLimit(r)
  <2>1. x \in Nat
    BY <1>2
  <2> HIDE DEF x
  <2>2. x % Word \in Nat /\ Word \in Nat
    BY <2>1, AdministrationAssumption
  <2> QED BY <2>2 DEF PageOffset, x
<1> QED
  BY <1>2, <1>3, PageHasRows

LEMMA AuditStep ==
  ASSUME WellKept, NEW a \in Admins, AuditSteps(a)
  PROVE  Served
<1>1. ASSUME AuditRoutes(a) PROVE Served
  <2> PICK r \in Asks \intersect AuditRequests :
        Idle(a) /\ Await(a, r, IF r.op = "list" THEN "count" ELSE "export") /\ UNCHANGED logs
    BY <1>1 DEF AuditRoutes
  <2>1. r.kind = "audit"
    BY RequestKinds
  <2>2. PICK to : to = IF r.op = "list" THEN "count" ELSE "export"
    OBVIOUS
  <2>3. \A read : HandlerAt(r, to, read)'
    BY <2>1, <2>2 DEF HandlerAt, AuditAt
  <2> QED BY <2>2, <2>3, Awaited
<1>2. ASSUME CountLogs(a) PROVE Served
  <2>1. TablesGo /\ awaits[a] = "count" /\ req[a].kind = "audit" /\ UNCHANGED logs
    BY <1>2, TablesUntouched DEF CountLogs, Reached
  <2>2. PICK r, total : r = req[a] /\ total \in {0, logs} /\ GoOn(a, "page", total)
    BY <1>2 DEF CountLogs
  <2>3. total \in Nat /\ total <= logs
    BY <2>2 DEF WellKept, HandlersOK
  <2>4. HandlerAt(r, "page", total)'
    BY <2>1, <2>2, <2>3, HandlerFacts DEF HandlerAt, AuditAt
  <2> QED BY <2>1, <2>2, <2>4, WentOn DEF WellKept
<1>3. ASSUME ReadPage(a) PROVE Served
  <2>1. TablesGo /\ awaits[a] = "page" /\ req[a].kind = "audit" /\ UNCHANGED logs
    BY <1>3, TablesUntouched DEF ReadPage, Reached
  <2>2. req[a] \in AuditRequests /\ req[a].op = "list" /\ loaded[a] \in Nat /\ loaded[a] <= logs /\ logs \in Nat
    BY <2>1, HandlerFacts DEF AuditAt, WellKept, HandlersOK
  <2>3. PICK failed \in BOOLEAN :
          Answer(a, 200, [page |-> PageNumber(req[a]), failed |-> failed,
            pages |-> Pages(loaded[a], PageLimit(req[a])),
            size |-> IF failed THEN 0 ELSE Window(logs, PageLimit(req[a]), PageOffset(req[a]))])
    BY <1>3 DEF ReadPage
  <2>4. PageNumber(req[a]) <= Pages(loaded[a], PageLimit(req[a]))
          => Window(logs, PageLimit(req[a]), PageOffset(req[a])) > 0
    BY <2>2, ReadPageFacts
  <2>5. CountedPagesHaveRows'
    <3>1. last'.body = [page |-> PageNumber(req[a]), failed |-> failed,
            pages |-> Pages(loaded[a], PageLimit(req[a])),
            size |-> IF failed THEN 0 ELSE Window(logs, PageLimit(req[a]), PageOffset(req[a]))]
      BY <2>3 DEF Answer
    <3>2. /\ last'.body.page = PageNumber(req[a]) /\ last'.body.failed = failed
          /\ last'.body.pages = Pages(loaded[a], PageLimit(req[a]))
          /\ ~failed => last'.body.size = Window(logs, PageLimit(req[a]), PageOffset(req[a]))
      BY <3>1
    <3> QED BY <2>4, <3>2, Zenon DEF CountedPagesHaveRows
  <2>6. HandlersOK'
    <3>1. HandlerAt(Null, "idle", Null)'
      BY DEF HandlerAt
    <3> QED BY <2>1, <2>3, <3>1, HandlersGo DEF Answer, TablesGo, WellKept
  <2> QED BY <2>1, <2>5, <2>6 DEF Served
<1>4. ASSUME ExportLogs(a) PROVE Served
  <2>1. TablesGo /\ awaits[a] = "export"
    BY <1>4, TablesUntouched DEF ExportLogs, Reached
  <2> QED BY <1>4, <2>1, Answered DEF ExportLogs, WellKept
<1> QED
  BY <1>1, <1>2, <1>3, <1>4 DEF AuditSteps

LEMMA HandlersStay ==
  ASSUME HandlersOK, Stay, UNCHANGED <<awaits, req, loaded>>
  PROVE  HandlersOK'
<1>1. ASSUME NEW a \in Admins PROVE HandlerAt(req[a], awaits[a], loaded[a])'
  <2>1. PICK r, to, read : r = req[a] /\ to = awaits[a] /\ read = loaded[a]
    OBVIOUS
  <2>2. HandlerAt(r, to, read) /\ logs \in Nat
    BY <2>1 DEF HandlersOK
  <2>3. HandlerAt(r, to, read)'
    BY <2>2, HandlerStays
  <2> QED
    BY <2>1, <2>3, Zenon DEF HandlerAt, UserAt, RoleAt, PermissionAt, ClientAt, AuditAt, Rows
<1> QED
  BY <1>1 DEF HandlersOK, Stay

LEMMA ServeStep ==
  ASSUME WellKept, Serve
  PROVE  Served
<1>1. ASSUME NEW a \in Admins, AdminSteps(a) PROVE Served
  BY <1>1, UserStep, RoleStep, PermissionStep, AssignmentStep, ClientStep, AuditStep, Zenon DEF AdminSteps
<1>2. ASSUME Record PROVE Served
  <2>1. UNCHANGED table /\ References' /\ logs' = logs + 1 /\ logs \in Nat
    BY <1>2 DEF Record, tables, References, WellKept, HandlersOK, Rows
  <2>2. TablesGo
    BY <2>1 DEF WellKept, TablesGo, TablesOK, Stay, ClientsGo, Rows
  <2>3. HandlersOK'
    BY <1>2, <2>2, HandlersStay DEF Record, TablesGo, WellKept
  <2>4. CountedPagesHaveRows'
    BY <1>2 DEF Record, CountedPagesHaveRows
  <2> QED BY <2>2, <2>3, <2>4 DEF Served
<1> QED
  BY <1>1, <1>2 DEF Serve

-----------------------------------------------------------------------------
(* The starts.                                                             *)

Ran(j) == phase \in {"user", "roles", "permissions", "grants", "clients", "scopes", "serving"}
            \/ (phase = "migrate" /\ j < next)

\* A client of the migrations: no more than they list for it, and what they
\* have listed in this start.
SeededClient(i) ==
  LET c == table["client"][i] IN
  /\ \E j \in DOMAIN Migrations : AddsClient(j) /\ Migrations[j].id = i /\ Migrations[j].name = c.name
  /\ \A p \in Parts : c.parts[p] \subseteq Migrated(c.name)[p]
  /\ \A j \in DOMAIN Migrations :
       Migrations[j].op = "list" /\ Migrations[j].client = c.name /\ Ran(j)
         => Migrations[j].values \subseteq c.parts[Migrations[j].part]

\* Any other client has a name that the migrations do not know.
OtherClient(i) ==
  LET c == table["client"][i] IN
  /\ \A j \in DOMAIN Migrations : AddsClient(j) => Migrations[j].name # c.name
  /\ \/ c.name = i /\ c.parts = ClientForm
     \/ /\ c.name \in {SeedClients[j] : j \in DOMAIN SeedClients}
        /\ \E j \in 0..Len(SeedLists) : c.parts = Beginning(j)

\* Every client is one or the other, and those that the migrations have added
\* in this start are there.
ClientsOK ==
  /\ \A i \in Rows("client") : IF i \in SeedIds THEN SeededClient(i) ELSE OtherClient(i)
  /\ \A j \in DOMAIN Migrations :
       AddsClient(j) /\ Ran(j) => Named("client", Migrations[j].name) # {}

\* Between two lists of a client that db.rs adds, it has a beginning of them.
HalfAdded ==
  phase = "clients" /\ todo # Null =>
    \E j \in 0..Len(SeedLists), i \in Rows("client") :
      /\ todo \in Seq(Listings) /\ j + Len(todo) = Len(SeedLists)
      /\ \A h \in 1..Len(todo) : todo[h] = SeedLists[j + h]
      /\ next <= Len(SeedClients) /\ Named("client", SeedClients[next]) = {i} /\ i \notin SeedIds
      /\ table["client"][i].parts = Beginning(j)

\* What the later stages refer to is there.
SeedsThere ==
  /\ phase \in {"roles", "permissions", "grants"} => Named("user", SeedUser) # {}
  /\ phase = "roles" => \A j \in 1..(next - 1) : Named("role", SeedRoles[j]) # {}
  /\ phase \in {"permissions", "grants"} => Named("role", AdminRole) # {}
  /\ phase = "grants" /\ todo # Null => todo \subseteq Rows("permission")

\* The inductive invariant of the starts and of the serving between them.
BootInv ==
  /\ WellKept /\ CountedPagesHaveRows /\ next \in Nat \ {0}
  /\ ClientsOK /\ HalfAdded /\ SeedsThere

\* What a start may do to the rows of the tables.
RowsStay ==
  \A k \in Kinds : \A i \in Rows(k) :
    /\ i \in Rows(k)' /\ table'[k][i].name = table[k][i].name
    /\ \/ table'[k][i] = table[k][i]
       \/ k = "client" /\ table'[k][i] = [table[k][i] EXCEPT !.parts = table'[k][i].parts]

OnlyAdded == TablesOK' /\ RowsStay
RelationsStay == roleGrants \subseteq roleGrants' /\ members \subseteq members'

LEMMA NamesStay ==
  ASSUME RowsStay, NEW k \in Kinds, NEW n
  PROVE  Named(k, n) \subseteq Named(k, n)' /\ Rows(k) \subseteq Rows(k)'
BY DEF RowsStay, Named

LEMMA NoneAdded ==
  ASSUME TablesOK, UNCHANGED table
  PROVE  OnlyAdded
BY DEF OnlyAdded, RowsStay, TablesOK, Rows

LEMMA RowAdded ==
  ASSUME TablesOK, NEW k \in Kinds, NEW i \in Ids[k], i \notin Rows(k), NEW entry \in RowsOf(k),
         Put(k, i, entry)
  PROVE  OnlyAdded
<1>1. /\ TablesOK' /\ \A h \in Kinds : Rows(h) \subseteq Rows(h)'
      /\ \A h \in Kinds : \A j \in Ids[h] : h # k \/ j # i => table'[h][j] = table[h][j]
  BY PutFacts
<1>2. \A h \in Kinds : Rows(h) \subseteq Ids[h]
  BY RowType
<1> QED
  BY <1>1, <1>2 DEF OnlyAdded, RowsStay

\* A client's row with one of its lists written anew.
Relisted(entry, p, v) == [entry EXCEPT !.parts[p] = v]

LEMMA ClientListed ==
  ASSUME NEW entry \in RowsOf("client"), NEW p \in Parts, NEW v \in SUBSET Values
  PROVE  LET new == Relisted(entry, p, v) IN
         /\ new \in RowsOf("client") /\ new.name = entry.name /\ new.parts = [entry.parts EXCEPT ![p] = v]
         /\ new = [entry EXCEPT !.parts = new.parts]
<1> DEFINE N == Names \union Ids["client"]  R == RowsOf("client")
<1>1. R = [name : N, note : Texts, active : BOOLEAN, system : BOOLEAN, parts : [Parts -> SUBSET Values]]
  BY KindFacts DEF Lists
<1>2. entry \in R
  OBVIOUS
<1> HIDE DEF N, R
<1>3. entry.parts \in [Parts -> SUBSET Values]
  BY <1>1, <1>2
<1>4. PICK parts \in [Parts -> SUBSET Values] : parts = [entry.parts EXCEPT ![p] = v]
  BY <1>3
<1>5. Relisted(entry, p, v) = [entry EXCEPT !.parts = parts]
  BY <1>4 DEF Relisted
<1>6. /\ [entry EXCEPT !.parts = parts] \in R
      /\ [entry EXCEPT !.parts = parts].name = entry.name /\ [entry EXCEPT !.parts = parts].parts = parts
  BY <1>1, <1>2
<1> QED
  BY <1>4, <1>5, <1>6 DEF R

LEMMA WithListFacts ==
  ASSUME NEW entry \in RowsOf("client"), NEW s, s.part \in Parts, s.values \in SUBSET Values
  PROVE  /\ WithList(entry, s) \in RowsOf("client") /\ WithList(entry, s).name = entry.name
         /\ WithList(entry, s) = [entry EXCEPT !.parts = WithList(entry, s).parts]
         /\ \A p \in Parts : WithList(entry, s).parts[p] = IF p = s.part THEN entry.parts[p] \union s.values ELSE entry.parts[p]
<1>1. entry.parts \in [Parts -> SUBSET Values]
  BY ClientRows DEF Lists
<1>2. PICK p, v : p = s.part /\ v = entry.parts[s.part] \union s.values
  OBVIOUS
<1>3. p \in Parts /\ v \in SUBSET Values
  BY <1>1, <1>2
<1>4. WithList(entry, s) = Relisted(entry, p, v)
  BY <1>2 DEF WithList, Relisted
<1>5. PICK new : new = Relisted(entry, p, v)
  OBVIOUS
<1>6. /\ new \in RowsOf("client") /\ new.name = entry.name /\ new.parts = [entry.parts EXCEPT ![p] = v]
      /\ new = [entry EXCEPT !.parts = new.parts]
  BY <1>3, <1>5, ClientListed
<1>7. \A q \in Parts : new.parts[q] = IF q = p THEN v ELSE entry.parts[q]
  BY <1>1, <1>6
<1> QED
  BY <1>2, <1>4, <1>5, <1>6, <1>7, Zenon

LEMMA SeedRowType ==
  ASSUME NEW k \in Kinds, NEW name \in Names
  PROVE  /\ SeedRow(k, name) \in RowsOf(k) /\ SeedRow(k, name).name = name
         /\ k = "client" => SeedRow(k, name).parts = [p \in Parts |-> {}]
<1>1. ASSUME k = "client"
      PROVE  /\ SeedRow(k, name) \in RowsOf(k) /\ SeedRow(k, name).name = name
             /\ SeedRow(k, name).parts = [p \in Parts |-> {}]
  <2>1. PICK none : none = [p \in Parts |-> {}]
    OBVIOUS
  <2>2. none \in Lists
    BY <2>1 DEF Lists
  <2>3. SeedRow(k, name) = [name |-> name, note |-> Null, active |-> TRUE, system |-> FALSE, parts |-> none]
    BY <1>1, <2>1, Zenon DEF SeedRow, ClientRow
  <2>4. SeedRow(k, name) \in RowsOf("client")
    BY <2>2, <2>3, KindFacts, NotesAreTexts
  <2>5. SeedRow(k, name).name = name /\ SeedRow(k, name).parts = none
    BY <2>3
  <2> QED
    BY <1>1, <2>1, <2>4, <2>5
<1>2. ASSUME k # "client"
      PROVE  SeedRow(k, name) \in RowsOf(k) /\ SeedRow(k, name).name = name
  <2>1. k = "user" \/ k \in {"role", "permission"}
    BY <1>2 DEF Kinds
  <2>2. ASSUME NEW system \in BOOLEAN, (k \in {"role", "permission"}) = system
        PROVE  SeedRow(k, name) \in RowsOf(k) /\ SeedRow(k, name).name = name
    <3>1. SeedRow(k, name) = [name |-> name, note |-> "seed", active |-> TRUE, system |-> system]
      BY <1>2, <2>2, Zenon DEF SeedRow, Row
    <3>2. RowsOf(k) = [name : Names, note : Texts, active : BOOLEAN, system : BOOLEAN]
      BY <1>2, KindFacts
    <3>3. "seed" \in Texts
      BY NotesAreTexts
    <3>4. [name |-> name, note |-> "seed", active |-> TRUE, system |-> system]
            \in [name : Names, note : Texts, active : BOOLEAN, system : BOOLEAN]
      BY <3>3
    <3> QED
      BY <3>1, <3>2, <3>4
  <2>3. ASSUME k = "user" PROVE (k \in {"role", "permission"}) = FALSE
    BY <2>3
  <2>4. ASSUME k \in {"role", "permission"} PROVE (k \in {"role", "permission"}) = TRUE
    BY <2>4
  <2> QED
    BY <2>1, <2>2, <2>3, <2>4
<1> QED BY <1>1, <1>2

LEMMA ReferencesStay ==
  ASSUME References, RowsStay,
         roleGrants' \subseteq roleGrants \union (Rows("role") \X Rows("permission")),
         members' \subseteq members \union (Rows("user") \X Rows("role"))
  PROVE  References'
<1>1. Rows("user") \subseteq Rows("user")' /\ Rows("role") \subseteq Rows("role")'
      /\ Rows("permission") \subseteq Rows("permission")'
  BY NamesStay, KindFacts
<1> QED
  BY <1>1 DEF References

LEMMA StillWellKept ==
  ASSUME WellKept, CountedPagesHaveRows, OnlyAdded, References', NoRequest
  PROVE  WellKept' /\ CountedPagesHaveRows'
<1>1. Stay
  BY NamesStay, KindFacts DEF OnlyAdded, Stay, NoRequest, WellKept, HandlersOK
<1>2. HandlersOK'
  BY <1>1, HandlersStay DEF NoRequest, handlers, WellKept
<1>3. CountedPagesHaveRows'
  BY DEF NoRequest, handlers, CountedPagesHaveRows
<1> QED
  BY <1>2, <1>3 DEF WellKept, OnlyAdded

\* What the assumptions say of one statement of the migrations.
LEMMA StatementFacts ==
  ASSUME NEW j \in DOMAIN Migrations
  PROVE  LET s == Migrations[j] IN
         /\ s.op \in {"insert", "list", "grant", "member"}
         /\ s.op = "insert" => s.kind \in Kinds /\ s.id \in SeedIds /\ s.id \in Ids[s.kind] /\ s.name \in Names
         /\ s.op = "list" => s.client \in Names /\ s.part \in Parts /\ s.values \in SUBSET Values
<1>1. Migrations[j] \in Statements
  BY StartUpAssumption
<1>2. \A s \in Statements :
        /\ s.op \in {"insert", "list", "grant", "member"}
        /\ s.op = "insert" => s.kind \in Kinds /\ s.id \in SeedIds /\ s.name \in Names
        /\ s.op = "list" => /\ s.client \in Names /\ s.part \in Parts
                            /\ s.values \in SUBSET Values
  BY DEF Statements
<1> QED
  BY <1>1, <1>2, MigrationsAssumption

LEMMA MigratedFacts ==
  ASSUME NEW n
  PROVE  /\ Migrated(n) = [p \in Parts |-> Migrated(n)[p]]
         /\ \A j \in DOMAIN Migrations :
              Migrations[j].op = "list" /\ Migrations[j].client = n
                => Migrations[j].part \in Parts /\ Migrations[j].values \subseteq Migrated(n)[Migrations[j].part]
         /\ \A p \in Parts : \A v \in Migrated(n)[p] : \E j \in DOMAIN Migrations :
              /\ Migrations[j].op = "list" /\ Migrations[j].client = n /\ Migrations[j].part = p
              /\ v \in Migrations[j].values
<1>1. \A j \in DOMAIN Migrations : Migrations[j].op = "list" => Migrations[j].part \in Parts
  BY StatementFacts
<1> QED
  BY <1>1 DEF Migrated

LEMMA ClientsUntouched ==
  ASSUME TablesOK, ClientsOK, table'["client"] = table["client"],
         \A j \in DOMAIN Migrations : Ran(j)' => Ran(j) \/ (~AddsClient(j) /\ Migrations[j].op # "list")
  PROVE  ClientsOK'
<1>1. Rows("client")' = Rows("client") /\ \A n : Named("client", n)' = Named("client", n)
  BY DEF Rows, Named
<1>2. ASSUME NEW i \in Rows("client"), SeededClient(i) PROVE SeededClient(i)'
  BY <1>2 DEF SeededClient
<1>3. ASSUME NEW i \in Rows("client"), OtherClient(i) PROVE OtherClient(i)'
  BY <1>3, Zenon DEF OtherClient
<1> QED
  BY <1>1, <1>2, <1>3 DEF ClientsOK

LEMMA ClientAdded ==
  ASSUME TablesOK, ClientsOK, phase = "migrate", phase' = "migrate", next \in Nat \ {0}, next' = next + 1,
         next \in DOMAIN Migrations, AddsClient(next), InsertOrIgnore(Migrations[next])
  PROVE  ClientsOK'
<1>0. PICK s : s = Migrations[next]
  OBVIOUS
<1>1. s.op = "insert" /\ s.kind = "client" /\ s.id \in SeedIds /\ s.id \in Ids["client"] /\ s.name \in Names
  BY <1>0, StatementFacts DEF AddsClient
<1>2. \A j \in DOMAIN Migrations : (Ran(j) <=> j < next) /\ (Ran(j)' <=> j < next \/ j = next)
  BY StartUpAssumption DEF Ran
<1>3. CASE UNCHANGED table /\ (s.id \in Rows("client") \/ Named("client", s.name) # {})
  <2>1. Named("client", s.name) # {}
    <3>1. SUFFICES ASSUME s.id \in Rows("client") PROVE s.id \in Named("client", s.name)
      BY <1>3
    <3>2. PICK j \in DOMAIN Migrations :
            AddsClient(j) /\ Migrations[j].id = s.id /\ Migrations[j].name = table["client"][s.id].name
      BY <1>1, <3>1 DEF ClientsOK, SeededClient
    <3>3. Migrations[j].name = s.name
      BY <1>0, <3>2, MigrationsAssumption
    <3> QED BY <3>1, <3>2, <3>3 DEF Named
  <2>2. Rows("client")' = Rows("client") /\ \A n : Named("client", n)' = Named("client", n)
    BY <1>3 DEF Rows, Named
  <2>3. \A j \in DOMAIN Migrations : Migrations[j].op = "list" /\ Ran(j)' => Ran(j)
    BY <1>0, <1>1, <1>2
  <2>4. ASSUME NEW i \in Rows("client"), SeededClient(i) PROVE SeededClient(i)'
    BY <1>3, <2>3, <2>4 DEF SeededClient
  <2>5. ASSUME NEW i \in Rows("client"), OtherClient(i) PROVE OtherClient(i)'
    BY <1>3, <2>5, Zenon DEF OtherClient
  <2>6. ASSUME NEW j \in DOMAIN Migrations, AddsClient(j), Ran(j)'
        PROVE  Named("client", Migrations[j].name)' # {}
    BY <1>0, <1>2, <2>1, <2>2, <2>6 DEF ClientsOK
  <2> QED
    BY <2>2, <2>4, <2>5, <2>6 DEF ClientsOK
<1>4. CASE /\ s.id \notin Rows("client") /\ Named("client", s.name) = {}
           /\ Put("client", s.id, SeedRow("client", s.name))
  <2> DEFINE new == SeedRow("client", s.name)
  <2>1. /\ new \in RowsOf("client") /\ new.name = s.name /\ new.parts = [p \in Parts |-> {}]
        /\ Put("client", s.id, new)
    BY <1>1, <1>4, SeedRowType, KindFacts
  <2> HIDE DEF new
  <2>2. /\ table'["client"][s.id] = new /\ Rows("client")' = Rows("client") \union {s.id}
        /\ \A i \in Rows("client") : table'["client"][i] = table["client"][i]
    BY <1>1, <1>4, <2>1, PutFacts, RowType, KindFacts
  <2>3. \A n : Named("client", n) \subseteq Named("client", n)'
    BY <2>2 DEF Named
  <2>4. s.id \in Named("client", s.name)'
    <3>1. s.id \in Rows("client")' /\ table'["client"][s.id].name = s.name
      BY <2>1, <2>2
    <3> QED BY <3>1, Zenon DEF Named
  <2>5. \A j \in DOMAIN Migrations : Migrations[j].op = "list" /\ Ran(j)' => Ran(j)
    BY <1>0, <1>1, <1>2
  <2>6. ASSUME NEW i \in Rows("client"), SeededClient(i) PROVE SeededClient(i)'
    BY <2>2, <2>5, <2>6 DEF SeededClient
  <2>7. ASSUME NEW i \in Rows("client"), OtherClient(i) PROVE OtherClient(i)'
    BY <2>2, <2>7, Zenon DEF OtherClient
  <2>8. SeededClient(s.id)'
    <3>1. \A j \in DOMAIN Migrations : ~(Migrations[j].op = "list" /\ Migrations[j].client = s.name /\ Ran(j)')
      <4> SUFFICES ASSUME NEW j \in DOMAIN Migrations, Migrations[j].op = "list",
                          Migrations[j].client = s.name, Ran(j)'
                   PROVE  FALSE
        OBVIOUS
      <4>1. PICK h \in 1..(j - 1) : AddsClient(h) /\ Migrations[h].name = s.name
        BY MigrationsAssumption
      <4>2. j < next /\ DOMAIN Migrations = 1..Len(Migrations) /\ Len(Migrations) \in Nat
        BY <1>2, <2>5, StartUpAssumption
      <4>3. h \in DOMAIN Migrations /\ h < next
        BY <4>2
      <4> QED BY <1>2, <1>4, <4>1, <4>3 DEF ClientsOK
    <3>2. \E j \in DOMAIN Migrations : AddsClient(j) /\ Migrations[j].id = s.id /\ Migrations[j].name = s.name
      BY <1>0
    <3> QED BY <2>1, <2>2, <3>1, <3>2 DEF SeededClient
  <2>9. ASSUME NEW j \in DOMAIN Migrations, AddsClient(j), Ran(j)'
        PROVE  Named("client", Migrations[j].name)' # {}
    BY <1>0, <1>2, <2>3, <2>4, <2>9 DEF ClientsOK
  <2> QED
    BY <1>1, <2>2, <2>6, <2>7, <2>8, <2>9 DEF ClientsOK
<1> QED
  BY <1>0, <1>1, <1>3, <1>4 DEF InsertOrIgnore

\* A statement that lists values of a client.
LEMMA ListsWritten ==
  ASSUME TablesOK, NEW s, s.part \in Parts, s.values \in SUBSET Values,
         table' = [table EXCEPT !["client"] = [i \in Ids["client"] |->
           IF i \in Named("client", s.client) THEN WithList(@[i], s) ELSE @[i]]]
  PROVE  /\ OnlyAdded
         /\ Rows("client")' = Rows("client")
         /\ \A i \in Rows("client") :
              table'["client"][i] =
                IF i \in Named("client", s.client) THEN WithList(table["client"][i], s) ELSE table["client"][i]
<1>1. /\ DOMAIN table' = Kinds /\ \A k \in Kinds : k # "client" => table'[k] = table[k]
      /\ table'["client"] = [i \in Ids["client"] |->
           IF i \in Named("client", s.client) THEN WithList(table["client"][i], s) ELSE table["client"][i]]
  BY KindFacts DEF TablesOK
<1>2. /\ DOMAIN table'["client"] = Ids["client"]
      /\ \A i \in Ids["client"] : table'["client"][i] =
           IF i \in Named("client", s.client) THEN WithList(table["client"][i], s) ELSE table["client"][i]
  BY <1>1
<1>3. \A i \in Rows("client") : table["client"][i] \in RowsOf("client") /\ i \in Ids["client"]
  BY RowType, KindFacts
<1>4. \A i \in Named("client", s.client) : i \in Rows("client")
  BY DEF Named
<1>5. \A i \in Ids["client"] : table'["client"][i] \in RowsOf("client") \union {Unused, Gone}
  BY <1>2, <1>3, <1>4, WithListFacts, KindFacts DEF TablesOK
<1>6. TablesOK'
  BY <1>1, <1>2, <1>5 DEF TablesOK
<1>7. Rows("client")' = Rows("client")
  <2>1. \A i \in Ids["client"] : table'["client"][i] \in {Unused, Gone} <=> table["client"][i] \in {Unused, Gone}
    BY <1>2, <1>3, <1>4, WithListFacts, KindFacts
  <2> QED BY <2>1 DEF Rows
<1>8. \A i \in Rows("client") :
        /\ table'["client"][i].name = table["client"][i].name
        /\ \/ table'["client"][i] = table["client"][i]
           \/ table'["client"][i] = [table["client"][i] EXCEPT !.parts = table'["client"][i].parts]
  <2> SUFFICES ASSUME NEW i \in Rows("client")
               PROVE  /\ table'["client"][i].name = table["client"][i].name
                      /\ \/ table'["client"][i] = table["client"][i]
                         \/ table'["client"][i] = [table["client"][i] EXCEPT !.parts = table'["client"][i].parts]
    OBVIOUS
  <2> DEFINE old == table["client"][i]  new == WithList(old, s)
  <2>1. new.name = old.name /\ new = [old EXCEPT !.parts = new.parts]
    BY <1>3, WithListFacts
  <2>2. table'["client"][i] = new \/ table'["client"][i] = old
    BY <1>2, <1>3
  <2> HIDE DEF new
  <2> QED BY <2>1, <2>2, Zenon
<1>9. \A k \in Kinds : k # "client" => Rows(k)' = Rows(k)
  BY <1>1 DEF Rows
<1>10. RowsStay
  <2>1. ASSUME NEW k \in Kinds, k # "client", NEW i \in Rows(k)
        PROVE  i \in Rows(k)' /\ table'[k][i] = table[k][i]
    BY <1>1, <1>9, <2>1
  <2> QED BY <1>7, <1>8, <2>1, Zenon DEF RowsStay
<1> QED
  BY <1>2, <1>3, <1>6, <1>7, <1>10 DEF OnlyAdded

LEMMA ClientsListed ==
  ASSUME TablesOK, ClientsOK, phase = "migrate", phase' = "migrate", next \in Nat \ {0}, next' = next + 1,
         NEW s, next \in DOMAIN Migrations, s = Migrations[next], s.op = "list",
         table' = [table EXCEPT !["client"] = [i \in Ids["client"] |->
           IF i \in Named("client", s.client) THEN WithList(@[i], s) ELSE @[i]]]
  PROVE  ClientsOK'
<1>1. s.client \in Names /\ s.part \in Parts /\ s.values \in SUBSET Values
  BY StatementFacts
<1>2. /\ OnlyAdded /\ Rows("client")' = Rows("client")
      /\ \A i \in Rows("client") : table'["client"][i] =
           IF i \in Named("client", s.client) THEN WithList(table["client"][i], s) ELSE table["client"][i]
  BY <1>1, ListsWritten
<1>3. \A i \in Rows("client") : table["client"][i] \in RowsOf("client")
  BY RowType, KindFacts
<1>4. \A i \in Rows("client") :
        /\ table'["client"][i].name = table["client"][i].name
        /\ i \notin Named("client", s.client) => table'["client"][i].parts = table["client"][i].parts
        /\ i \in Named("client", s.client) =>
             \A p \in Parts : table'["client"][i].parts[p] =
               IF p = s.part THEN table["client"][i].parts[p] \union s.values ELSE table["client"][i].parts[p]
  <2> SUFFICES ASSUME NEW i \in Rows("client")
               PROVE  /\ table'["client"][i].name = table["client"][i].name
                      /\ i \notin Named("client", s.client) =>
                           table'["client"][i].parts = table["client"][i].parts
                      /\ i \in Named("client", s.client) =>
                           \A p \in Parts : table'["client"][i].parts[p] =
                             IF p = s.part THEN table["client"][i].parts[p] \union s.values
                             ELSE table["client"][i].parts[p]
    OBVIOUS
  <2>1. PICK old, new : old = table["client"][i] /\ new = table'["client"][i]
    OBVIOUS
  <2>2. old \in RowsOf("client") /\ new = IF i \in Named("client", s.client) THEN WithList(old, s) ELSE old
    BY <1>2, <1>3, <2>1
  <2>3. CASE i \in Named("client", s.client)
    <3>1. new = WithList(old, s)
      BY <2>2, <2>3
    <3>2. /\ new.name = old.name
          /\ \A p \in Parts : new.parts[p] = IF p = s.part THEN old.parts[p] \union s.values ELSE old.parts[p]
      BY <1>1, <2>2, <3>1, WithListFacts
    <3> QED BY <2>1, <2>3, <3>2, Zenon
  <2>4. CASE i \notin Named("client", s.client)
    BY <2>1, <2>2, <2>4
  <2> QED BY <2>3, <2>4
<1>5. \A n : Named("client", n)' = Named("client", n)
  BY <1>2, <1>4 DEF Named
<1>6. \A j \in DOMAIN Migrations : /\ Ran(j)' => Ran(j) \/ Migrations[j] = s
                                   /\ j < next => Ran(j)
  <2>1. \A j \in Nat : j < next + 1 => j < next \/ j = next
    OBVIOUS
  <2>2. DOMAIN Migrations \subseteq Nat
    BY StartUpAssumption
  <2> QED BY <2>1, <2>2 DEF Ran
<1>7. \A i \in Named("client", s.client) : ~OtherClient(i)
  <2>1. PICK h \in 1..(next - 1) : AddsClient(h) /\ Migrations[h].name = s.client
    BY MigrationsAssumption
  <2>2. DOMAIN Migrations = 1..Len(Migrations) /\ Len(Migrations) \in Nat
    BY StartUpAssumption
  <2>3. h \in DOMAIN Migrations
    BY <2>2
  <2> QED BY <2>1, <2>3 DEF OtherClient, Named
<1>8. ASSUME NEW i \in Rows("client"), OtherClient(i) PROVE OtherClient(i)'
  <2>1. table'["client"][i] = table["client"][i]
    BY <1>2, <1>7, <1>8
  <2> QED BY <1>8, <2>1, Zenon DEF OtherClient
<1>9. ASSUME NEW i \in Rows("client"), SeededClient(i) PROVE SeededClient(i)'
  <2>1. \E j \in DOMAIN Migrations :
          AddsClient(j) /\ Migrations[j].id = i /\ Migrations[j].name = table'["client"][i].name
    BY <1>4, <1>9 DEF SeededClient
  <2>2. PICK old, new, name : old = table["client"][i].parts /\ new = table'["client"][i].parts
                              /\ name = table["client"][i].name
    OBVIOUS
  <2>3. \/ name # s.client /\ new = old
        \/ name = s.client /\ \A p \in Parts : new[p] = IF p = s.part THEN old[p] \union s.values ELSE old[p]
    <3>1. i \in Named("client", s.client) <=> name = s.client
      BY <2>2 DEF Named
    <3> QED BY <1>4, <2>2, <3>1
  <2>4. name = s.client => s.values \subseteq Migrated(name)[s.part]
    BY MigratedFacts
  <2>5. \A p \in Parts : new[p] \subseteq Migrated(name)[p]
    <3>1. \A p \in Parts : old[p] \subseteq Migrated(name)[p]
      BY <1>9, <2>2, Zenon DEF SeededClient
    <3> QED BY <2>3, <2>4, <3>1
  <2>6. ASSUME NEW j \in DOMAIN Migrations, Migrations[j].op = "list", Migrations[j].client = name, Ran(j)'
        PROVE  Migrations[j].values \subseteq new[Migrations[j].part]
    <3>1. Migrations[j].part \in Parts
      BY <2>6, StatementFacts
    <3>2. ASSUME Ran(j) PROVE Migrations[j].values \subseteq old[Migrations[j].part]
      BY <1>9, <2>2, <2>6, <3>2 DEF SeededClient
    <3>3. ASSUME Migrations[j] = s PROVE Migrations[j].values \subseteq new[Migrations[j].part]
      BY <2>3, <2>6, <3>1, <3>3
    <3> QED BY <1>6, <2>3, <2>6, <3>1, <3>2, <3>3
  <2>7. table'["client"][i].name = name
    BY <1>4, <2>2
  <2> QED BY <2>1, <2>2, <2>5, <2>6, <2>7, Zenon DEF SeededClient
<1>10. ASSUME NEW j \in DOMAIN Migrations, AddsClient(j), Ran(j)'
       PROVE  Named("client", Migrations[j].name)' # {}
  <2>1. Ran(j)
    BY <1>6, <1>10 DEF AddsClient
  <2> QED BY <1>5, <1>10, <2>1 DEF ClientsOK
<1> QED
  BY <1>2, <1>8, <1>9, <1>10 DEF ClientsOK

LEMMA SeedClientFacts ==
  ASSUME next \in Nat \ {0}, next <= Len(SeedClients)
  PROVE  next \in DOMAIN SeedClients /\ SeedClients[next] \in Names
BY SeedsAssumption

\* db.rs adds a client that is not there.
LEMMA ClientSeeded ==
  ASSUME TablesOK, ClientsOK, phase = "clients", phase' = "clients",
         NEW n \in {SeedClients[j] : j \in DOMAIN SeedClients}, Named("client", n) = {},
         Insert("client", SeedRow("client", n))
  PROVE  /\ OnlyAdded /\ ClientsOK'
         /\ \E i \in Rows("client")' :
              /\ Named("client", n)' = {i} /\ i \notin SeedIds
              /\ table'["client"][i].parts = Beginning(0)
<1>1. n \in Names
  BY SeedsAssumption
<1>2. PICK i, new : i = (CHOOSE j \in FreshIds("client") : TRUE) /\ new = SeedRow("client", n)
  OBVIOUS
<1>3. /\ i \in Ids["client"] /\ i \notin SeedIds /\ i \notin Rows("client")
      /\ Put("client", i, new)
  BY <1>2, FreshFacts, KindFacts DEF Insert
<1>4. /\ new \in RowsOf("client") /\ new.name = n /\ new.parts = [p \in Parts |-> {}]
  BY <1>1, <1>2, SeedRowType, KindFacts
<1>5. new.parts = Beginning(0)
  BY <1>4 DEF Beginning
<1>6. OnlyAdded
  BY <1>3, <1>4, RowAdded, KindFacts
<1>7. /\ table'["client"][i] = new /\ Rows("client")' = Rows("client") \union {i}
      /\ \A h \in Rows("client") : table'["client"][h] = table["client"][h]
  BY <1>3, <1>4, PutFacts, RowType, KindFacts
<1>8. Named("client", n)' = {i}
  BY <1>4, <1>7 DEF Named
<1>9. \A m : Named("client", m) \subseteq Named("client", m)'
  BY <1>6, NamesStay, KindFacts DEF OnlyAdded
<1>10. \A j \in DOMAIN Migrations : Ran(j) /\ Ran(j)'
  BY DEF Ran
<1>11. ASSUME NEW h \in Rows("client"), SeededClient(h) PROVE SeededClient(h)'
  BY <1>7, <1>10, <1>11 DEF SeededClient
<1>12. ASSUME NEW h \in Rows("client"), OtherClient(h) PROVE OtherClient(h)'
  BY <1>7, <1>12, Zenon DEF OtherClient
<1>13. OtherClient(i)'
  <2>1. \A j \in DOMAIN Migrations : AddsClient(j) => Migrations[j].name # n
    BY <1>10 DEF ClientsOK
  <2>2. 0 \in 0..Len(SeedLists)
    BY SeedsAssumption
  <2> QED BY <1>4, <1>5, <1>7, <2>1, <2>2 DEF OtherClient
<1>14. ClientsOK'
  BY <1>3, <1>7, <1>9, <1>10, <1>11, <1>12, <1>13 DEF ClientsOK
<1>15. i \in Rows("client")'
  BY <1>7
<1> QED
  BY <1>3, <1>5, <1>6, <1>7, <1>8, <1>14, <1>15

LEMMA NextBeginning ==
  ASSUME NEW j \in Nat, j + 1 \in DOMAIN SeedLists, NEW p \in Parts
  PROVE  Beginning(j + 1)[p] = IF p = SeedLists[j + 1].part THEN Beginning(j)[p] \union SeedLists[j + 1].values
                               ELSE Beginning(j)[p]
<1>1. /\ Beginning(j)[p] = UNION {SeedLists[h].values : h \in {h \in 1..j : SeedLists[h].part = p}}
      /\ Beginning(j + 1)[p] = UNION {SeedLists[h].values : h \in {h \in 1..(j + 1) : SeedLists[h].part = p}}
  BY DEF Beginning
<1>2. \A h : h \in 1..(j + 1) <=> h \in 1..j \/ h = j + 1
  OBVIOUS
<1>3. CASE p = SeedLists[j + 1].part
  <2>1. {h \in 1..(j + 1) : SeedLists[h].part = p} = {h \in 1..j : SeedLists[h].part = p} \union {j + 1}
    BY <1>2, <1>3
  <2>2. \A X : UNION {SeedLists[h].values : h \in X \union {j + 1}}
              = (UNION {SeedLists[h].values : h \in X}) \union SeedLists[j + 1].values
    OBVIOUS
  <2>3. Beginning(j + 1)[p] = Beginning(j)[p] \union SeedLists[j + 1].values
    BY <1>1, <2>1, <2>2
  <2> QED BY <1>3, <2>3, Zenon
<1>4. CASE p # SeedLists[j + 1].part
  <2>1. {h \in 1..(j + 1) : SeedLists[h].part = p} = {h \in 1..j : SeedLists[h].part = p}
    BY <1>2, <1>4
  <2> QED BY <1>1, <1>4, <2>1
<1> QED BY <1>3, <1>4

\* db.rs writes the next list of the client that it has added.
LEMMA SeededClientListed ==
  ASSUME TablesOK, ClientsOK, phase = "clients", phase' = "clients",
         NEW n \in {SeedClients[j] : j \in DOMAIN SeedClients}, NEW i \in Rows("client"),
         Named("client", n) = {i}, i \notin SeedIds,
         NEW j \in Nat, j + 1 \in DOMAIN SeedLists, table["client"][i].parts = Beginning(j),
         NEW s, s = SeedLists[j + 1], Put("client", i, WithList(table["client"][i], s))
  PROVE  /\ OnlyAdded /\ ClientsOK'
         /\ i \in Rows("client")' /\ Named("client", n)' = {i}
         /\ table'["client"][i].parts = Beginning(j + 1)
<1>1. s.part \in Parts /\ s.values \in SUBSET Values /\ j + 1 \in 0..Len(SeedLists)
  <2>1. SeedLists \in Seq(Listings) /\ j + 1 \in 0..Len(SeedLists)
    BY SeedsAssumption
  <2>2. s \in Listings
    BY <2>1
  <2> QED BY <2>1, <2>2 DEF Listings
<1>2. table["client"][i] \in RowsOf("client") /\ i \in Ids["client"]
  BY RowType, KindFacts
<1>3. PICK new : new = WithList(table["client"][i], s)
  OBVIOUS
<1>4. /\ new \in RowsOf("client") /\ new.name = table["client"][i].name
      /\ new = [table["client"][i] EXCEPT !.parts = new.parts]
      /\ \A p \in Parts : new.parts[p] = IF p = s.part THEN table["client"][i].parts[p] \union s.values
                                        ELSE table["client"][i].parts[p]
  <2>1. PICK c : c = table["client"][i]
    OBVIOUS
  <2>2. c \in RowsOf("client") /\ new = WithList(c, s)
    BY <1>2, <1>3, <2>1
  <2>3. /\ WithList(c, s) \in RowsOf("client") /\ WithList(c, s).name = c.name
        /\ WithList(c, s) = [c EXCEPT !.parts = WithList(c, s).parts]
        /\ \A p \in Parts : WithList(c, s).parts[p] = IF p = s.part THEN c.parts[p] \union s.values ELSE c.parts[p]
    BY ONLY <1>1, <2>2, WithListFacts, Zenon
  <2> QED BY <2>1, <2>2, <2>3, Zenon
<1>5. Put("client", i, new)
  BY <1>3
<1>6. /\ TablesOK' /\ table'["client"][i] = new /\ Rows("client")' = Rows("client")
      /\ \A h \in Kinds : \A g \in Ids[h] : h # "client" \/ g # i => table'[h][g] = table[h][g]
      /\ \A h \in Kinds : Rows(h) \subseteq Rows(h)'
  <2>1. /\ TablesOK' /\ table'["client"][i] = new /\ Rows("client")' = Rows("client") \union {i}
        /\ \A h \in Kinds : \A g \in Ids[h] : h # "client" \/ g # i => table'[h][g] = table[h][g]
        /\ \A h \in Kinds : h # "client" => Rows(h)' = Rows(h)
    BY <1>2, <1>4, <1>5, PutFacts, KindFacts
  <2>2. Rows("client")' = Rows("client")
    BY <2>1
  <2> QED BY <2>1, <2>2
<1>7. \A h \in Kinds : Rows(h) \subseteq Ids[h]
  BY RowType
<1>8. RowsStay
  BY <1>4, <1>6, <1>7 DEF RowsStay
<1>9. \A m : Named("client", m)' = Named("client", m)
  BY <1>4, <1>6, <1>7, KindFacts DEF Named
<1>10. \A g \in DOMAIN Migrations : Ran(g) /\ Ran(g)'
  BY DEF Ran
<1>11. \A h \in Rows("client") : h # i => table'["client"][h] = table["client"][h]
  BY <1>6, <1>7, KindFacts
<1>12. ASSUME NEW h \in Rows("client"), h # i, SeededClient(h) PROVE SeededClient(h)'
  BY <1>10, <1>11, <1>12 DEF SeededClient
<1>13. ASSUME NEW h \in Rows("client"), h # i, OtherClient(h) PROVE OtherClient(h)'
  BY <1>11, <1>13, Zenon DEF OtherClient
<1>14. table'["client"][i].parts = Beginning(j + 1) /\ table'["client"][i].name = n
  <2>1. ASSUME NEW p \in Parts PROVE new.parts[p] = Beginning(j + 1)[p]
    <3>1. Beginning(j + 1)[p] = IF p = s.part THEN Beginning(j)[p] \union s.values ELSE Beginning(j)[p]
      BY NextBeginning
    <3>2. new.parts[p] = IF p = s.part THEN Beginning(j)[p] \union s.values ELSE Beginning(j)[p]
      BY <1>4
    <3> QED BY <3>1, <3>2
  <2>2. new.parts \in Lists
    BY <1>4, ClientRows
  <2>3. new.parts = [p \in Parts |-> new.parts[p]] /\ Beginning(j + 1) = [p \in Parts |-> Beginning(j + 1)[p]]
    BY <2>2 DEF Lists, Beginning
  <2>4. new.parts = Beginning(j + 1)
    BY <2>1, <2>3
  <2> QED BY <1>4, <1>6, <2>4 DEF Named
<1>15. OtherClient(i)'
  <2>1. OtherClient(i) /\ table["client"][i].name = n
    BY DEF ClientsOK, Named
  <2> QED BY <1>1, <1>14, <2>1 DEF OtherClient
<1>16. ClientsOK'
  BY <1>6, <1>9, <1>10, <1>12, <1>13, <1>15 DEF ClientsOK
<1> QED
  BY <1>6, <1>8, <1>9, <1>14, <1>16 DEF OnlyAdded

LEMMA StageFacts ==
  /\ Stages[Stage("migrate") + 1] = "user" /\ Stages[Stage("user") + 1] = "roles"
  /\ Stages[Stage("roles") + 1] = "permissions" /\ Stages[Stage("permissions") + 1] = "grants"
  /\ Stages[Stage("grants") + 1] = "clients" /\ Stages[Stage("clients") + 1] = "scopes"
  /\ Stages[Stage("scopes") + 1] = "serving"
<1>1. DOMAIN Stages = 1..8
  BY DEF Stages
<1>2. /\ Stages[1] = "migrate" /\ Stages[2] = "user" /\ Stages[3] = "roles" /\ Stages[4] = "permissions"
      /\ Stages[5] = "grants" /\ Stages[6] = "clients" /\ Stages[7] = "scopes" /\ Stages[8] = "serving"
  BY DEF Stages
<1>3. /\ Stage("migrate") = 1 /\ Stage("user") = 2 /\ Stage("roles") = 3 /\ Stage("permissions") = 4
      /\ Stage("grants") = 5 /\ Stage("clients") = 6 /\ Stage("scopes") = 7
  <2>1. \A j \in 1..8 : j = 1 \/ j = 2 \/ j = 3 \/ j = 4 \/ j = 5 \/ j = 6 \/ j = 7 \/ j = 8
    OBVIOUS
  <2> QED BY <1>1, <1>2, <2>1 DEF Stage
<1> QED BY <1>2, <1>3

\* What a step of the start does.
Started ==
  /\ OnlyAdded /\ RelationsStay /\ References' /\ NoRequest
  /\ next' \in Nat \ {0} /\ ClientsOK' /\ HalfAdded' /\ SeedsThere'

LEMMA SeedFacts ==
  ASSUME TablesOK, NEW k \in Kinds, k # "client", NEW name \in Names, Seed(k, name)
  PROVE  /\ OnlyAdded /\ Named(k, name)' # {} /\ table'["client"] = table["client"]
         /\ UNCHANGED <<roleGrants, members>>
<1>1. UNCHANGED <<roleGrants, members>>
  BY DEF Seed
<1>2. CASE Named(k, name) # {} /\ UNCHANGED table
  <2>1. OnlyAdded
    BY <1>2, NoneAdded
  <2>2. Named(k, name)' = Named(k, name)
    BY <1>2 DEF Named, Rows
  <2> QED BY <1>1, <1>2, <2>1, <2>2
<1>3. CASE Insert(k, SeedRow(k, name))
  <2>1. PICK i, entry : i = (CHOOSE j \in FreshIds(k) : TRUE) /\ entry = SeedRow(k, name)
    OBVIOUS
  <2>2. i \in Ids[k] /\ i \notin Rows(k) /\ Put(k, i, entry)
    BY <1>3, <2>1, FreshFacts DEF Insert
  <2>3. entry \in RowsOf(k) /\ entry.name = name
    BY <2>1, SeedRowType
  <2>4. OnlyAdded
    BY <2>2, <2>3, RowAdded
  <2>5. table'[k][i] = entry /\ i \in Rows(k)'
    BY <2>2, <2>3, PutFacts
  <2>6. i \in Named(k, name)'
    BY <2>3, <2>5, Zenon DEF Named
  <2>7. table'["client"] = table["client"]
    BY <2>2, KindFacts DEF Put, TablesOK
  <2> QED BY <1>1, <2>4, <2>6, <2>7
<1> QED
  BY <1>2, <1>3 DEF Seed

LEMMA NothingRelated ==
  ASSUME References, RowsStay, UNCHANGED <<roleGrants, members>>
  PROVE  RelationsStay /\ References'
BY ReferencesStay DEF RelationsStay

\* Before the migrations and after them, what ran does not change.
LEMMA RanFacts ==
  /\ phase' = "migrate" /\ next' = 1 => \A j \in DOMAIN Migrations : ~Ran(j)'
  /\ phase' \in {"down", "failed"} => \A j \in DOMAIN Migrations : ~Ran(j)'
  /\ phase \in {"user", "roles", "permissions", "grants", "clients", "scopes", "serving"}
       => \A j \in DOMAIN Migrations : Ran(j)
  /\ phase = "migrate" /\ next > Len(Migrations) /\ next \in Nat => \A j \in DOMAIN Migrations : Ran(j)
<1>1. \A j \in DOMAIN Migrations : j \in Nat /\ j >= 1 /\ j <= Len(Migrations)
  BY StartUpAssumption
<1>2. Len(Migrations) \in Nat
  BY StartUpAssumption
<1> QED
  BY <1>1, <1>2 DEF Ran

LEMMA StartStep ==
  ASSUME BootInv, Start
  PROVE  Started
<1>1. UNCHANGED table /\ UNCHANGED <<roleGrants, members>> /\ phase' = "migrate" /\ next' = 1 /\ NoRequest
  BY DEF Start, tables
<1>2. OnlyAdded
  BY <1>1, NoneAdded DEF BootInv, WellKept
<1>3. RelationsStay /\ References'
  BY <1>1, <1>2, NothingRelated DEF OnlyAdded, BootInv, WellKept
<1>4. ClientsOK'
  BY <1>1, RanFacts, ClientsUntouched DEF BootInv, WellKept
<1>5. HalfAdded' /\ SeedsThere'
  BY <1>1 DEF HalfAdded, SeedsThere
<1> QED
  BY <1>1, <1>2, <1>3, <1>4, <1>5 DEF Started

LEMMA MigrateStep ==
  ASSUME BootInv, Migrate
  PROVE  Started
<1>0. phase = "migrate" /\ NoRequest /\ next \in Nat \ {0}
  BY DEF Migrate, BootInv
<1>1. ASSUME next > Len(Migrations), Proceed, UNCHANGED tables
      PROVE  Started
  <2>1. UNCHANGED table /\ UNCHANGED <<roleGrants, members>> /\ phase' = "user" /\ next' = 1
    BY <1>0, <1>1, StageFacts DEF Proceed, tables
  <2>2. OnlyAdded
    BY <2>1, NoneAdded DEF BootInv, WellKept
  <2>3. RelationsStay /\ References'
    BY <2>1, <2>2, NothingRelated DEF OnlyAdded, BootInv, WellKept
  <2>4. ClientsOK'
    BY <1>0, <1>1, <2>1, RanFacts, ClientsUntouched DEF BootInv, WellKept
  <2>5. HalfAdded' /\ SeedsThere'
    BY <2>1 DEF HalfAdded, SeedsThere
  <2> QED
    BY <1>0, <2>1, <2>2, <2>3, <2>4, <2>5 DEF Started
<1>2. ASSUME next <= Len(Migrations), Fails(Migrations[next]), phase' = "failed", UNCHANGED <<tables, next>>
      PROVE  Started
  <2>1. UNCHANGED table /\ UNCHANGED <<roleGrants, members>>
    BY <1>2 DEF tables
  <2>2. OnlyAdded
    BY <2>1, NoneAdded DEF BootInv, WellKept
  <2>3. RelationsStay /\ References'
    BY <2>1, <2>2, NothingRelated DEF OnlyAdded, BootInv, WellKept
  <2>4. ClientsOK'
    BY <1>2, <2>1, RanFacts, ClientsUntouched DEF BootInv, WellKept
  <2>5. HalfAdded' /\ SeedsThere'
    BY <1>2 DEF HalfAdded, SeedsThere
  <2> QED
    BY <1>0, <1>2, <2>2, <2>3, <2>4, <2>5 DEF Started
<1>3. ASSUME next <= Len(Migrations), ~Fails(Migrations[next]), Execute(Migrations[next]), GoForth
      PROVE  Started
  <2>1. PICK s : s = Migrations[next]
    OBVIOUS
  <2>2. next \in DOMAIN Migrations
    BY <1>0, <1>3, StartUpAssumption
  <2>3. /\ ~Fails(s) /\ Execute(s) /\ phase' = "migrate" /\ next' = next + 1
    BY <1>0, <1>3, <2>1 DEF GoForth
  <2>4. /\ s.op \in {"insert", "list", "grant", "member"}
        /\ s.op = "insert" => s.kind \in Kinds /\ s.id \in SeedIds /\ s.id \in Ids[s.kind] /\ s.name \in Names
        /\ s.op = "list" => s.client \in Names /\ s.part \in Parts /\ s.values \in SUBSET Values
    BY <2>1, <2>2, StatementFacts
  <2>5. \A j \in DOMAIN Migrations : Ran(j)' => Ran(j) \/ j = next
    <3>1. \A j, n \in Nat : j < n + 1 => j < n \/ j = n
      OBVIOUS
    <3>2. DOMAIN Migrations \subseteq Nat
      BY StartUpAssumption
    <3> QED BY <1>0, <2>3, <3>1, <3>2 DEF Ran
  <2>6. TablesOK /\ References /\ ClientsOK
    BY DEF BootInv, WellKept
  <2>7. ASSUME s.op = "insert" PROVE OnlyAdded /\ ClientsOK'
    <3>1. InsertOrIgnore(s)
      BY <2>3, <2>7 DEF Execute
    <3>2. OnlyAdded
      <4>1. CASE UNCHANGED table
        BY <2>6, <4>1, NoneAdded
      <4>2. CASE s.id \notin Rows(s.kind) /\ Put(s.kind, s.id, SeedRow(s.kind, s.name))
        BY <2>4, <2>6, <2>7, <4>2, SeedRowType, RowAdded
      <4> QED BY <3>1, <4>1, <4>2 DEF InsertOrIgnore
    <3>3. CASE s.kind = "client"
      <4>1. AddsClient(next)
        BY <2>1, <2>7, <3>3 DEF AddsClient
      <4>2. ClientsOK'
        BY <1>0, <2>1, <2>2, <2>3, <2>6, <3>1, <4>1, ClientAdded
      <4> QED BY <3>2, <4>2
    <3>4. CASE s.kind # "client"
      <4>1. table'["client"] = table["client"]
        BY <2>6, <3>1, <3>4, KindFacts DEF InsertOrIgnore, Put, TablesOK
      <4>2. ~AddsClient(next) /\ Migrations[next].op # "list"
        BY <2>1, <2>7, <3>4 DEF AddsClient
      <4>3. ClientsOK'
        BY <2>5, <2>6, <4>1, <4>2, ClientsUntouched
      <4> QED BY <3>2, <4>3
    <3> QED BY <3>3, <3>4
  <2>8. ASSUME s.op = "list" PROVE OnlyAdded /\ ClientsOK'
    <3>1. table' = [table EXCEPT !["client"] = [i \in Ids["client"] |->
            IF i \in Named("client", s.client) THEN WithList(@[i], s) ELSE @[i]]]
      BY <2>3, <2>8, Zenon DEF Execute
    <3>2. OnlyAdded
      BY <2>4, <2>6, <2>8, <3>1, ListsWritten
    <3>3. ClientsOK'
      BY <1>0, <2>1, <2>2, <2>3, <2>6, <2>8, <3>1, ClientsListed
    <3> QED BY <3>2, <3>3
  <2>9. ASSUME s.op \in {"grant", "member"} PROVE OnlyAdded /\ ClientsOK'
    <3>1. UNCHANGED table /\ Migrations[next].op \notin {"insert", "list"}
      BY <2>1, <2>3, <2>9 DEF Execute
    <3>2. ClientsOK'
      BY <2>5, <2>6, <3>1, ClientsUntouched DEF AddsClient
    <3> QED BY <2>6, <3>1, <3>2, NoneAdded
  <2>10. OnlyAdded /\ ClientsOK'
    BY <2>4, <2>7, <2>8, <2>9
  <2>11. /\ roleGrants' \subseteq roleGrants \union (Rows("role") \X Rows("permission"))
         /\ members' \subseteq members \union (Rows("user") \X Rows("role"))
         /\ RelationsStay
    <3>1. /\ roleGrants' = IF s.op = "grant" THEN roleGrants \union Granted(s) ELSE roleGrants
          /\ members' = IF s.op = "member" THEN members \union {<<s.user, s.role>>} ELSE members
      BY <2>3 DEF Execute
    <3>2. s.op = "grant" => Granted(s) \subseteq Rows("role") \X Rows("permission")
      BY <2>3 DEF Fails, Granted
    <3>3. s.op = "member" => <<s.user, s.role>> \in Rows("user") \X Rows("role")
      BY <2>3 DEF Fails
    <3> QED BY <3>1, <3>2, <3>3 DEF RelationsStay
  <2>12. References'
    BY <2>6, <2>10, <2>11, ReferencesStay DEF OnlyAdded
  <2>13. HalfAdded' /\ SeedsThere' /\ next' \in Nat \ {0}
    BY <1>0, <2>3 DEF HalfAdded, SeedsThere
  <2> QED
    BY <1>0, <2>10, <2>11, <2>12, <2>13 DEF Started
<1> QED
  BY <1>1, <1>2, <1>3 DEF Migrate

\* The stages that seed neither clients nor grants.
LEMMA SeedStep ==
  ASSUME BootInv, SeedAdminUser \/ SeedDefaultRoles \/ SeedDefaultPermissions \/ SeedDefaultScopes
  PROVE  Started
<1>0. TablesOK /\ References /\ ClientsOK /\ next \in Nat \ {0} /\ SeedsThere
  BY DEF BootInv, WellKept
<1>1. ASSUME OnlyAdded, table'["client"] = table["client"], UNCHANGED <<roleGrants, members>>,
             phase \in {"user", "roles", "permissions", "grants", "clients", "scopes", "serving"}
      PROVE  RelationsStay /\ References' /\ ClientsOK'
    BY <1>0, <1>1, NothingRelated, RanFacts, ClientsUntouched DEF OnlyAdded
<1>2. ASSUME SeedAdminUser PROVE Started
  <2>1. /\ phase = "user" /\ phase' = "roles" /\ next' = 1 /\ NoRequest /\ Seed("user", SeedUser)
    BY <1>2, StageFacts DEF SeedAdminUser, Proceed
  <2>2. /\ OnlyAdded /\ Named("user", SeedUser)' # {} /\ table'["client"] = table["client"]
        /\ UNCHANGED <<roleGrants, members>>
    BY <1>0, <2>1, SeedFacts, SeedsAssumption, KindFacts
  <2>3. HalfAdded' /\ SeedsThere'
    BY <2>1, <2>2 DEF HalfAdded, SeedsThere
  <2> QED BY <1>1, <2>1, <2>2, <2>3 DEF Started
<1>3. ASSUME SeedDefaultRoles PROVE Started
  <2>1. phase = "roles" /\ NoRequest /\ Named("user", SeedUser) # {}
        /\ \A j \in 1..(next - 1) : Named("role", SeedRoles[j]) # {}
    BY <1>0, <1>3 DEF SeedDefaultRoles, SeedsThere
  <2>2. CASE next > Len(SeedRoles) /\ Proceed /\ UNCHANGED tables
    <3>1. phase' = "permissions" /\ next' = 1 /\ UNCHANGED table /\ UNCHANGED <<roleGrants, members>>
      BY <2>1, <2>2, StageFacts DEF Proceed, tables
    <3>2. OnlyAdded
      BY <1>0, <3>1, NoneAdded
    <3>3. Named("role", AdminRole) # {}
      <4>1. PICK j \in DOMAIN SeedRoles : AdminRole = SeedRoles[j]
        BY SeedsAssumption
      <4>2. j \in 1..(next - 1)
        BY <1>0, <2>2, SeedsAssumption
      <4> QED BY <2>1, <4>1, <4>2
    <3>4. \A k, n : Named(k, n)' = Named(k, n)
      BY <3>1 DEF Named, Rows
    <3>5. HalfAdded' /\ SeedsThere'
      BY <2>1, <3>1, <3>3, <3>4 DEF HalfAdded, SeedsThere
    <3> QED BY <1>1, <2>1, <3>1, <3>2, <3>5 DEF Started
  <2>3. CASE ~(next > Len(SeedRoles)) /\ Seed("role", SeedRoles[next]) /\ GoForth
    <3>1. phase' = "roles" /\ next' = next + 1
      BY <2>1, <2>3 DEF GoForth
    <3>2. SeedRoles[next] \in Names
      BY <1>0, <2>3, SeedsAssumption
    <3>3. PICK n, m : n = SeedRoles[next] /\ m = next
      OBVIOUS
    <3>4. /\ OnlyAdded /\ Named("role", n)' # {} /\ table'["client"] = table["client"]
          /\ UNCHANGED <<roleGrants, members>>
      BY <1>0, <2>3, <3>2, <3>3, SeedFacts, KindFacts
    <3>5. \A x : Named("role", x) \subseteq Named("role", x)' /\ Named("user", x) \subseteq Named("user", x)'
      BY <3>4, NamesStay, KindFacts DEF OnlyAdded
    <3>6. \A j \in 1..(next' - 1) : j \in 1..(next - 1) \/ j = m
      BY <1>0, <3>1, <3>3
    <3>7. HalfAdded' /\ SeedsThere'
      BY <2>1, <3>1, <3>3, <3>4, <3>5, <3>6 DEF HalfAdded, SeedsThere
    <3> QED BY <1>0, <1>1, <2>1, <3>1, <3>4, <3>7 DEF Started
  <2> QED BY <1>3, <2>2, <2>3 DEF SeedDefaultRoles
<1>4. ASSUME SeedDefaultPermissions PROVE Started
  <2>1. phase = "permissions" /\ NoRequest /\ Named("user", SeedUser) # {} /\ Named("role", AdminRole) # {}
    BY <1>0, <1>4 DEF SeedDefaultPermissions, SeedsThere
  <2>2. CASE next > Len(SeedPermissions) /\ Proceed /\ UNCHANGED tables
    <3>1. /\ phase' = "grants" /\ next' = 1 /\ todo' = Null
          /\ UNCHANGED table /\ UNCHANGED <<roleGrants, members>>
      BY <2>1, <2>2, StageFacts DEF Proceed, tables
    <3>2. OnlyAdded
      BY <1>0, <3>1, NoneAdded
    <3>3. \A k, n : Named(k, n)' = Named(k, n)
      BY <3>1 DEF Named, Rows
    <3>4. HalfAdded' /\ SeedsThere'
      BY <2>1, <3>1, <3>3 DEF HalfAdded, SeedsThere
    <3> QED BY <1>1, <2>1, <3>1, <3>2, <3>4 DEF Started
  <2>3. CASE ~(next > Len(SeedPermissions)) /\ Seed("permission", SeedPermissions[next]) /\ GoForth
    <3>1. phase' = "permissions" /\ next' = next + 1
      BY <2>1, <2>3 DEF GoForth
    <3>2. SeedPermissions[next] \in Names
      BY <1>0, <2>3, SeedsAssumption
    <3>3. /\ OnlyAdded /\ table'["client"] = table["client"] /\ UNCHANGED <<roleGrants, members>>
      BY <1>0, <2>3, <3>2, SeedFacts, KindFacts
    <3>4. \A x : Named("role", x) \subseteq Named("role", x)' /\ Named("user", x) \subseteq Named("user", x)'
      BY <3>3, NamesStay, KindFacts DEF OnlyAdded
    <3>5. HalfAdded' /\ SeedsThere'
      BY <2>1, <3>1, <3>4 DEF HalfAdded, SeedsThere
    <3> QED BY <1>0, <1>1, <2>1, <3>1, <3>3, <3>5 DEF Started
  <2> QED BY <1>4, <2>2, <2>3 DEF SeedDefaultPermissions
<1>5. ASSUME SeedDefaultScopes PROVE Started
  <2>1. phase = "scopes" /\ NoRequest /\ UNCHANGED table /\ UNCHANGED <<roleGrants, members>>
        /\ next' \in Nat \ {0} /\ phase' \in {"scopes", "serving"}
    BY <1>0, <1>5, StageFacts DEF SeedDefaultScopes, Proceed, tables
  <2>2. OnlyAdded
    BY <1>0, <2>1, NoneAdded
  <2>3. HalfAdded' /\ SeedsThere'
    BY <2>1 DEF HalfAdded, SeedsThere
  <2> QED BY <1>1, <2>1, <2>2, <2>3 DEF Started
<1> QED
  BY <1>2, <1>3, <1>4, <1>5

LEMMA GrantsStep ==
  ASSUME BootInv, SeedRolePermissions
  PROVE  Started
<1>0. PICK role, admin : /\ role = CHOOSE i \in Named("role", AdminRole) : TRUE
                         /\ admin = CHOOSE i \in Named("user", SeedUser) : TRUE
  OBVIOUS
<1>1. /\ phase = "grants" /\ NoRequest /\ UNCHANGED table /\ next \in Nat \ {0}
      /\ TablesOK /\ References /\ ClientsOK
      /\ Named("user", SeedUser) # {} /\ Named("role", AdminRole) # {}
      /\ todo # Null => todo \subseteq Rows("permission")
  BY DEF SeedRolePermissions, BootInv, WellKept, SeedsThere
<1>2. role \in Rows("role") /\ admin \in Rows("user")
  BY <1>0, <1>1 DEF Named
<1>3. OnlyAdded /\ ClientsOK'
  BY <1>1, NoneAdded, RanFacts, ClientsUntouched
<1>4. /\ \A k : Rows(k)' = Rows(k)
      /\ \A k, n : Named(k, n)' = Named(k, n)
  BY <1>1 DEF Rows, Named
<1>5. /\ roleGrants' \subseteq roleGrants \union (Rows("role") \X Rows("permission"))
      /\ members' \subseteq members \union (Rows("user") \X Rows("role"))
      /\ RelationsStay /\ next' \in Nat \ {0} /\ HalfAdded' /\ SeedsThere'
  <2>1. CASE Proceed /\ UNCHANGED roleGrants
             /\ (members' = members \/ members' = members \union {<<admin, role>>})
    <3>1. phase' = "clients" /\ next' = 1 /\ todo' = Null
      BY <1>1, <2>1, StageFacts DEF Proceed
    <3>2. HalfAdded' /\ SeedsThere'
      BY <3>1 DEF HalfAdded, SeedsThere
    <3>3. <<admin, role>> \in Rows("user") \X Rows("role")
      BY <1>2
    <3> QED BY <2>1, <3>1, <3>2, <3>3 DEF RelationsStay
  <2>2. CASE /\ todo' = {i \in Rows("permission") : table["permission"][i].system}
             /\ UNCHANGED <<phase, next, ends, scopes, roleGrants, members>>
    <3>1. SeedsThere' /\ HalfAdded'
      BY <1>1, <1>4, <2>2 DEF SeedsThere, HalfAdded
    <3> QED BY <1>1, <2>2, <3>1 DEF RelationsStay
  <2>3. CASE /\ todo \notin {Null, {}}
             /\ LET p == CHOOSE p \in todo : TRUE IN
                todo' = todo \ {p} /\ roleGrants' = roleGrants \union {<<role, p>>}
             /\ UNCHANGED <<phase, next, ends, scopes, members>>
    <3>1. PICK p \in todo : todo' = todo \ {p} /\ roleGrants' = roleGrants \union {<<role, p>>}
      <4>1. \E p : p \in todo
        BY <1>1, <2>3
      <4> QED BY <2>3, <4>1
    <3>2. <<role, p>> \in Rows("role") \X Rows("permission")
      BY <1>1, <1>2, <2>3
    <3>3. SeedsThere' /\ HalfAdded'
      BY <1>1, <1>4, <2>3, <3>1 DEF SeedsThere, HalfAdded
    <3> QED BY <1>1, <2>3, <3>1, <3>2, <3>3 DEF RelationsStay
  <2> QED BY <1>0, <2>1, <2>2, <2>3 DEF SeedRolePermissions
<1>6. References'
  BY <1>1, <1>3, <1>5, ReferencesStay DEF OnlyAdded
<1> QED
  BY <1>1, <1>3, <1>5, <1>6 DEF Started

LEMMA ClientsStep ==
  ASSUME BootInv, SeedOAuthClients
  PROVE  Started
<1>1. /\ phase = "clients" /\ NoRequest /\ UNCHANGED <<roleGrants, members>> /\ next \in Nat \ {0}
      /\ TablesOK /\ References /\ ClientsOK /\ HalfAdded
  BY DEF SeedOAuthClients, BootInv, WellKept
<1>2. ASSUME UNCHANGED table PROVE OnlyAdded /\ RelationsStay /\ References' /\ ClientsOK'
  BY <1>1, <1>2, NoneAdded, NothingRelated, RanFacts, ClientsUntouched DEF OnlyAdded
<1>3. ASSUME phase' = "clients" PROVE SeedsThere'
  BY <1>3 DEF SeedsThere
<1>4. ASSUME Proceed, UNCHANGED table PROVE Started
  <2>1. phase' = "scopes" /\ next' = 1
    BY <1>1, <1>4, StageFacts DEF Proceed
  <2>2. HalfAdded' /\ SeedsThere'
    BY <2>1 DEF HalfAdded, SeedsThere
  <2> QED BY <1>1, <1>2, <1>4, <2>1, <2>2 DEF Started
<1>5. ASSUME todo = Null, UNCHANGED table, GoForth PROVE Started
  <2>1. phase' = "clients" /\ next' = next + 1 /\ todo' = Null
    BY <1>1, <1>5 DEF GoForth
  <2>2. HalfAdded'
    BY <2>1 DEF HalfAdded
  <2> QED BY <1>1, <1>2, <1>3, <1>5, <2>1, <2>2 DEF Started
<1>6. ASSUME todo = <<>>, todo' = Null, next' = next + 1, UNCHANGED <<phase, table>> PROVE Started
  <2>1. HalfAdded'
    BY <1>6 DEF HalfAdded
  <2> QED BY <1>1, <1>2, <1>3, <1>6, <2>1 DEF Started
<1>7. ASSUME next <= Len(SeedClients), Named("client", SeedClients[next]) = {},
             Insert("client", SeedRow("client", SeedClients[next])), todo' = SeedLists, UNCHANGED <<phase, next>>
      PROVE  Started
  <2>1. PICK n : n = SeedClients[next]
    OBVIOUS
  <2>2. n \in {SeedClients[j] : j \in DOMAIN SeedClients}
    BY <1>1, <1>7, <2>1, SeedClientFacts
  <2>3. /\ OnlyAdded /\ ClientsOK'
        /\ \E i \in Rows("client")' :
             /\ Named("client", n)' = {i} /\ i \notin SeedIds
             /\ table'["client"][i].parts = Beginning(0)
    BY <1>1, <1>7, <2>1, <2>2, ClientSeeded
  <2>4. /\ SeedLists \in Seq(Listings) /\ Len(SeedLists) \in Nat /\ 0 \in 0..Len(SeedLists)
        /\ \A h \in 1..Len(SeedLists) : 0 + h = h
    BY SeedsAssumption
  <2>5. HalfAdded'
    <3>1. PICK i \in Rows("client")' :
             /\ Named("client", n)' = {i} /\ i \notin SeedIds
             /\ table'["client"][i].parts = Beginning(0)
      BY <2>3
    <3>2. next' <= Len(SeedClients) /\ SeedClients[next'] = n
      BY <1>7, <2>1
    <3>3. todo' \in Seq(Listings) /\ 0 + Len(todo') = Len(SeedLists) /\ \A h \in 1..Len(todo') : todo'[h] = SeedLists[0 + h]
      BY <1>7, <2>4
    <3> QED BY <2>4, <3>1, <3>2, <3>3 DEF HalfAdded
  <2>6. RelationsStay /\ References'
    BY <1>1, <2>3, NothingRelated DEF OnlyAdded
  <2> QED BY <1>1, <1>3, <1>7, <2>3, <2>5, <2>6 DEF Started
<1>8. ASSUME todo # Null, todo # <<>>, UNCHANGED <<phase, next>>, todo' = Tail(todo),
             LET i == CHOOSE i \in Named("client", SeedClients[next]) : TRUE IN
             Put("client", i, WithList(table["client"][i], Head(todo)))
      PROVE  Started
  <2>1. PICK j \in 0..Len(SeedLists), i \in Rows("client") :
          /\ todo \in Seq(Listings) /\ j + Len(todo) = Len(SeedLists)
          /\ \A h \in 1..Len(todo) : todo[h] = SeedLists[j + h]
          /\ next <= Len(SeedClients) /\ Named("client", SeedClients[next]) = {i} /\ i \notin SeedIds
          /\ table["client"][i].parts = Beginning(j)
    BY <1>1, <1>8 DEF HalfAdded
  <2>2. PICK n, s : n = SeedClients[next] /\ s = Head(todo)
    OBVIOUS
  <2>3. n \in {SeedClients[h] : h \in DOMAIN SeedClients}
    BY <1>1, <2>1, <2>2, SeedClientFacts
  <2>4. /\ Len(todo) \in Nat \ {0} /\ s = todo[1] /\ Len(SeedLists) \in Nat
        /\ Tail(todo) \in Seq(Listings) /\ Len(Tail(todo)) = Len(todo) - 1
        /\ \A h \in 1..(Len(todo) - 1) : Tail(todo)[h] = todo[h + 1]
    BY <1>8, <2>1, <2>2, SeedsAssumption
  <2>5. s = SeedLists[j + 1] /\ j \in Nat /\ j + 1 \in 0..Len(SeedLists) /\ j + 1 \in DOMAIN SeedLists
    <3>1. DOMAIN SeedLists = 1..Len(SeedLists)
      BY SeedsAssumption
    <3>2. 1 \in 1..Len(todo) /\ j \in Nat /\ j + 1 \in 1..Len(SeedLists)
      BY <2>1, <2>4
    <3>3. todo[1] = SeedLists[j + 1]
      BY <2>1, <3>2
    <3> QED BY <2>4, <3>1, <3>2, <3>3
  <2>6. Put("client", i, WithList(table["client"][i], s))
    <3>1. (CHOOSE g \in Named("client", SeedClients[next]) : TRUE) = i
      BY <2>1
    <3> QED BY <1>8, <2>2, <3>1
  <2>7. Named("client", n) = {i}
    BY <2>1, <2>2
  <2>8. /\ OnlyAdded /\ ClientsOK'
        /\ i \in Rows("client")' /\ Named("client", n)' = {i}
        /\ table'["client"][i].parts = Beginning(j + 1)
    <3>1. phase = "clients" /\ phase' = "clients"
      BY <1>1, <1>8
    <3>2. TablesOK /\ ClientsOK
      BY <1>1
    <3>3. i \in Rows("client") /\ i \notin SeedIds /\ table["client"][i].parts = Beginning(j)
      BY <2>1
    <3>4. j \in Nat /\ j + 1 \in DOMAIN SeedLists /\ s = SeedLists[j + 1]
      BY <2>5
    <3> QED BY ONLY <2>3, <2>6, <2>7, <3>1, <3>2, <3>3, <3>4, SeededClientListed
  <2>9. HalfAdded'
    <3>1. (j + 1) + Len(todo') = Len(SeedLists) /\ todo' \in Seq(Listings)
      BY <1>8, <2>1, <2>4
    <3>2. \A h \in 1..Len(todo') : todo'[h] = SeedLists[(j + 1) + h]
      <4> SUFFICES ASSUME NEW h \in 1..Len(todo') PROVE todo'[h] = SeedLists[(j + 1) + h]
        OBVIOUS
      <4>1. h \in 1..(Len(todo) - 1) /\ h + 1 \in 1..Len(todo)
        BY <1>8, <2>4
      <4>2. todo'[h] = todo[h + 1]
        BY <1>8, <2>4, <4>1
      <4>3. todo[h + 1] = SeedLists[j + (h + 1)]
        BY <2>1, <4>1
      <4>4. j + (h + 1) = (j + 1) + h
        BY <2>5, <4>1
      <4> QED BY <4>2, <4>3, <4>4
    <3>3. next' <= Len(SeedClients) /\ SeedClients[next'] = n
      BY <1>8, <2>1, <2>2
    <3>4. PICK m : m = j + 1
      OBVIOUS
    <3>5. /\ m \in 0..Len(SeedLists) /\ m + Len(todo') = Len(SeedLists)
          /\ \A h \in 1..Len(todo') : todo'[h] = SeedLists[m + h]
          /\ table'["client"][i].parts = Beginning(m)
      BY <2>5, <2>8, <3>1, <3>2, <3>4
    <3> HIDE <3>4
    <3> QED BY <2>1, <2>8, <3>1, <3>3, <3>5 DEF HalfAdded
  <2>10. RelationsStay /\ References'
    BY <1>1, <2>8, NothingRelated DEF OnlyAdded
  <2> QED BY <1>1, <1>3, <1>8, <2>8, <2>9, <2>10 DEF Started
<1> QED
  BY <1>4, <1>5, <1>6, <1>7, <1>8 DEF SeedOAuthClients

LEMMA BootStep ==
  ASSUME BootInv, Boot
  PROVE  Started
BY StartStep, MigrateStep, SeedStep, GrantsStep, ClientsStep DEF Boot

LEMMA ServedClients ==
  ASSUME ClientsOK, ClientsGo, TablesOK', Rows("client") \subseteq Rows("client")', UNCHANGED <<phase, next>>
  PROVE  ClientsOK'
<1>1. \A j \in DOMAIN Migrations : Ran(j)' <=> Ran(j)
  BY DEF Ran
<1>2. ASSUME NEW i \in Rows("client"), SeededClient(i) PROVE SeededClient(i)'
  <2>1. /\ table'["client"][i].name = table["client"][i].name
        /\ table'["client"][i].parts = table["client"][i].parts
    BY DEF ClientsGo
  <2> QED BY <1>1, <1>2, <2>1 DEF SeededClient
<1>3. ASSUME NEW i \in Rows("client"), OtherClient(i) PROVE OtherClient(i)'
  <2>1. /\ table'["client"][i].name = table["client"][i].name
        /\ table'["client"][i].parts = table["client"][i].parts
    BY DEF ClientsGo
  <2> QED BY <1>3, <2>1, Zenon DEF OtherClient
<1>4. ASSUME NEW i \in Rows("client")', i \notin Rows("client") PROVE i \notin SeedIds /\ OtherClient(i)'
  <2>1. i \notin SeedIds /\ table'["client"][i].name = i /\ table'["client"][i].parts = ClientForm
    BY <1>4 DEF ClientsGo
  <2>2. i \in Ids["client"]
    BY DEF Rows
  <2>3. \A j \in DOMAIN Migrations : AddsClient(j) => Migrations[j].name # i
    BY <2>2, StatementFacts, SeedsAssumption DEF AddsClient
  <2> QED BY <2>1, <2>3 DEF OtherClient
<1>5. \A n : Named("client", n) \subseteq Named("client", n)'
  BY DEF Named, ClientsGo
<1> QED
  BY <1>1, <1>2, <1>3, <1>4, <1>5 DEF ClientsOK

-----------------------------------------------------------------------------
(* The invariant and the theorems.                                         *)

LEMMA BootInvStep == BootInv /\ [BootNext]_bootVars => BootInv'
<1> SUFFICES ASSUME BootInv, [BootNext]_bootVars PROVE BootInv'
  OBVIOUS
<1>1. ASSUME Boot PROVE BootInv'
  <2>1. Started
    BY <1>1, BootStep
  <2>2. WellKept' /\ CountedPagesHaveRows'
    BY <2>1, StillWellKept DEF Started, BootInv
  <2> QED BY <2>1, <2>2 DEF Started, BootInv
<1>2. ASSUME Serve PROVE BootInv'
  <2>1. Served
    BY <1>2, ServeStep DEF BootInv
  <2>2. phase = "serving" /\ UNCHANGED <<phase, next, todo>>
    BY <1>2 DEF Serve, boot
  <2>3. ClientsOK'
    BY <2>1, <2>2, ServedClients DEF Served, TablesGo, Stay, BootInv
  <2>4. HalfAdded' /\ SeedsThere'
    BY <2>2 DEF HalfAdded, SeedsThere
  <2> QED BY <2>1, <2>2, <2>3, <2>4 DEF Served, TablesGo, BootInv, WellKept
<1>3. ASSUME Quit PROVE BootInv'
  <2>1. UNCHANGED <<table, roleGrants, members, logs>> /\ phase' = "down" /\ next' = 1 /\ last' = Null
    BY <1>3 DEF Quit, tables
  <2>2. TablesOK' /\ References'
    BY <2>1 DEF BootInv, WellKept, TablesOK, References, Rows
  <2>3. HandlersOK'
    BY <1>3, <2>1 DEF Quit, HandlersOK, HandlerAt, BootInv, WellKept
  <2>4. ClientsOK'
    BY <2>1, RanFacts, ClientsUntouched DEF BootInv, WellKept
  <2>5. HalfAdded' /\ SeedsThere' /\ CountedPagesHaveRows'
    BY <2>1 DEF HalfAdded, SeedsThere, CountedPagesHaveRows
  <2> QED BY <2>1, <2>2, <2>3, <2>4, <2>5 DEF BootInv, WellKept
<1>4. ASSUME UNCHANGED bootVars PROVE BootInv'
  <2>1. UNCHANGED <<table, roleGrants, members, logs, awaits, req, loaded, last, phase, next, todo>>
    BY <1>4 DEF bootVars, adminVars, tables, handlers, boot
  <2>2. WellKept' /\ CountedPagesHaveRows'
    <3>1. OnlyAdded /\ References' /\ Stay
      BY <2>1, NoneAdded DEF BootInv, WellKept, References, Rows, Stay, HandlersOK
    <3>2. HandlersOK'
      BY <2>1, <3>1, HandlersStay DEF BootInv, WellKept
    <3> QED BY <2>1, <3>1, <3>2 DEF OnlyAdded, BootInv, WellKept, CountedPagesHaveRows
  <2>3. ClientsOK'
    <3>1. \A j \in DOMAIN Migrations : Ran(j)' => Ran(j)
      BY <2>1 DEF Ran
    <3> QED BY <2>1, <3>1, ClientsUntouched DEF BootInv, WellKept
  <2>4. HalfAdded' /\ SeedsThere'
    BY <2>1 DEF BootInv, HalfAdded, SeedsThere, Named, Rows
  <2> QED BY <2>1, <2>2, <2>3, <2>4 DEF BootInv
<1> QED
  BY <1>1, <1>2, <1>3, <1>4 DEF BootNext

LEMMA BootInvInit == BootInit => BootInv
<1> SUFFICES ASSUME BootInit PROVE BootInv
  OBVIOUS
<1> USE DEF BootInit, AdminInit
<1>1. \A k \in Kinds : Rows(k) = {}
  BY DEF Rows
<1>2. TablesOK
  BY DEF TablesOK
<1>3. References
  BY DEF References
<1>4. HandlersOK
  BY DEF HandlersOK, HandlerAt
<1>5. ClientsOK /\ HalfAdded /\ SeedsThere /\ CountedPagesHaveRows
  BY <1>1, KindFacts DEF ClientsOK, Ran, HalfAdded, SeedsThere, CountedPagesHaveRows
<1> QED
  BY <1>2, <1>3, <1>4, <1>5 DEF BootInv, WellKept

LEMMA BootInvariant == BootSpec => []BootInv
BY BootInvInit, BootInvStep, PTL DEF BootSpec

\* While the service serves, every statement of the migrations has run.
LEMMA ServingClients ==
  ASSUME BootInv, phase = "serving", NEW i \in Rows("client")
  PROVE  LET c == table["client"][i] IN
         IF i \in SeedIds THEN c.parts = Migrated(c.name)
         ELSE IF c.name \in {SeedClients[j] : j \in DOMAIN SeedClients}
           THEN \E j \in 0..Len(SeedLists) : c.parts = Beginning(j)
           ELSE c.parts = ClientForm
<1>1. PICK c : c = table["client"][i]
  OBVIOUS
<1>2. c \in RowsOf("client") /\ i \in Ids["client"]
  BY <1>1, RowType, KindFacts DEF BootInv, WellKept
<1>3. c.parts \in Lists
  BY <1>2, ClientRows
<1>4. CASE i \in SeedIds
  <2>1. SeededClient(i)
    BY <1>4 DEF BootInv, ClientsOK
  <2>2. \A p \in Parts : c.parts[p] \subseteq Migrated(c.name)[p]
    BY <1>1, <2>1, Zenon DEF SeededClient
  <2>3. \A p \in Parts : Migrated(c.name)[p] \subseteq c.parts[p]
    <3> SUFFICES ASSUME NEW p \in Parts, NEW v \in Migrated(c.name)[p] PROVE v \in c.parts[p]
      OBVIOUS
    <3>1. PICK j \in DOMAIN Migrations :
            /\ Migrations[j].op = "list" /\ Migrations[j].client = c.name /\ Migrations[j].part = p
            /\ v \in Migrations[j].values
      BY MigratedFacts
    <3>2. Ran(j)
      BY DEF Ran
    <3> QED BY <1>1, <2>1, <3>1, <3>2 DEF SeededClient
  <2>4. \A p \in Parts : c.parts[p] = Migrated(c.name)[p]
    BY <2>2, <2>3
  <2>5. c.parts = [p \in Parts |-> c.parts[p]] /\ Migrated(c.name) = [p \in Parts |-> Migrated(c.name)[p]]
    BY <1>3, MigratedFacts DEF Lists
  <2>6. c.parts = Migrated(c.name)
    BY <2>4, <2>5
  <2> QED BY <1>1, <1>4, <2>6
<1>5. CASE i \notin SeedIds
  <2>1. /\ \/ c.name = i /\ c.parts = ClientForm
           \/ /\ c.name \in {SeedClients[j] : j \in DOMAIN SeedClients}
              /\ \E j \in 0..Len(SeedLists) : c.parts = Beginning(j)
    BY <1>1, <1>5 DEF BootInv, ClientsOK, OtherClient
  <2>2. c.name = i => c.name \notin {SeedClients[j] : j \in DOMAIN SeedClients}
    BY <1>2, SeedsAssumption
  <2> QED BY <1>1, <1>5, <2>1, <2>2
<1> QED BY <1>4, <1>5

\* However many administrators there are, whatever the migrations and db.rs
\* list and wherever the process ends: every grant and member is of rows that
\* are there, although a role may be deleted between the read that finds it and
\* the transaction that grants it permissions (role_service.rs:260-313), and
\* while the service serves every client has all its lists, but for the
\* beginning of them that an ended start of db.rs:405-465 leaves.
THEOREM NothingIsEverHalfThere == BootSpec => []NothingIsHalfThere
<1>1. BootInv => NothingIsHalfThere
  BY ServingClients DEF NothingIsHalfThere, BootInv, WellKept, References
<1> QED
  BY <1>1, BootInvariant, PTL

\* A page that an answer counts among its pages has rows, for every page, limit
\* and length of the log that 32 bits hold: neither the rows written between the
\* count and the reading nor the offset's wrapping at 32 bits leave it empty
\* (audit_log_service.rs:65-138).
THEOREM CountedPagesAlwaysHaveRows == BootSpec => []CountedPagesHaveRows
<1>1. BootInv => CountedPagesHaveRows
  BY DEF BootInv
<1> QED
  BY <1>1, BootInvariant, PTL

\* No start changes or takes away what administrators have made of a row, a
\* grant or a member, whatever the migrations and the seeds are: a client gets
\* lists at most (db.rs:37-512).
THEOREM StartsAlwaysOnlyAdd == BootSpec => StartsOnlyAdd
<1> DEFINE Adds ==
      Booting => /\ \A k \in Kinds : \A i \in Rows(k) :
                      table'[k][i] = table[k][i] \/ (k = "client" /\ table'[k][i] = [table[k][i] EXCEPT !.parts = table'[k][i].parts])
                 /\ roleGrants \subseteq roleGrants' /\ members \subseteq members'
<1>1. BootInv /\ [BootNext]_bootVars => [Adds]_bootVars
  <2> SUFFICES ASSUME BootInv, BootNext PROVE Adds
    OBVIOUS
  <2>1. ASSUME Boot PROVE Adds
    <3>1. RowsStay /\ RelationsStay
      BY <2>1, BootStep DEF Started, OnlyAdded
    <3> QED BY <3>1, Zenon DEF RowsStay, RelationsStay
  <2>2. ASSUME Serve PROVE ~Booting
    <3>1. phase = "serving" /\ DOMAIN Stages = 1..8 /\ Len(Stages) = 8
      BY <2>2 DEF Serve, Stages
    <3>2. \A j \in 1..7 : Stages[j] # "serving"
      BY DEF Stages
    <3> QED BY <3>1, <3>2 DEF Booting
  <2>3. ASSUME Quit PROVE Adds
    BY <2>3 DEF Quit, tables
  <2> QED BY <2>1, <2>2, <2>3 DEF BootNext
<1>2. BootSpec => [][Adds]_bootVars
  BY <1>1, BootInvariant, PTL DEF BootSpec
<1> QED
  BY <1>2 DEF StartsOnlyAdd

-----------------------------------------------------------------------------
(* The types of the tables and of the process.                             *)

\* What a step does to the names in a table: one row is put in its place, with a
\* name that was its own or nobody's, or no row is added and each keeps its name.
Renames ==
  \/ UNCHANGED table
  \/ \E k \in Kinds : \E i \in Ids[k] : \E new :
       /\ Put(k, i, new)
       /\ \/ new \in {Unused, Gone}
          \/ i \in Rows(k) /\ new.name = table[k][i].name
          \/ Named(k, new.name) \subseteq {i}
  \/ \A k \in Kinds : \A i \in Rows(k)' : i \in Rows(k) /\ table'[k][i].name = table[k][i].name

\* An administrator's request comes, goes on or is answered.
Turn(a) ==
  \/ awaits' = [awaits EXCEPT ![a] = "idle"] /\ req' = [req EXCEPT ![a] = Null]
  \/ \E r \in Asks : \E to : to # "idle" /\ awaits' = [awaits EXCEPT ![a] = to] /\ req' = [req EXCEPT ![a] = r]
  \/ \E to : to # "idle" /\ awaits[a] # "idle" /\ awaits' = [awaits EXCEPT ![a] = to] /\ UNCHANGED req

Moves(a) ==
  /\ Renames /\ Turn(a) /\ UNCHANGED logs
  /\ UNCHANGED budget \/ (budget > 0 /\ budget' = budget - 1)

UniqueNames == \A k \in Kinds : \A i, j \in Rows(k) : table[k][i].name = table[k][j].name => i = j
Aligned == \A a \in Admins : awaits[a] = "idle" <=> req[a] = Null

LEMMA RenamesFacts ==
  ASSUME TablesOK, UniqueNames, Renames
  PROVE  UniqueNames'
<1>1. CASE UNCHANGED table
  BY <1>1 DEF UniqueNames, Rows
<1>2. ASSUME NEW k \in Kinds, NEW i \in Ids[k], NEW new, Put(k, i, new),
             \/ new \in {Unused, Gone}
             \/ i \in Rows(k) /\ new.name = table[k][i].name
             \/ Named(k, new.name) \subseteq {i}
      PROVE  UniqueNames'
  <2>1. /\ table'[k][i] = new
        /\ \A h \in Kinds : \A j \in Ids[h] : h # k \/ j # i => table'[h][j] = table[h][j]
    BY <1>2 DEF Put, TablesOK
  <2>2. \A h \in Kinds : h # k => Rows(h)' = Rows(h)
    BY <2>1 DEF Rows
  <2>3. ASSUME NEW h \in Kinds, h # k, NEW x \in Rows(h)', NEW y \in Rows(h)',
               table'[h][x].name = table'[h][y].name
        PROVE  x = y
    BY <2>1, <2>2, <2>3 DEF UniqueNames, Rows
  <2>4. \A j \in Rows(k)' : j # i => j \in Rows(k) /\ table'[k][j] = table[k][j]
    BY <2>1 DEF Rows
  <2>5. i \in Rows(k)' => \A j \in Rows(k) : table[k][j].name = new.name => j = i
    BY <1>2, <2>1 DEF Rows, Named, UniqueNames
  <2>6. ASSUME NEW x \in Rows(k)', NEW y \in Rows(k)', table'[k][x].name = table'[k][y].name
        PROVE  x = y
    <3>1. CASE x # i /\ y # i
      BY <2>4, <2>6, <3>1 DEF UniqueNames
    <3>2. CASE x = i /\ y # i
      BY <2>1, <2>4, <2>5, <2>6, <3>2
    <3>3. CASE x # i /\ y = i
      BY <2>1, <2>4, <2>5, <2>6, <3>3
    <3> QED BY <3>1, <3>2, <3>3
  <2> QED BY <2>3, <2>6 DEF UniqueNames
<1>3. CASE \A k \in Kinds : \A i \in Rows(k)' : i \in Rows(k) /\ table'[k][i].name = table[k][i].name
  BY <1>3 DEF UniqueNames
<1> QED
  BY <1>1, <1>2, <1>3 DEF Renames

LEMMA TurnFacts ==
  ASSUME HandlersOK, Aligned, NEW a \in Admins, Turn(a)
  PROVE  Aligned'
BY AdministrationAssumption DEF HandlersOK, Aligned, Turn

LEMMA Turns ==
  ASSUME NEW a \in Admins
  PROVE  /\ \A status, body : Answer(a, status, body) => Turn(a)
         /\ \A e : Refuse(a, e) => Turn(a) /\ UNCHANGED table
         /\ \A r \in Asks : \A to : to # "idle" /\ Await(a, r, to) => Turn(a) /\ UNCHANGED table
         /\ \A to, read : to # "idle" /\ awaits[a] # "idle" /\ GoOn(a, to, read) => Turn(a)
BY DEF Answer, Refuse, Await, GoOn, Turn, tables

\* One row is put in its place.
LEMMA RowRenamed ==
  ASSUME NEW k \in Kinds, NEW i \in Ids[k], NEW new, Put(k, i, new),
         \/ new \in {Unused, Gone}
         \/ i \in Rows(k) /\ new.name = table[k][i].name
         \/ Named(k, new.name) \subseteq {i}
  PROVE  Renames
BY DEF Renames

\* Every step of an administrator keeps the names apart.
LEMMA UserMoves ==
  ASSUME WellKept, NEW a \in Admins, UserSteps(a)
  PROVE  Moves(a)
<1>1. CASE UserRoutes(a)
  BY <1>1, Turns DEF UserRoutes, Idle, Take, Moves, Renames
<1>2. CASE CheckUsername(a)
  BY <1>2, Turns DEF CheckUsername, Reached, Moves, Renames, tables
<1>3. CASE InsertUser(a)
  <2>1. CASE Refuse(a, "Database")
    BY <1>3, <2>1, Turns DEF InsertUser, Moves, Renames
  <2>2. CASE /\ Named("user", req[a].name) = {} /\ Insert("user", UserRow(req[a].name, req[a].note))
             /\ Answer(a, 200, req[a].name)
    <3>1. PICK i, new : i = (CHOOSE j \in FreshIds("user") : TRUE) /\ new = UserRow(req[a].name, req[a].note)
      OBVIOUS
    <3>2. i \in Ids["user"] /\ Put("user", i, new) /\ new.name = req[a].name
      BY <2>2, <3>1, FreshFacts, KindFacts DEF WellKept, Insert, UserRow, Row
    <3>3. Renames
      BY <2>2, <3>2, RowRenamed, KindFacts
    <3> QED BY <1>3, <2>2, <3>3, Turns DEF InsertUser, Moves
  <2> QED BY <1>3, <2>1, <2>2 DEF InsertUser
<1>4. CASE FindUser(a)
  BY <1>4, Turns DEF FindUser, Reached, Moves, Renames, tables
<1>5. CASE UpdateUser(a) \/ DeleteUser(a)
  <2>1. PICK i, new : /\ i = req[a].id /\ Put("user", i, new)
                      /\ new = IF req[a].op = "update"
                                 THEN [table["user"][i] EXCEPT !.note = Given(req[a].note, loaded[a].note),
                                                               !.active = Given(req[a].active, loaded[a].active)]
                                 ELSE [table["user"][i] EXCEPT !.active = FALSE]
    BY <1>5 DEF UpdateUser, DeleteUser
  <2>2. i \in Rows("user") /\ i \in Ids["user"]
    BY <1>5, <2>1, HandlerFacts DEF UpdateUser, DeleteUser, Reached, UserAt, Rows
  <2>3. table["user"][i] \in [name : Names, note : Texts, active : BOOLEAN, system : BOOLEAN]
    BY <2>2, RowType, KindFacts DEF WellKept
  <2>4. new.name = table["user"][i].name
    BY <2>1, <2>3
  <2>5. Renames
    BY <2>1, <2>2, <2>4, RowRenamed, KindFacts
  <2> QED BY <1>5, <2>5, Turns DEF UpdateUser, DeleteUser, Moves
<1>6. CASE List(a, "user", ListUsers(req[a])) /\ UNCHANGED budget
  BY <1>6, Turns DEF List, Moves, Renames, tables
<1> QED
  BY <1>1, <1>2, <1>3, <1>4, <1>5, <1>6 DEF UserSteps

LEMMA RoleMoves ==
  ASSUME WellKept, NEW a \in Admins, RoleSteps(a)
  PROVE  Moves(a)
<1>1. CASE RoleRoutes(a)
  BY <1>1, Turns DEF RoleRoutes, Idle, Take, Moves, Renames
<1>2. CASE CheckRoleName(a)
  BY <1>2, Turns DEF CheckRoleName, Reached, Moves, Renames, tables
<1>3. CASE InsertRole(a)
  <2>1. CASE Refuse(a, "Database")
    BY <1>3, <2>1, Turns DEF InsertRole, Moves, Renames
  <2>2. CASE /\ Named("role", req[a].name) = {} /\ Insert("role", RoleRow(req[a].name, req[a].note))
             /\ GoOn(a, "reread", CHOOSE i \in FreshIds("role") : TRUE)
    <3>1. PICK i, new : i = (CHOOSE j \in FreshIds("role") : TRUE) /\ new = RoleRow(req[a].name, req[a].note)
      OBVIOUS
    <3>2. i \in Ids["role"] /\ Put("role", i, new) /\ new.name = req[a].name
      BY <2>2, <3>1, FreshFacts, KindFacts DEF WellKept, Insert, RoleRow, Row
    <3>3. Renames
      BY <2>2, <3>2, RowRenamed, KindFacts
    <3> QED BY <1>3, <2>2, <3>3, Turns DEF InsertRole, Reached, Moves
  <2> QED BY <1>3, <2>1, <2>2 DEF InsertRole
<1>4. CASE FindRole(a)
  BY <1>4, Turns DEF FindRole, Reached, Moves, Renames, tables
<1>5. CASE FindRoleByName(a)
  BY <1>5, Turns DEF FindRoleByName, Reached, Moves, Renames, tables
<1>6. CASE UpdateRole(a)
  <2>1. PICK i, name, new : /\ i = req[a].id /\ name = Given(req[a].name, loaded[a].name)
                            /\ new = [table["role"][i] EXCEPT !.name = name, !.note = Given(req[a].note, loaded[a].note)]
    OBVIOUS
  <2>2. \/ Refuse(a, "Database")
        \/ /\ i \in Rows("role") /\ Named("role", name) \subseteq {i} /\ Put("role", i, new)
           /\ GoOn(a, "reread", i)
        \/ GoOn(a, "reread", i) /\ UNCHANGED table
    BY <1>6, <2>1 DEF UpdateRole
  <2>3. ASSUME i \in Rows("role"), Named("role", name) \subseteq {i}, Put("role", i, new) PROVE Renames
    <3>1. i \in Ids["role"] /\ table["role"][i] \in [name : Names, note : Texts, active : BOOLEAN, system : BOOLEAN]
      BY <2>3, RowType, KindFacts DEF WellKept
    <3>2. new.name = name
      BY <2>1, <3>1
    <3> QED BY <2>3, <3>1, <3>2, RowRenamed, KindFacts
  <2>4. Renames
    BY <2>2, <2>3, Turns DEF Renames
  <2> QED BY <1>6, <2>2, <2>4, Turns DEF UpdateRole, Reached, Moves
<1>7. CASE ReadRoleBack(a)
  BY <1>7, Turns DEF ReadRoleBack, Reached, Moves, Renames, tables
<1>8. CASE DeleteRole(a)
  <2>1. PICK i : i = req[a].id
    OBVIOUS
  <2>2. i \in Ids["role"] /\ Put("role", i, Gone)
    BY <1>8, <2>1, HandlerFacts DEF DeleteRole, Reached, RoleAt, Put
  <2>3. Renames
    BY <2>2, RowRenamed, KindFacts
  <2> QED BY <1>8, <2>3, Turns DEF DeleteRole, Moves
<1>9. CASE List(a, "role", ListRoles("role", req[a])) /\ UNCHANGED budget
  BY <1>9, Turns DEF List, Moves, Renames, tables
<1> QED
  BY <1>1, <1>2, <1>3, <1>4, <1>5, <1>6, <1>7, <1>8, <1>9 DEF RoleSteps

LEMMA AssignmentMoves ==
  ASSUME NEW a \in Admins, AssignmentSteps(a)
  PROVE  Moves(a)
<1>1. CASE GrantRoutes(a)
  BY <1>1, Turns DEF GrantRoutes, Idle, Take, Moves, Renames
<1>2. CASE MemberRoutes(a)
  BY <1>2, Turns DEF MemberRoutes, Idle, Take, Moves, Renames
<1>3. CASE ReadGrants(a) \/ ReadMembers(a)
  BY <1>3, Turns DEF ReadGrants, ReadMembers, Moves, Renames, tables
<1>4. CASE FindGrantedRole(a)
  BY <1>4, Turns DEF FindGrantedRole, Reached, Moves, Renames, tables
<1>5. CASE AssignPermissions(a)
  BY <1>5, Turns DEF AssignPermissions, Moves, Renames
<1>6. CASE RemovePermissions(a)
  BY <1>6, Turns DEF RemovePermissions, Moves, Renames
<1>7. CASE AssignRole(a)
  BY <1>7, Turns DEF AssignRole, Moves, Renames
<1>8. CASE RemoveRole(a)
  BY <1>8, Turns DEF RemoveRole, Moves, Renames
<1> QED
  BY <1>1, <1>2, <1>3, <1>4, <1>5, <1>6, <1>7, <1>8 DEF AssignmentSteps

LEMMA PermissionMoves ==
  ASSUME WellKept, NEW a \in Admins, PermissionSteps(a)
  PROVE  Moves(a)
<1>1. CASE PermissionRoutes(a)
  <2>1. PICK r \in Asks \intersect PermissionRequests :
          /\ Idle(a) /\ Take(a) /\ UNCHANGED logs
          /\ Refuse(a, "ValidationError") \/ Await(a, r, r.op)
    BY <1>1 DEF PermissionRoutes
  <2>2. r.op # "idle"
    BY DEF PermissionRequests
  <2> QED BY <2>1, <2>2, Turns DEF Idle, Take, Moves, Renames
<1>2. CASE CreatePermission(a)
  <2>1. CASE Refuse(a, "Conflict")
    BY <1>2, <2>1, Turns DEF CreatePermission, Moves, Renames
  <2>2. CASE /\ Named("permission", req[a].name) = {}
             /\ Insert("permission", PermissionRow(req[a].name, req[a].note)) /\ Answer(a, 200, req[a].name)
    <3>1. PICK i, new : /\ i = (CHOOSE j \in FreshIds("permission") : TRUE)
                        /\ new = PermissionRow(req[a].name, req[a].note)
      OBVIOUS
    <3>2. i \in Ids["permission"] /\ Put("permission", i, new) /\ new.name = req[a].name
      BY <2>2, <3>1, FreshFacts, KindFacts DEF WellKept, Insert, PermissionRow, Row
    <3>3. Renames
      BY <2>2, <3>2, RowRenamed, KindFacts
    <3> QED BY <1>2, <2>2, <3>3, Turns DEF CreatePermission, Moves
  <2> QED BY <1>2, <2>1, <2>2 DEF CreatePermission
<1>3. CASE FindPermission(a)
  BY <1>3, Turns DEF FindPermission, Moves, Renames, tables
<1>4. CASE UpdatePermission(a)
  <2>1. PICK i, new : i = req[a].id /\ new = [table["permission"][i] EXCEPT !.note = req[a].note]
    OBVIOUS
  <2>2. \/ i \in Rows("permission") /\ Put("permission", i, new) /\ Turn(a)
        \/ UNCHANGED table /\ Turn(a)
    BY <1>4, <2>1, Turns DEF UpdatePermission
  <2>3. ASSUME i \in Rows("permission"), Put("permission", i, new) PROVE Renames
    <3>1. /\ i \in Ids["permission"]
          /\ table["permission"][i] \in [name : Names, note : Texts, active : BOOLEAN, system : BOOLEAN]
      BY <2>3, RowType, KindFacts DEF WellKept
    <3>2. new.name = table["permission"][i].name
      BY <2>1, <3>1
    <3> QED BY <2>3, <3>1, <3>2, RowRenamed, KindFacts
  <2>4. Renames
    BY <2>2, <2>3 DEF Renames
  <2> QED BY <1>4, <2>2, <2>4 DEF UpdatePermission, Moves
<1>5. CASE DeletePermission(a)
  <2>1. PICK i, new : i = req[a].id /\ new = IF table["permission"][i] = Unused THEN Unused ELSE Gone
    OBVIOUS
  <2>2. i \in Ids["permission"]
    BY <1>5, <2>1, HandlerFacts, RequestFields DEF DeletePermission, Reached, PermissionAt
  <2>3. Put("permission", i, new)
    BY <1>5, <2>1 DEF DeletePermission, Put
  <2>4. Renames
    BY <2>1, <2>2, <2>3, RowRenamed, KindFacts
  <2> QED BY <1>5, <2>4, Turns DEF DeletePermission, Moves
<1>6. CASE List(a, "permission", ListPermissions(req[a])) /\ UNCHANGED budget
  BY <1>6, Turns DEF List, Moves, Renames, tables
<1> QED
  BY <1>1, <1>2, <1>3, <1>4, <1>5, <1>6 DEF PermissionSteps

\* A client is named by its own id or by one of the names.
LEMMA ClientNames ==
  ASSUME ClientsOK, NEW i \in Rows("client")
  PROVE  table["client"][i].name = i \/ table["client"][i].name \in Names
<1>1. CASE i \in SeedIds
  <2>1. PICK j \in DOMAIN Migrations : AddsClient(j) /\ Migrations[j].name = table["client"][i].name
    BY <1>1 DEF ClientsOK, SeededClient
  <2>2. Migrations[j].name \in Names
    BY <2>1, StatementFacts DEF AddsClient
  <2> QED BY <2>1, <2>2
<1>2. CASE i \notin SeedIds
  <2>1. \/ table["client"][i].name = i
        \/ table["client"][i].name \in {SeedClients[j] : j \in DOMAIN SeedClients}
    BY <1>2 DEF ClientsOK, OtherClient
  <2>2. \A j \in DOMAIN SeedClients : SeedClients[j] \in Names
    BY SeedsAssumption
  <2> QED BY <2>1, <2>2
<1> QED BY <1>1, <1>2

LEMMA ClientMoves ==
  ASSUME WellKept, ClientsOK, NEW a \in Admins, ClientSteps(a)
  PROVE  Moves(a)
<1>1. CASE ClientRoutes(a)
  <2>1. PICK r \in Asks \intersect ClientRequests :
          /\ Idle(a) /\ Take(a) /\ UNCHANGED logs
          /\ \/ Refuse(a, "ValidationError") \/ Await(a, r, "insert")
             \/ Await(a, r, IF r.op \in {"list", "update"} THEN r.op ELSE "find")
    BY <1>1 DEF ClientRoutes
  <2>2. PICK to : to = IF r.op \in {"list", "update"} THEN r.op ELSE "find"
    OBVIOUS
  <2>3. to # "idle"
    BY <2>2
  <2> QED BY <2>1, <2>2, <2>3, Turns DEF Take, Idle, Moves, Renames
<1>2. CASE InsertClient(a)
  <2>1. CASE Refuse(a, "ValidationError") \/ Refuse(a, "Database")
    BY <1>2, <2>1, Turns DEF InsertClient, Moves, Renames
  <2>2. CASE /\ Insert("client", ClientRow(CHOOSE i \in FreshIds("client") : TRUE, ClientForm))
             /\ GoOn(a, "parts", CHOOSE i \in FreshIds("client") : TRUE)
    <3>1. PICK i, new : i = (CHOOSE j \in FreshIds("client") : TRUE) /\ new = ClientRow(i, ClientForm)
      OBVIOUS
    <3>2. i \in Ids["client"] /\ Put("client", i, new) /\ new.name = i
      BY <2>2, <3>1, FreshFacts, KindFacts DEF WellKept, Insert, ClientRow
    <3>3. Named("client", i) \subseteq {i}
      BY <3>2, ClientNames, SeedsAssumption DEF Named
    <3>4. Renames
      BY <3>2, <3>3, RowRenamed, KindFacts
    <3> QED BY <1>2, <2>2, <3>4, Turns DEF InsertClient, Reached, Moves
  <2> QED BY <1>2, <2>1, <2>2 DEF InsertClient
<1>3. CASE FindClient(a)
  BY <1>3, Turns DEF FindClient, Reached, Moves, Renames, tables
<1>4. CASE FindClientParts(a)
  BY <1>4, Turns DEF FindClientParts, Reached, Moves, Renames, tables
<1>5. CASE UpdateClient(a)
  BY <1>5, Turns DEF UpdateClient, Moves, Renames
<1>6. CASE DeleteClient(a)
  <2>1. PICK i, new : i = loaded[a] /\ new = [table["client"][i] EXCEPT !.active = FALSE]
    OBVIOUS
  <2>2. i \in Rows("client") /\ i \in Ids["client"] /\ Put("client", i, new)
    BY <1>6, <2>1, HandlerFacts DEF DeleteClient, Reached, ClientAt, Rows
  <2>3. new.name = table["client"][i].name
    BY <2>1, <2>2, RowType, KindFacts, ClientRows DEF WellKept
  <2>4. Renames
    BY <2>2, <2>3, RowRenamed, KindFacts
  <2> QED BY <1>6, <2>4, Turns DEF DeleteClient, Moves
<1>7. CASE ListClients(a)
  BY <1>7, Turns DEF ListClients, List, Moves, Renames, tables
<1> QED
  BY <1>1, <1>2, <1>3, <1>4, <1>5, <1>6, <1>7 DEF ClientSteps

LEMMA AuditMoves ==
  ASSUME NEW a \in Admins, AuditSteps(a)
  PROVE  Moves(a)
<1>1. CASE AuditRoutes(a)
  BY <1>1, Turns DEF AuditRoutes, Idle, Take, Moves, Renames
<1>2. CASE CountLogs(a)
  BY <1>2, Turns DEF CountLogs, Reached, Moves, Renames, tables
<1>3. CASE ReadPage(a)
  BY <1>3, Turns DEF ReadPage, Moves, Renames, tables
<1>4. CASE ExportLogs(a)
  BY <1>4, Turns DEF ExportLogs, Moves, Renames, tables
<1> QED
  BY <1>1, <1>2, <1>3, <1>4 DEF AuditSteps

StageNames == {Stages[j] : j \in DOMAIN Stages}
ScopeNames == {SeedScopes[j] : j \in DOMAIN SeedScopes}

\* The part of the type invariant that BootInv does not have.
Counts ==
  /\ phase \in StageNames \union {"down", "failed"}
  /\ next \in 1..(Length(phase) + 1) /\ ends \in 0..MaxEnds
  /\ scopes \subseteq ScopeNames
  /\ logs \in 0..MaxLogs /\ budget \in 0..MaxRequests
  /\ \A a \in Admins : phase # "serving" => awaits[a] = "idle"
  /\ Aligned

LEMMA ServeTyped ==
  ASSUME BootInv, Counts, UniqueNames, Serve
  PROVE  UniqueNames' /\ Counts'
<1>1. WellKept /\ TablesOK /\ HandlersOK /\ ClientsOK
  BY DEF BootInv, WellKept
<1>2. UNCHANGED <<phase, next, ends, scopes>> /\ phase = "serving"
  BY DEF Serve, boot
<1>3. ASSUME NEW a \in Admins, AdminSteps(a) PROVE UniqueNames' /\ Counts'
  <2>1. Moves(a)
    BY <1>1, <1>3, UserMoves, RoleMoves, PermissionMoves, AssignmentMoves, ClientMoves, AuditMoves DEF AdminSteps
  <2>2. UniqueNames' /\ Aligned'
    BY <1>1, <2>1, RenamesFacts, TurnFacts DEF Moves, Counts
  <2>3. budget' \in 0..MaxRequests /\ logs' \in 0..MaxLogs
    BY <2>1, AdministrationAssumption DEF Moves, Counts
  <2> QED BY <1>2, <2>2, <2>3 DEF Counts
<1>4. ASSUME Record PROVE UniqueNames' /\ Counts'
  <2>1. UNCHANGED <<table, awaits, req, budget>> /\ logs' \in 0..MaxLogs
    BY <1>4, AdministrationAssumption DEF Record, tables, Counts
  <2> QED BY <1>2, <2>1 DEF Counts, Aligned, UniqueNames, Rows
<1> QED
  BY <1>3, <1>4 DEF Serve

\* The rows that a start adds have names that were nobody's.
LEMMA InsertedRenames ==
  ASSUME TablesOK, NEW k \in Kinds, NEW n \in Names, Named(k, n) = {}, NEW i \in Ids[k],
         Put(k, i, SeedRow(k, n))
  PROVE  Renames
<1>1. PICK new : new = SeedRow(k, n)
  OBVIOUS
<1>2. Put(k, i, new) /\ new.name = n
  BY <1>1, SeedRowType
<1>3. Named(k, new.name) \subseteq {i}
  BY <1>2
<1> QED BY <1>2, <1>3, RowRenamed

LEMMA SeedRenames ==
  ASSUME TablesOK, NEW k \in Kinds, NEW n \in Names, Seed(k, n)
  PROVE  Renames
<1>1. CASE UNCHANGED table
  BY <1>1 DEF Renames
<1>2. CASE Named(k, n) = {} /\ Insert(k, SeedRow(k, n))
  <2>1. PICK i : i = CHOOSE j \in FreshIds(k) : TRUE
    OBVIOUS
  <2>2. i \in Ids[k] /\ Put(k, i, SeedRow(k, n))
    BY <1>2, <2>1, FreshFacts DEF Insert
  <2> QED BY <1>2, <2>2, InsertedRenames
<1> QED BY <1>1, <1>2 DEF Seed

LEMMA MigrateRenames ==
  ASSUME BootInv, Migrate
  PROVE  Renames
<1>1. TablesOK /\ next \in Nat \ {0}
  BY DEF BootInv, WellKept
<1>2. CASE UNCHANGED table
  BY <1>2 DEF Renames
<1>3. ASSUME next <= Len(Migrations), Execute(Migrations[next]) PROVE Renames
  <2>1. next \in DOMAIN Migrations
    BY <1>1, <1>3, StartUpAssumption
  <2>2. PICK s : s = Migrations[next]
    OBVIOUS
  <2>3. /\ s.op \in {"insert", "list", "grant", "member"}
        /\ s.op = "insert" => s.kind \in Kinds /\ s.id \in SeedIds /\ s.id \in Ids[s.kind] /\ s.name \in Names
        /\ s.op = "list" => s.client \in Names /\ s.part \in Parts /\ s.values \in SUBSET Values
    BY <2>1, <2>2, StatementFacts
  <2>4. CASE s.op = "insert"
    <3>1. CASE UNCHANGED table
      BY <3>1 DEF Renames
    <3>2. CASE Named(s.kind, s.name) = {} /\ Put(s.kind, s.id, SeedRow(s.kind, s.name))
      BY <1>1, <2>3, <2>4, <3>2, InsertedRenames
    <3>3. InsertOrIgnore(s)
      BY <1>3, <2>2, <2>4 DEF Execute
    <3> QED BY <3>1, <3>2, <3>3 DEF InsertOrIgnore
  <2>5. CASE s.op = "list"
    <3>1. table' = [table EXCEPT !["client"] = [i \in Ids["client"] |->
            IF i \in Named("client", s.client) THEN WithList(@[i], s) ELSE @[i]]]
      BY <1>3, <2>2, <2>5 DEF Execute
    <3>2. OnlyAdded /\ Rows("client")' = Rows("client")
      BY <1>1, <2>3, <2>5, <3>1, ListsWritten
    <3>3. \A k \in Kinds : k # "client" => table'[k] = table[k]
      BY <1>1, <3>1 DEF TablesOK
    <3>4. \A k \in Kinds : k # "client" => Rows(k)' = Rows(k)
      BY <3>3 DEF Rows
    <3>5. \A k \in Kinds : Rows(k)' = Rows(k)
      BY <3>2, <3>4
    <3>6. \A k \in Kinds : \A i \in Rows(k)' : i \in Rows(k) /\ table'[k][i].name = table[k][i].name
      BY <3>2, <3>5 DEF OnlyAdded, RowsStay
    <3> QED BY <3>6 DEF Renames
  <2>6. CASE s.op \in {"grant", "member"}
    BY <1>3, <2>2, <2>6 DEF Execute, Renames
  <2> QED BY <2>3, <2>4, <2>5, <2>6
<1> QED
  BY <1>2, <1>3 DEF Migrate, tables

LEMMA ClientsRename ==
  ASSUME BootInv, SeedOAuthClients
  PROVE  Renames
<1>1. TablesOK /\ next \in Nat \ {0} /\ phase = "clients" /\ HalfAdded
  BY DEF BootInv, WellKept, SeedOAuthClients
<1>2. CASE UNCHANGED table
  BY <1>2 DEF Renames
<1>3. ASSUME next <= Len(SeedClients), Named("client", SeedClients[next]) = {},
             Insert("client", SeedRow("client", SeedClients[next]))
      PROVE  Renames
  <2>1. SeedClients[next] \in Names
    BY <1>1, <1>3, SeedClientFacts
  <2>2. PICK n, i : n = SeedClients[next] /\ i = CHOOSE j \in FreshIds("client") : TRUE
    OBVIOUS
  <2>3. i \in Ids["client"] /\ Put("client", i, SeedRow("client", n))
    BY <1>1, <1>3, <2>2, FreshFacts, KindFacts DEF Insert
  <2> QED BY <1>1, <1>3, <2>1, <2>2, <2>3, InsertedRenames, KindFacts
<1>4. ASSUME todo # Null, todo # <<>>,
             LET i == CHOOSE i \in Named("client", SeedClients[next]) : TRUE IN
             Put("client", i, WithList(table["client"][i], Head(todo)))
      PROVE  Renames
  <2>1. PICK i \in Rows("client") : Named("client", SeedClients[next]) = {i} /\ todo \in Seq(Listings)
    BY <1>1, <1>4 DEF HalfAdded
  <2>2. (CHOOSE g \in Named("client", SeedClients[next]) : TRUE) = i
    BY <2>1
  <2>3. PICK s, entry : s = Head(todo) /\ entry = table["client"][i]
    OBVIOUS
  <2>4. s.part \in Parts /\ s.values \in SUBSET Values
    <3>1. s \in Listings
      BY <1>4, <2>1, <2>3
    <3> QED BY <3>1 DEF Listings
  <2>5. entry \in RowsOf("client") /\ i \in Ids["client"]
    BY <1>1, <2>3, RowType, KindFacts
  <2>6. WithList(entry, s).name = entry.name
    BY <2>4, <2>5, WithListFacts
  <2>7. PICK new : new = WithList(entry, s)
    OBVIOUS
  <2>8. Put("client", i, new)
    BY <1>4, <2>2, <2>3, <2>7
  <2>9. new.name = table["client"][i].name
    BY <2>3, <2>6, <2>7
  <2> QED BY <2>5, <2>8, <2>9, RowRenamed, KindFacts
<1> QED
  BY <1>2, <1>3, <1>4 DEF SeedOAuthClients

\* Where a step of the start leaves the process.
LEMMA BootMoves ==
  ASSUME Counts, BootInv, Boot
  PROVE  /\ phase # "serving" /\ UNCHANGED <<logs, handlers, ends>>
         /\ phase' \in StageNames \union {"failed"}
         /\ next' \in 1..(Length(phase') + 1)
         /\ scopes' \subseteq ScopeNames
<1>0. /\ "migrate" \in StageNames /\ "user" \in StageNames /\ "roles" \in StageNames /\ "permissions" \in StageNames
      /\ "grants" \in StageNames /\ "clients" \in StageNames /\ "scopes" \in StageNames /\ "serving" \in StageNames
  <2>1. DOMAIN Stages = 1..8
    BY DEF Stages
  <2>2. /\ Stages[1] = "migrate" /\ Stages[2] = "user" /\ Stages[3] = "roles" /\ Stages[4] = "permissions"
        /\ Stages[5] = "grants" /\ Stages[6] = "clients" /\ Stages[7] = "scopes" /\ Stages[8] = "serving"
    BY DEF Stages
  <2> QED BY <2>1, <2>2 DEF StageNames
<1>1. next \in 1..(Length(phase) + 1) /\ scopes \subseteq ScopeNames
  BY DEF Counts
<1>2. /\ Len(Migrations) \in Nat /\ Len(SeedRoles) \in Nat /\ Len(SeedPermissions) \in Nat
      /\ Len(SeedClients) \in Nat /\ Len(SeedScopes) \in Nat 
      /\ \A j \in Nat \ {0} : j <= Len(SeedScopes) => SeedScopes[j] \in ScopeNames
  BY StartUpAssumption, SeedsAssumption DEF ScopeNames
<1>3. /\ Length("migrate") = Len(Migrations) /\ Length("failed") = Len(Migrations)
      /\ Length("user") = 0 /\ Length("roles") = Len(SeedRoles) /\ Length("permissions") = Len(SeedPermissions)
      /\ Length("grants") = 0 /\ Length("clients") = Len(SeedClients) /\ Length("scopes") = Len(SeedScopes)
      /\ Length("serving") = 0
  BY DEF Length
<1>4. ASSUME Proceed,
             phase \in {"migrate", "user", "roles", "permissions", "grants", "clients", "scopes"}
      PROVE  /\ phase' \in {"user", "roles", "permissions", "grants", "clients", "scopes", "serving"}
             /\ next' \in 1..(Length(phase') + 1) /\ UNCHANGED <<ends, scopes>>
  <2>1. phase' \in {"user", "roles", "permissions", "grants", "clients", "scopes", "serving"}
    BY <1>4, StageFacts DEF Proceed
  <2> QED BY <1>2, <1>3, <1>4, <2>1 DEF Proceed
<1>5. CASE Start
  BY <1>0, <1>1, <1>2, <1>3, <1>5 DEF Start, NoRequest
<1>6. CASE Migrate
  <2>1. phase = "migrate" /\ NoRequest
    BY <1>6 DEF Migrate
  <2>2. CASE Proceed
    BY <1>0, <1>1, <1>4, <2>1, <2>2 DEF NoRequest
  <2>3. CASE next <= Len(Migrations) /\ GoForth
    BY <1>0, <1>1, <1>2, <1>3, <2>1, <2>3 DEF GoForth, NoRequest
  <2>4. CASE phase' = "failed" /\ UNCHANGED <<next, ends, scopes>>
    BY <1>0, <1>1, <1>3, <2>1, <2>4 DEF NoRequest
  <2> QED BY <1>6, <2>2, <2>3, <2>4 DEF Migrate
<1>7. CASE SeedAdminUser
  BY <1>0, <1>1, <1>4, <1>7 DEF SeedAdminUser, NoRequest
<1>8. CASE SeedDefaultRoles
  <2>1. phase = "roles" /\ NoRequest /\ (Proceed \/ (~(next > Len(SeedRoles)) /\ GoForth))
    BY <1>8 DEF SeedDefaultRoles
  <2> QED BY <1>0, <1>1, <1>2, <1>3, <1>4, <2>1 DEF GoForth, NoRequest
<1>9. CASE SeedDefaultPermissions
  <2>1. phase = "permissions" /\ NoRequest /\ (Proceed \/ (~(next > Len(SeedPermissions)) /\ GoForth))
    BY <1>9 DEF SeedDefaultPermissions
  <2> QED BY <1>0, <1>1, <1>2, <1>3, <1>4, <2>1 DEF GoForth, NoRequest
<1>10. CASE SeedRolePermissions
  <2>1. phase = "grants" /\ NoRequest /\ (Proceed \/ UNCHANGED <<phase, next, ends, scopes>>)
    BY <1>10 DEF SeedRolePermissions
  <2> QED BY <1>0, <1>1, <1>4, <2>1 DEF NoRequest
<1>11. CASE SeedOAuthClients
  <2>1. phase = "clients" /\ NoRequest
    BY <1>11 DEF SeedOAuthClients
  <2>2. \/ Proceed
        \/ UNCHANGED <<phase, next, ends, scopes>>
        \/ next <= Len(SeedClients) /\ next' = next + 1 /\ UNCHANGED <<phase, ends, scopes>>
    <3>1. todo = <<>> => next <= Len(SeedClients)
      <4>1. <<>> # Null
        BY SeedsAssumption
      <4> QED BY <2>1, <4>1 DEF BootInv, HalfAdded
    <3> QED BY <1>11, <3>1 DEF SeedOAuthClients, GoForth
  <2> QED BY <1>0, <1>1, <1>2, <1>3, <1>4, <2>1, <2>2 DEF NoRequest
<1>12. CASE SeedDefaultScopes
  <2>1. /\ phase = "scopes" /\ NoRequest
        /\ \/ Proceed
           \/ /\ ~(next > Len(SeedScopes)) /\ scopes' = scopes \union {SeedScopes[next]}
              /\ next' = next + 1 /\ UNCHANGED <<phase, ends>>
    BY <1>12 DEF SeedDefaultScopes
  <2>2. CASE Proceed
    BY <1>0, <1>1, <1>4, <2>1, <2>2 DEF NoRequest
  <2>3. CASE /\ ~(next > Len(SeedScopes)) /\ scopes' = scopes \union {SeedScopes[next]}
             /\ next' = next + 1 /\ UNCHANGED <<phase, ends>>
    BY <1>0, <1>1, <1>2, <1>3, <2>1, <2>3 DEF NoRequest
  <2> QED BY <2>1, <2>2, <2>3
<1> QED
  BY <1>5, <1>6, <1>7, <1>8, <1>9, <1>10, <1>11, <1>12 DEF Boot

LEMMA BootTyped ==
  ASSUME BootInv, Counts, UniqueNames, Boot
  PROVE  UniqueNames' /\ Counts'
<1>1. TablesOK /\ next \in Nat \ {0}
  BY DEF BootInv, WellKept
<1>2. Renames
  <2>1. CASE UNCHANGED table
    BY <2>1 DEF Renames
  <2>2. CASE Migrate
    BY <2>2, MigrateRenames
  <2>3. CASE SeedAdminUser
    BY <1>1, <2>3, SeedRenames, SeedsAssumption, KindFacts DEF SeedAdminUser
  <2>4. CASE SeedDefaultRoles /\ ~(next > Len(SeedRoles))
    <3>1. SeedRoles[next] \in Names
      BY <1>1, <2>4, SeedsAssumption
    <3> QED BY <1>1, <2>4, <3>1, SeedRenames, KindFacts DEF SeedDefaultRoles
  <2>5. CASE SeedDefaultPermissions /\ ~(next > Len(SeedPermissions))
    <3>1. SeedPermissions[next] \in Names
      BY <1>1, <2>5, SeedsAssumption
    <3> QED BY <1>1, <2>5, <3>1, SeedRenames, KindFacts DEF SeedDefaultPermissions
  <2>6. CASE SeedOAuthClients
    BY <2>6, ClientsRename
  <2> QED
    BY <2>1, <2>2, <2>3, <2>4, <2>5, <2>6
       DEF Boot, Start, SeedDefaultRoles, SeedDefaultPermissions, SeedRolePermissions, SeedDefaultScopes, tables
<1>3. UniqueNames'
  BY <1>1, <1>2, RenamesFacts
<1>4. /\ phase # "serving" /\ UNCHANGED <<logs, handlers, ends>>
      /\ phase' \in StageNames \union {"failed"}
      /\ next' \in 1..(Length(phase') + 1)
      /\ scopes' \subseteq ScopeNames
  BY BootMoves
<1>5. UNCHANGED <<logs, awaits, req, budget>>
  BY <1>4 DEF handlers
<1> QED BY <1>3, <1>4, <1>5 DEF Counts, Aligned

\* UniqueNames and Counts are inductive, given BootInv.
LEMMA TypesStep ==
  ASSUME BootInv, Counts, UniqueNames, [BootNext]_bootVars
  PROVE  UniqueNames' /\ Counts'
<1>1. CASE Quit
  <2>1. UNCHANGED <<table, logs, budget, scopes>> /\ phase' = "down" /\ next' = 1
    BY <1>1 DEF Quit, tables
  <2>2. UniqueNames' /\ Aligned'
    BY <1>1, <2>1 DEF Quit, UniqueNames, Rows, Aligned
  <2>3. ends' \in 0..MaxEnds /\ next' \in 1..(Length(phase') + 1)
    BY <1>1, <2>1, StartUpAssumption DEF Quit, Counts, Length
  <2> QED BY <1>1, <2>1, <2>2, <2>3 DEF Quit, Counts
<1>2. CASE UNCHANGED bootVars
  BY <1>2 DEF bootVars, adminVars, tables, handlers, boot, UniqueNames, Rows, Counts, Aligned
<1> QED
  BY <1>1, <1>2, BootTyped, ServeTyped DEF BootNext

LEMMA TypesInit == BootInit => UniqueNames /\ Counts
BY AdministrationAssumption, StartUpAssumption
   DEF BootInit, AdminInit, UniqueNames, Rows, Counts, Aligned, Length

\* What the initial state and every step keep is what the type invariant says.
LEMMA TypesFollow == BootInv /\ Counts /\ UniqueNames => BootTypeOK
<1> SUFFICES ASSUME BootInv, Counts, UniqueNames PROVE BootTypeOK
  OBVIOUS
<1>1. \A k \in Kinds : Rows(k) \subseteq Ids[k] /\ \A i \in Rows(k) : table[k][i] \in RowsOf(k)
  BY RowType DEF BootInv, WellKept
<1>2. roleGrants \subseteq Ids["role"] \X Ids["permission"] /\ members \subseteq Ids["user"] \X Ids["role"]
  BY <1>1, KindFacts DEF BootInv, WellKept, References
<1> QED
  BY <1>1, <1>2 DEF BootTypeOK, UniqueNames, Counts, Aligned, StageNames, ScopeNames

\* The type invariant of the database and of the process (BootTypeOK): whatever
\* requests are in hand when the process ends and starts again, no two rows of a
\* table have one name, and an administrator awaits something only while serving.
THEOREM BootTypes == BootSpec => []BootTypeOK
<1>1. BootInit => UniqueNames /\ Counts
  BY TypesInit
<1>2. BootInv /\ Counts /\ UniqueNames /\ [BootNext]_bootVars => UniqueNames' /\ Counts'
  BY TypesStep
<1>3. BootInv /\ Counts /\ UniqueNames => BootTypeOK
  BY TypesFollow
<1> QED BY <1>1, <1>2, <1>3, BootInvariant, PTL DEF BootSpec
=============================================================================
