---------------------------- MODULE UserAccount -----------------------------
(***************************************************************************)
(* One user's row: login with its failure counter and lock, and the        *)
(* administrator's update and soft delete                                  *)
(* (oauth-service/src/services/user_service.rs).  Rows of different users  *)
(* do not interact.                                                        *)
(*                                                                         *)
(* authenticate and update_user read the row, compute, and write columns   *)
(* back in a second statement, without a transaction; between the two any  *)
(* other request may run.                                                  *)
(*                                                                         *)
(* The clock is relative: lock_left is the time until locked_until, 0 when *)
(* locked_until is NULL or has passed (the code never tells these apart).  *)
(* Counters above MaxAttempts behave like MaxAttempts.                     *)
(***************************************************************************)
EXTENDS Naturals, FiniteSets

CONSTANTS
  Requests,     \* the concurrent requests about this user
  MaxAttempts,  \* failures that lock the account: 5
  LockTime,     \* length of a lock: 30 minutes
  GuessBound,   \* what GuessesAreBounded claims
  Calls         \* the operations invoked in this instance

Attempts == 0..MaxAttempts

\* How many requests have each count before them, for each way they may have.
Tally(counts) == [n \in Attempts |-> Cardinality({r \in Requests : counts[r] = n})]
Tallies == {Tally(counts) : counts \in [Requests -> Attempts]}

ASSUME AccountAssumption ==
  /\ MaxAttempts \in Nat \ {0} /\ LockTime \in Nat \ {0} /\ GuessBound \in Nat
  /\ Calls \subseteq {"guess", "login", "update", "delete"}

\* The first tally needs no guess to reach, and each guess may reach one more.
ASSUME GuessAssumption ==
  IsFiniteSet(Requests) /\ Cardinality(Tallies) <= GuessBound + 1

VARIABLES
  is_active,              \* column is_active
  failed_login_attempts,  \* column failed_login_attempts
  lock_left,              \* column locked_until, relative to now
  pc,                     \* request -> where its handler is
  seen,                   \* request -> failed_login_attempts as it read it
  writes_active,          \* request -> the is_active an update will write
  guesses,                \* history: wrong passwords tried since the last
                          \* success or the last end of a lock
  deleted,                \* history: delete_user was called, and nobody has
                          \* asked to activate the user since
  overlapped              \* history: a request began while another one was
                          \* between its two statements

row == <<is_active, failed_login_attempts, lock_left>>
vars == <<row, pc, seen, writes_active, guesses, deleted, overlapped>>

Least(a, b) == IF a < b THEN a ELSE b

Locked == lock_left > 0

GoTo(r, from, to) == pc[r] = from /\ pc' = [pc EXCEPT ![r] = to]

\* A request begins.
Begins == overlapped' = (overlapped \/ \E r \in Requests : pc[r] # "idle")

\* The handler is finished and its local state is gone.
End(r) ==
  /\ pc' = [pc EXCEPT ![r] = "idle"]
  /\ seen' = [seen EXCEPT ![r] = 0]
  /\ writes_active' = [writes_active EXCEPT ![r] = FALSE]

-----------------------------------------------------------------------------
(* The row as create_user inserts it; the username is UNIQUE, so a second  *)
(* creation fails and changes nothing.                                     *)
Init ==
  /\ is_active = TRUE /\ failed_login_attempts = 0 /\ lock_left = 0
  /\ pc = [r \in Requests |-> "idle"]
  /\ seen = [r \in Requests |-> 0]
  /\ writes_active = [r \in Requests |-> FALSE]
  /\ guesses = 0 /\ deleted = FALSE /\ overlapped = FALSE

\* Mutant of LoginRead: the lock is not checked.
LoginReadLocked(r, answer) ==
  /\ answer \in Calls
  /\ GoTo(r, "idle", answer)
  /\ is_active
  /\ seen' = [seen EXCEPT ![r] = failed_login_attempts]
  /\ Begins
  /\ UNCHANGED <<row, writes_active, guesses, deleted>>

(* authenticate reads the row and refuses an inactive or locked user.  The *)
(* password is a wrong guess or the right one ("login").                   *)
LoginRead(r, answer) ==
  /\ answer \in Calls
  /\ GoTo(r, "idle", answer)
  /\ is_active /\ ~Locked
  /\ seen' = [seen EXCEPT ![r] = failed_login_attempts]
  /\ Begins
  /\ UNCHANGED <<row, writes_active, guesses, deleted>>

\* Mutant of LockFor: one failure more is needed.
LockForLate(n) == IF n > MaxAttempts THEN LockTime ELSE 0

\* The locked_until that goes with a new failure count.
LockFor(n) == IF n >= MaxAttempts THEN LockTime ELSE 0

(* The password is wrong: both columns are written from the count read.    *)
LoginWrong(r) ==
  /\ pc[r] = "guess"
  /\ End(r)
  /\ failed_login_attempts' = Least(seen[r] + 1, MaxAttempts)
  /\ lock_left' = LockFor(seen[r] + 1)
  /\ guesses' = Least(guesses + 1, GuessBound + 1)
  /\ UNCHANGED <<is_active, deleted, overlapped>>

(* The password is right: the counter and the lock are cleared, if the     *)
(* count read was not zero.                                                *)
LoginRight(r) ==
  /\ pc[r] = "login"
  /\ End(r)
  /\ failed_login_attempts' = IF seen[r] > 0 THEN 0 ELSE failed_login_attempts
  /\ lock_left' = IF seen[r] > 0 THEN 0 ELSE lock_left
  /\ guesses' = 0
  /\ UNCHANGED <<is_active, deleted, overlapped>>

\* Mutant of UpdateRead: is_active is TRUE unless the request says otherwise.
UpdateReadDefault(r, wanted) ==
  /\ "update" \in Calls
  /\ GoTo(r, "idle", "updating")
  /\ writes_active' = [writes_active EXCEPT ![r] = wanted # "off"]
  /\ deleted' = (deleted /\ wanted # "on")
  /\ Begins
  /\ UNCHANGED <<row, seen, guesses>>

(* update_user reads the row; is_active is TRUE, FALSE or not in the       *)
(* request ("keep"), and then the value read is written back.              *)
UpdateRead(r, wanted) ==
  /\ "update" \in Calls
  /\ GoTo(r, "idle", "updating")
  /\ writes_active' = [writes_active EXCEPT ![r] =
       CASE wanted = "on" -> TRUE [] wanted = "off" -> FALSE [] wanted = "keep" -> is_active]
  /\ deleted' = (deleted /\ wanted # "on")
  /\ Begins
  /\ UNCHANGED <<row, seen, guesses>>

UpdateWrite(r) ==
  /\ pc[r] = "updating"
  /\ End(r)
  /\ is_active' = writes_active[r]
  /\ UNCHANGED <<failed_login_attempts, lock_left, guesses, deleted, overlapped>>

(* delete_user: a soft delete in one statement.                            *)
Delete ==
  /\ "delete" \in Calls
  /\ is_active' = FALSE
  /\ deleted' = TRUE
  /\ Begins
  /\ UNCHANGED <<failed_login_attempts, lock_left, pc, seen, writes_active, guesses>>

(* A handler is dropped, or the process restarts, before the second        *)
(* statement: nothing was written.                                         *)
Drop(r) ==
  /\ pc[r] # "idle"
  /\ End(r)
  /\ UNCHANGED <<row, guesses, deleted, overlapped>>

Tick ==
  /\ Locked
  /\ lock_left' = lock_left - 1
  /\ guesses' = IF lock_left = 1 THEN 0 ELSE guesses
  /\ UNCHANGED <<is_active, failed_login_attempts, pc, seen, writes_active, deleted, overlapped>>

Next ==
  \/ \E r \in Requests, answer \in {"guess", "login"} : LoginRead(r, answer)
  \/ \E r \in Requests : LoginWrong(r)
  \/ \E r \in Requests : LoginRight(r)
  \/ \E r \in Requests, wanted \in {"on", "off", "keep"} : UpdateRead(r, wanted)
  \/ \E r \in Requests : UpdateWrite(r)
  \/ Delete
  \/ \E r \in Requests : Drop(r)
  \/ Tick

Spec == Init /\ [][Next]_vars

\* Time passes.
FairSpec == Spec /\ WF_vars(Tick)

-----------------------------------------------------------------------------
(* Properties                                                              *)

\* Type invariant of the row, the handlers and the history.
TypeOK ==
  /\ is_active \in BOOLEAN /\ deleted \in BOOLEAN /\ overlapped \in BOOLEAN
  /\ failed_login_attempts \in Attempts
  /\ lock_left \in 0..LockTime
  /\ pc \in [Requests -> {"idle", "guess", "login", "updating"}]
  /\ seen \in [Requests -> Attempts]
  /\ writes_active \in [Requests -> BOOLEAN]
  /\ guesses \in 0..(GuessBound + 1)

\* However the requests interleave, only so many wrong passwords can be tried
\* between two successful logins before the account is locked and stays
\* locked until the lock ends: lost updates of the counter, and locks erased
\* by a login that read the row earlier, cost a bounded number of guesses.
GuessesAreBounded == guesses <= GuessBound

\* As long as no two requests overlapped, MaxAttempts wrong passwords in a row
\* lock the account (test_account_lockout, user_service.rs:482-510).  With
\* overlapping logins failures are lost, and only GuessesAreBounded is left.
FailuresLock == guesses >= MaxAttempts /\ ~overlapped => Locked

\* Every lock ends, even while wrong passwords keep coming in: nobody can
\* keep an account locked without a moment at which its owner may try.
LockEnds == Locked ~> ~Locked

\* As long as no two requests overlapped, a deleted user stays inactive until
\* somebody asks to activate the user.  (An update of another column that read
\* the row before the deletion writes is_active = TRUE back.)
DeletedStaysInactive == deleted /\ ~overlapped => ~is_active
=============================================================================
