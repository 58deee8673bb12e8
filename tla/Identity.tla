------------------------------ MODULE Identity ------------------------------
(***************************************************************************)
(* Accounts, enrolment challenges and passwords (domains/identity,         *)
(* domains/verification/identity.py and authentication.py, and the claim   *)
(* function of revision 0035).                                             *)
(*                                                                         *)
(* Every operation is a transaction at READ COMMITTED that reads without a *)
(* lock where the code does and locks rows where the code does; what it    *)
(* writes lies under its locks and is shown at its commit. The operations  *)
(* on one account meet in two rows, the account and its live challenge,    *)
(* which issue and the claim function lock in opposite orders.             *)
(***************************************************************************)
EXTENDS Naturals, FiniteSets

CONSTANTS
    Accounts, Tokens, Words,
    Clients,         \* connections, one transaction at a time each
    MaxTx,           \* bound: transactions begun
    None

ASSUME IdentityAssumption ==
    None \notin Accounts \cup Tokens \cup Words /\ MaxTx \in Nat

VARIABLES
    account,    \* app_user: is_active, the password its hash verifies, whether
                \* the hash has current parameters; and its role (user_role)
    challenge,  \* credential_enrollment, one row per token
    tx,         \* the transaction of each client
    begun,
    last,       \* history: the password last given to each account
    enrolled    \* history: the challenges whose claim committed, per account

vars == <<account, challenge, tx, begun, last, enrolled>>

Roles  == {"none", "reviewer", "admin"}
NoTx   == [op |-> "none", a |-> None, t |-> None, w |-> None, by |-> None, seen |-> None, late |-> FALSE,
           locks |-> {}]
Absent == [of |-> None, state |-> "absent", expired |-> FALSE]

(* The live challenge of an account (ux_credential_enrollment_live): an      *)
(* expired one that nobody used or revoked still is, for the index.          *)
LiveOf(a) == {t \in Tokens : challenge[t].of = a /\ challenge[t].state = "live"}

(* _administrators *)
Administrators == {a \in Accounts : account[a].role = "admin" /\ account[a].active}

Init ==
    /\ account \in [Accounts -> [active: {TRUE}, word: Words \cup {None},
                                 current: BOOLEAN, role: Roles]]
    /\ \A a \in Accounts : account[a].word = None => account[a].current
    /\ challenge = [t \in Tokens |-> Absent]
    /\ tx = [c \in Clients |-> NoTx]
    /\ begun = 0
    /\ last = [a \in Accounts |-> account[a].word]
    /\ enrolled = [a \in Accounts |-> {}]

----------------------------------------------------------------------------
(* Transactions *)

Free(r, c) == \A d \in Clients \ {c} : r \notin tx[d].locks

Begin(c, r) ==
    /\ tx[c] = NoTx
    /\ begun < MaxTx
    /\ begun' = begun + 1
    /\ tx' = [tx EXCEPT ![c] = r]

LockRow(c, r) ==
    /\ Free(r, c)
    /\ tx' = [tx EXCEPT ![c].locks = @ \cup {r}]
    /\ UNCHANGED <<account, challenge, begun, last, enrolled>>

End(c) == tx' = [tx EXCEPT ![c] = NoTx] /\ UNCHANGED begun

(* Mutant: the transaction of a refused operation stays open. *)
LeaveOpen(c) == UNCHANGED vars

(* The exception of a refused operation rolls back. *)
Refuse(c) == End(c) /\ UNCHANGED <<account, challenge, last, enrolled>>

SetPassword(a, w) ==
    /\ account' = [account EXCEPT ![a].word = w, ![a].current = TRUE]
    /\ last' = [last EXCEPT ![a] = w]

(* authorize_grant: an administrator, whom the caller has authenticated, or  *)
(* nobody while there is none. Read without a lock, before anything else.    *)
MayGrant(by) ==
    IF by = None THEN Administrators = {}
    ELSE by \in Administrators /\ account[by].word # None

----------------------------------------------------------------------------
(* Enrolment *)

BeginIssue(c, a, t, by) ==
    /\ MayGrant(by) /\ challenge[t] = Absent
    /\ \A d \in Clients : tx[d].t # t
    /\ Begin(c, [NoTx EXCEPT !.op = "issue", !.a = a, !.t = t, !.by = by])
    /\ UNCHANGED <<account, challenge, last, enrolled>>

(* read_account, then _claimable_account on the row as it is now. *)
IssueAccount(c) ==
    LET a == tx[c].a IN
    /\ tx[c].op = "issue" /\ a \notin tx[c].locks
    /\ Free(a, c)
    /\ IF account[a].active /\ account[a].word = None /\ account[a].role # "none"
         THEN LockRow(c, a) ELSE Refuse(c)

(* The live row is locked if there is one; without rotate it is a refusal.   *)
IssueLive(c) ==
    LET a == tx[c].a IN
    /\ tx[c].op = "issue" /\ a \in tx[c].locks
    /\ LiveOf(a) # {}
    /\ \E t \in LiveOf(a) \ tx[c].locks : LockRow(c, t) \/ (Free(t, c) /\ Refuse(c))

Reissue(a, t) ==
    challenge' = [u \in Tokens |-> IF u = t THEN [of |-> a, state |-> "live", expired |-> FALSE]
                                   ELSE IF u \in LiveOf(a) THEN [challenge[u] EXCEPT !.state = "revoked"]
                                   ELSE challenge[u]]

IssueCommit(c) ==
    LET a == tx[c].a IN
    /\ tx[c].op = "issue" /\ a \in tx[c].locks
    /\ LiveOf(a) \subseteq tx[c].locks
    /\ Reissue(a, tx[c].t)
    /\ End(c)
    /\ UNCHANGED <<account, last, enrolled>>

(* revoke: one UPDATE of the live row. *)
RevokeChallenge(t) ==
    /\ challenge[t].state = "live"
    /\ \A c \in Clients : t \notin tx[c].locks
    /\ challenge' = [challenge EXCEPT ![t].state = "revoked"]
    /\ UNCHANGED <<account, tx, begun, last, enrolled>>

(* The clock passes expires_at. *)
Expire(t) ==
    /\ challenge[t].state = "live" /\ ~challenge[t].expired
    /\ challenge' = [challenge EXCEPT ![t].expired = TRUE]
    /\ UNCHANGED <<account, tx, begun, last, enrolled>>

(* now() is the start of the transaction: a claim that waits for a lock is   *)
(* judged late or in time by the moment it began.                            *)
BeginClaim(c, t, w) ==
    /\ challenge[t] # Absent
    /\ Begin(c, [NoTx EXCEPT !.op = "claim", !.t = t, !.w = w, !.late = challenge[t].expired])
    /\ UNCHANGED <<account, challenge, last, enrolled>>

(* Mutant: the UPDATE does not ask for expires_at. *)
ClaimExpired(c) ==
    LET t == tx[c].t IN
    /\ tx[c].op = "claim" /\ tx[c].a = None
    /\ Free(t, c)
    /\ IF challenge[t].state = "live"
         THEN /\ tx' = [tx EXCEPT ![c].a = challenge[t].of, ![c].locks = {t}]
              /\ UNCHANGED <<account, challenge, begun, last, enrolled>>
         ELSE Refuse(c)

(* app_claim_enrollment: the conditional UPDATE of the challenge. *)
ClaimChallenge(c) ==
    LET t == tx[c].t IN
    /\ tx[c].op = "claim" /\ tx[c].a = None
    /\ Free(t, c)
    /\ IF challenge[t].state = "live" /\ ~tx[c].late
         THEN /\ tx' = [tx EXCEPT ![c].a = challenge[t].of, ![c].locks = {t}]
              /\ UNCHANGED <<account, challenge, begun, last, enrolled>>
         ELSE Refuse(c)

(* The WHERE of the second UPDATE. *)
Unclaimed(a) == account[a].word = None /\ account[a].active

(* Mutant: the password is set and the challenge left to a later statement. *)
ClaimAccountUnspent(c) ==
    LET a == tx[c].a  t == tx[c].t IN
    /\ tx[c].op = "claim" /\ a # None
    /\ Free(a, c)
    /\ IF Unclaimed(a)
         THEN /\ SetPassword(a, tx[c].w)
              /\ enrolled' = [enrolled EXCEPT ![a] = @ \cup {t}]
              /\ End(c)
              /\ UNCHANGED challenge
         ELSE Refuse(c)

(* The UPDATE of the account, and the commit: the token is spent if and only *)
(* if the password was set.                                                  *)
ClaimAccount(c) ==
    LET a == tx[c].a  t == tx[c].t IN
    /\ tx[c].op = "claim" /\ a # None
    /\ Free(a, c)
    /\ IF Unclaimed(a)
         THEN /\ SetPassword(a, tx[c].w)
              /\ challenge' = [challenge EXCEPT ![t].state = "used"]
              /\ enrolled' = [enrolled EXCEPT ![a] = @ \cup {t}]
              /\ End(c)
         ELSE Refuse(c)

----------------------------------------------------------------------------
(* Passwords *)

(* Mutant: the current password is checked on a row that is not locked. *)
NoLock(a) == {}

(* read_account: SELECT ... FOR UPDATE. *)
ReadAccount(a) == {a}

(* change_own_password: lock, verify, and update in a later statement.       *)
BeginChange(c, a, old, new) ==
    /\ Free(a, c)
    /\ account[a].active /\ account[a].word = old /\ old # None /\ old # new
    /\ Begin(c, [NoTx EXCEPT !.op = "change", !.a = a, !.w = new, !.seen = old,
                       !.locks = ReadAccount(a)])
    /\ UNCHANGED <<account, challenge, last, enrolled>>

ChangeCommit(c) ==
    /\ tx[c].op = "change"
    /\ Free(tx[c].a, c)
    /\ SetPassword(tx[c].a, tx[c].w)
    /\ End(c)
    /\ UNCHANGED <<challenge, enrolled>>

(* reset_password_as_administrator: it does not ask whether the account has  *)
(* a password.                                                               *)
Reset(by, a, w) ==
    /\ begun < MaxTx
    /\ by # None /\ MayGrant(by) /\ account[a].active
    /\ \A c \in Clients : a \notin tx[c].locks
    /\ SetPassword(a, w)
    /\ begun' = begun + 1
    /\ UNCHANGED <<challenge, tx, enrolled>>

(* authenticate (command line): the hash is read without a lock ...          *)
BeginAuthenticate(c, a) ==
    /\ account[a].word # None /\ account[a].active
    /\ ~account[a].current
    /\ Begin(c, [NoTx EXCEPT !.op = "authenticate", !.a = a, !.seen = account[a].word])
    /\ UNCHANGED <<account, challenge, last, enrolled>>

(* ... and replaced by a current hash of the password that was verified.     *)
Rehash(c) ==
    LET a == tx[c].a IN
    /\ tx[c].op = "authenticate"
    /\ Free(a, c)
    /\ account' = [account EXCEPT ![a].word = tx[c].seen, ![a].current = TRUE]
    /\ End(c)
    /\ UNCHANGED <<challenge, last, enrolled>>

----------------------------------------------------------------------------
(* Roles *)

BeginProvision(c, a, by) ==
    /\ MayGrant(by)
    /\ Begin(c, [NoTx EXCEPT !.op = "provision", !.a = a, !.by = by])
    /\ UNCHANGED <<account, challenge, last, enrolled>>

(* provision_reviewer: the account is (re)activated and given a role.        *)
ProvisionCommit(c, role) ==
    LET a == tx[c].a IN
    /\ tx[c].op = "provision"
    /\ Free(a, c)
    /\ account' = [account EXCEPT ![a].active = TRUE,
                                  ![a].role = IF @ = "admin" THEN @ ELSE role]
    /\ End(c)
    /\ UNCHANGED <<challenge, last, enrolled>>

(* No code deactivates an account; an operator does, in SQL.                 *)
Deactivate(a) ==
    /\ begun < MaxTx
    /\ account[a].active
    /\ \A c \in Clients : a \notin tx[c].locks
    /\ account' = [account EXCEPT ![a].active = FALSE]
    /\ begun' = begun + 1
    /\ UNCHANGED <<challenge, tx, last, enrolled>>

----------------------------------------------------------------------------

(* issue holds the account and waits for the challenge, a claim holds the    *)
(* challenge and waits for the account: PostgreSQL aborts one of them.       *)
DeadlockAbort(c) ==
    /\ \E d \in Clients \ {c} :
          /\ {tx[c].op, tx[d].op} = {"issue", "claim"}
          /\ \E i, k \in {c, d} :
                /\ tx[i].op = "issue" /\ tx[k].op = "claim" /\ tx[k].a = tx[i].a
                /\ tx[i].a \in tx[i].locks /\ tx[k].t \in tx[k].locks
                /\ tx[k].t \in LiveOf(tx[i].a)
    /\ Refuse(c)

Step(c) ==
    \/ IssueAccount(c) \/ IssueLive(c) \/ IssueCommit(c)
    \/ ClaimChallenge(c) \/ ClaimAccount(c)
    \/ ChangeCommit(c) \/ Rehash(c)
    \/ \E role \in {"reviewer", "admin"} : ProvisionCommit(c, role)
    \/ DeadlockAbort(c)

Next ==
    \/ \E c \in Clients :
          \/ \E a \in Accounts, t \in Tokens, by \in Accounts \cup {None} : BeginIssue(c, a, t, by)
          \/ \E t \in Tokens, w \in Words : BeginClaim(c, t, w)
          \/ \E a \in Accounts, old, new \in Words : BeginChange(c, a, old, new)
          \/ \E a \in Accounts : BeginAuthenticate(c, a)
          \/ \E a \in Accounts, by \in Accounts \cup {None} : BeginProvision(c, a, by)
          \/ Step(c)
    \/ \E by, a \in Accounts, w \in Words : Reset(by, a, w)
    \/ \E t \in Tokens : RevokeChallenge(t) \/ Expire(t)
    \/ \E a \in Accounts : Deactivate(a)

Spec == Init /\ [][Next]_vars
FairSpec == Spec /\ \A c \in Clients : WF_vars(Step(c))

----------------------------------------------------------------------------
(* Properties *)

Ops == {"none", "issue", "claim", "change", "authenticate", "provision"}
Transactions == [op: Ops, a: Accounts \cup {None}, t: Tokens \cup {None}, w: Words \cup {None},
                 by: Accounts \cup {None}, seen: Words \cup {None}, late: BOOLEAN,
                 locks: SUBSET (Accounts \cup Tokens)]

TypeOK ==
    /\ account \in [Accounts -> [active: BOOLEAN, word: Words \cup {None}, current: BOOLEAN, role: Roles]]
    /\ challenge \in [Tokens -> [of: Accounts \cup {None}, expired: BOOLEAN,
                                 state: {"absent", "live", "used", "revoked"}]]
    /\ tx \in [Clients -> Transactions]
    /\ begun \in 0..MaxTx
    /\ last \in [Accounts -> Words \cup {None}]
    /\ enrolled \in [Accounts -> SUBSET Tokens]

(* A challenge opens an account once: one at most is live at a time, of all  *)
(* the challenges ever issued for it one at most is spent, and a spent one   *)
(* is the one that set its first password.                                   *)
EnrolledOnce ==
    \A a \in Accounts :
        /\ Cardinality(LiveOf(a)) <= 1
        /\ Cardinality(enrolled[a]) <= 1
        /\ {t \in Tokens : challenge[t].of = a /\ challenge[t].state = "used"} = enrolled[a]

(* A password set by the holder of a proof rests on it. A claim is granted,  *)
(* to an account without a password, only for the challenge that is neither  *)
(* used nor revoked at the commit, so that no reissue or revocation that     *)
(* committed before is overtaken, and that had not expired when the          *)
(* transaction of the claim began, which is as far as now() reaches. Who     *)
(* changes a password by proving the present one replaces the password that  *)
(* was proved, not one that was set in between. (Resets rest on no proof of  *)
(* this kind, and a rehash may replace another password: see                 *)
(* LatestPasswordHolds.)                                                     *)
ProofsStillHold ==
    [][/\ \A a \in Accounts : \A t \in enrolled'[a] \ enrolled[a] :
             /\ t \in LiveOf(a) /\ account[a].word = None
             /\ \E c \in Clients : /\ tx[c].op = "claim" /\ tx[c].t = t
                                  /\ tx'[c] = NoTx /\ ~tx[c].late
       /\ \A c \in Clients :
             tx[c].op = "change" /\ tx'[c] = NoTx
                => account[tx[c].a].word = tx[c].seen]_vars

(* The stored hash verifies the password that was last given to the account: *)
(* no operation brings a previous one back.                                  *)
LatestPasswordHolds == \A a \in Accounts : account[a].word = last[a]

(* Every transaction ends, although issue and claim lock their two rows in   *)
(* opposite orders.                                                          *)
EveryTransactionEnds == \A c \in Clients : (tx[c] # NoTx) ~> (tx[c] = NoTx)
=============================================================================
