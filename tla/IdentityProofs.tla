--------------------------- MODULE IdentityProofs ---------------------------
(***************************************************************************)
(* Theorems about Identity, for every set of accounts, challenges,         *)
(* passwords and connections.                                              *)
(*                                                                         *)
(* A transaction trusts what it read as long as it holds the row: a claim  *)
(* holds its challenge, a change of password holds its account. A reissue  *)
(* may revoke only what it holds, so a claimed challenge is still the live *)
(* one when the password is set. That an account without a password has    *)
(* never been enrolled is what makes the second UPDATE of the claim enough *)
(* to keep a second challenge out.                                         *)
(***************************************************************************)
EXTENDS Identity, FiniteSetTheorems, TLAPS

(* No row is locked by two transactions. *)
Exclusive == \A c, d \in Clients : c # d => tx[c].locks \cap tx[d].locks = {}

OneLive == \A a \in Accounts : \A t, u \in LiveOf(a) : t = u

Spent ==
    \A a \in Accounts :
        /\ {t \in Tokens : challenge[t].of = a /\ challenge[t].state = "used"} = enrolled[a]
        /\ \A t, u \in enrolled[a] : t = u
        /\ account[a].word = None => enrolled[a] = {}

(* What the transaction of a client has read and still relies on. *)
Proven(c) ==
    LET a == tx[c].a  t == tx[c].t IN
    /\ tx[c].op = "issue" => a \in Accounts /\ t \in Tokens /\ challenge[t] = Absent
    /\ tx[c].op = "claim" =>
          /\ t \in Tokens /\ tx[c].w \in Words /\ challenge[t] # Absent
          /\ a # None => t \in tx[c].locks /\ t \in LiveOf(a) /\ ~tx[c].late
    /\ tx[c].op = "change" =>
          /\ a \in Accounts /\ tx[c].w \in Words
          /\ a \in tx[c].locks /\ account[a].word = tx[c].seen
    /\ tx[c].op = "authenticate" => a \in Accounts /\ tx[c].seen \in Words
    /\ tx[c].op = "provision" => a \in Accounts

(* A challenge that is being issued is nobody else's. *)
Fresh == \A c, d \in Clients : c # d /\ tx[c].op = "issue" => tx[d].t # tx[c].t

IInv == TypeOK /\ Exclusive /\ OneLive /\ Spent /\ Fresh /\ \A c \in Clients : Proven(c)

----------------------------------------------------------------------------
(* What a step does to a challenge: nothing that matters to who holds it, or *)
(* something only its holder may do.                                         *)
Same(t) == /\ challenge'[t].of = challenge[t].of /\ challenge'[t].state = challenge[t].state
           /\ challenge'[t] = Absent <=> challenge[t] = Absent

(* A step of one client that touches only rows nobody else holds keeps what  *)
(* the others rely on.                                                       *)
LEMMA ClientStep ==
    ASSUME IInv, TypeOK', NEW c \in Clients,
           \A d \in Clients \ {c} : tx'[d] = tx[d],
           \A a \in Accounts : account'[a].word = account[a].word \/ Free(a, c),
           \A t \in Tokens :
              \/ Same(t)
              \/ Free(t, c) /\ challenge[t] # Absent /\ challenge'[t] # Absent
              \/ tx[c].op = "issue" /\ t = tx[c].t /\ challenge'[t] # Absent,
           \A r \in tx'[c].locks : r \in tx[c].locks \/ Free(r, c),
           tx'[c].op = "issue" =>
              \/ tx[c].op = "issue" /\ tx'[c].t = tx[c].t
              \/ \A d \in Clients \ {c} : tx[d].t # tx'[c].t,
           tx'[c].t \in {tx[c].t, None} \/ tx'[c].op = "issue" \/ challenge[tx'[c].t] # Absent,
           OneLive', Spent', Proven(c)'
    PROVE  IInv'
  <1>1. Exclusive'
    BY DEF IInv, Exclusive, Free
  <1>2. Fresh'
    <2> SUFFICES ASSUME NEW d \in Clients, NEW e \in Clients, d # e, tx'[d].op = "issue",
                        tx'[e].t = tx'[d].t
                 PROVE  FALSE
      BY DEF Fresh
    <2>0. \A b \in Clients : tx[b].op = "issue" => tx[b].t \in Tokens /\ tx[b].t # None
                                                   /\ challenge[tx[b].t] = Absent
      BY IdentityAssumption DEF IInv, Proven
    <2>1. CASE d = c
      BY <2>0, <2>1 DEF IInv, Fresh
    <2>2. CASE e = c
      BY <2>0, <2>2 DEF IInv, Fresh
    <2>3. CASE d # c /\ e # c
      BY <2>3 DEF IInv, Fresh
    <2> QED
      BY <2>1, <2>2, <2>3
  <1>3. ASSUME NEW d \in Clients \ {c}
        PROVE  Proven(d)'
    <2>0. tx'[d] = tx[d] /\ Proven(d)
      BY DEF IInv
    <2>1. ASSUME NEW r \in tx[d].locks PROVE ~Free(r, c)
      BY <2>1 DEF Free
    <2>2. CASE tx[d].op = "issue"
      <3>1. tx[d].t \in Tokens /\ challenge[tx[d].t] = Absent
        BY <2>0, <2>2 DEF Proven
      <3>2. ~(tx[c].op = "issue" /\ tx[d].t = tx[c].t)
        BY <2>2 DEF IInv, Fresh
      <3>3. challenge'[tx[d].t] = Absent
        BY <3>1, <3>2 DEF Same
      <3> QED
        BY <2>0, <2>2, <3>3 DEF Proven
    <2>3. CASE tx[d].op = "claim"
      <3>1. tx[d].t \in Tokens /\ challenge[tx[d].t] # Absent
        BY <2>0, <2>3 DEF Proven
      <3>2. tx[c].op = "issue" => challenge[tx[c].t] = Absent
        BY DEF IInv, Proven
      <3>3. challenge'[tx[d].t] # Absent
        BY <3>1, <3>2 DEF Same
      <3>4. tx[d].a # None => tx[d].t \in tx[d].locks /\ tx[d].t \in LiveOf(tx[d].a)
        BY <2>0, <2>3 DEF Proven
      <3>5. tx[d].a # None => Same(tx[d].t)
        BY <2>1, <3>1, <3>2, <3>4
      <3>6. tx[d].a # None => tx[d].t \in LiveOf(tx[d].a)'
        BY <2>0, <3>4, <3>5 DEF LiveOf, Same
      <3> QED
        BY <2>0, <2>3, <3>3, <3>4, <3>6 DEF Proven
    <2>4. CASE tx[d].op = "change"
      BY <2>0, <2>1, <2>4 DEF Proven
    <2>5. CASE tx[d].op \notin {"issue", "claim", "change"}
      BY <2>0, <2>5 DEF Proven
    <2> QED
      BY <2>2, <2>3, <2>4, <2>5
  <1> QED
    BY <1>1, <1>2, <1>3 DEF IInv

----------------------------------------------------------------------------
(* Steps that write nothing yet: a transaction begins, locks a row, or ends. *)

LEMMA ReadingStep ==
    ASSUME IInv, NEW c \in Clients, NEW r \in Transactions, tx' = [tx EXCEPT ![c] = r],
           UNCHANGED <<account, challenge, last, enrolled>>, begun' \in 0..MaxTx,
           \A x \in r.locks : x \in tx[c].locks \/ Free(x, c),
           r.op = "issue" =>
              \/ tx[c].op = "issue" /\ r.t = tx[c].t
              \/ \A d \in Clients \ {c} : tx[d].t # r.t,
           r.t \in {tx[c].t, None} \/ r.op = "issue" \/ challenge[r.t] # Absent,
           Proven(c)'
    PROVE  IInv'
  <1>1. tx'[c] = r /\ \A d \in Clients \ {c} : tx'[d] = tx[d]
    BY DEF IInv, TypeOK
  <1>2. TypeOK'
    BY DEF IInv, TypeOK
  <1>3. OneLive' /\ Spent'
    BY DEF IInv, OneLive, LiveOf, Spent
  <1>4. \A t \in Tokens : Same(t)
    BY DEF Same
  <1> QED
    BY <1>1, <1>2, <1>3, <1>4, ClientStep

LEMMA NoTransaction == NoTx \in Transactions
  BY DEF NoTx, Transactions, Ops

LEMMA EndingStep ==
    ASSUME IInv, NEW c \in Clients, Refuse(c)
    PROVE  IInv'
  <1>1. /\ tx' = [tx EXCEPT ![c] = NoTx] /\ begun' \in 0..MaxTx
        /\ UNCHANGED <<account, challenge, last, enrolled>>
    BY DEF Refuse, End, IInv, TypeOK
  <1>2. tx'[c] = NoTx
    BY <1>1 DEF IInv, TypeOK
  <1>3. Proven(c)'
    BY <1>2 DEF Proven, NoTx
  <1>4. NoTx.locks = {} /\ NoTx.op = "none" /\ NoTx.t = None
    BY DEF NoTx
  <1> QED
    BY <1>1, <1>3, <1>4, NoTransaction, ReadingStep

LEMMA LockingStep ==
    ASSUME IInv, NEW c \in Clients, NEW x \in Accounts \cup Tokens, LockRow(c, x)
    PROVE  IInv'
  <1> DEFINE r == [tx[c] EXCEPT !.locks = @ \cup {x}]
  <1>1. r \in Transactions /\ r.op = tx[c].op /\ r.a = tx[c].a /\ r.t = tx[c].t
        /\ r.w = tx[c].w /\ r.seen = tx[c].seen /\ r.late = tx[c].late
        /\ r.locks = tx[c].locks \cup {x}
    BY DEF IInv, TypeOK, Transactions
  <1>2. tx' = [tx EXCEPT ![c] = r]
    BY DEF LockRow
  <1>3. tx'[c] = r
    BY <1>2 DEF IInv, TypeOK
  <1> HIDE DEF r
  <1>4. Proven(c)'
    BY <1>1, <1>3 DEF LockRow, IInv, Proven, LiveOf
  <1>5. begun' \in 0..MaxTx /\ Free(x, c) /\ UNCHANGED <<account, challenge, last, enrolled>>
    BY DEF LockRow, IInv, TypeOK
  <1> QED
    BY <1>1, <1>2, <1>4, <1>5, ReadingStep

LEMMA BeginFacts ==
    ASSUME IInv, NEW c \in Clients, NEW r \in Transactions, Begin(c, r),
           UNCHANGED <<account, challenge, last, enrolled>>,
           \A x \in r.locks : Free(x, c),
           r.op = "issue" => \A d \in Clients : tx[d].t # r.t,
           r.t = None \/ r.op = "issue" \/ challenge[r.t] # Absent,
           tx'[c] = r => Proven(c)'
    PROVE  IInv'
  <1>1. tx' = [tx EXCEPT ![c] = r] /\ begun' \in 0..MaxTx
    BY IdentityAssumption DEF Begin, IInv, TypeOK
  <1>2. tx'[c] = r
    BY <1>1 DEF IInv, TypeOK
  <1> QED
    BY <1>1, <1>2, ReadingStep

LEMMA BeginStep ==
    ASSUME IInv, NEW c \in Clients,
           \/ \E a \in Accounts, t \in Tokens, by \in Accounts \cup {None} : BeginIssue(c, a, t, by)
           \/ \E t \in Tokens, w \in Words : BeginClaim(c, t, w)
           \/ \E a \in Accounts, old, new \in Words : BeginChange(c, a, old, new)
           \/ \E a \in Accounts : BeginAuthenticate(c, a)
           \/ \E a \in Accounts, by \in Accounts \cup {None} : BeginProvision(c, a, by)
    PROVE  IInv'
  <1>1. ASSUME NEW a \in Accounts, NEW t \in Tokens, NEW by \in Accounts \cup {None},
               BeginIssue(c, a, t, by)
        PROVE  IInv'
    <2> DEFINE r == [NoTx EXCEPT !.op = "issue", !.a = a, !.t = t, !.by = by]
    <2>1. /\ r \in Transactions /\ r.op = "issue" /\ r.a = a /\ r.t = t /\ r.locks = {}
          /\ Begin(c, r) /\ UNCHANGED <<account, challenge, last, enrolled>>
          /\ challenge[t] = Absent /\ \A d \in Clients : tx[d].t # t
      BY <1>1 DEF BeginIssue, NoTx, Transactions, Ops
    <2> HIDE DEF r
    <2>2. tx'[c] = r => Proven(c)'
      BY <2>1 DEF Proven
    <2> QED
      BY <2>1, <2>2, BeginFacts
  <1>2. ASSUME NEW t \in Tokens, NEW w \in Words, BeginClaim(c, t, w)
        PROVE  IInv'
    <2> DEFINE r == [NoTx EXCEPT !.op = "claim", !.t = t, !.w = w, !.late = challenge[t].expired]
    <2>0. challenge[t].expired \in BOOLEAN
      BY DEF IInv, TypeOK
    <2>1. /\ r \in Transactions /\ r.op = "claim" /\ r.a = None /\ r.t = t /\ r.w = w /\ r.locks = {}
          /\ Begin(c, r) /\ UNCHANGED <<account, challenge, last, enrolled>>
          /\ challenge[t] # Absent
      BY <1>2, <2>0 DEF BeginClaim, NoTx, Transactions, Ops
    <2> HIDE DEF r
    <2>2. tx'[c] = r => Proven(c)'
      BY <2>1 DEF Proven
    <2> QED
      BY <2>1, <2>2, BeginFacts
  <1>3. ASSUME NEW a \in Accounts, NEW old \in Words, NEW new \in Words, BeginChange(c, a, old, new)
        PROVE  IInv'
    <2> DEFINE r == [NoTx EXCEPT !.op = "change", !.a = a, !.w = new, !.seen = old,
                                 !.locks = ReadAccount(a)]
    <2>1. /\ r \in Transactions /\ r.op = "change" /\ r.a = a /\ r.t = None /\ r.w = new
          /\ r.seen = old /\ r.locks = {a}
          /\ Begin(c, r) /\ UNCHANGED <<account, challenge, last, enrolled>>
          /\ account[a].word = old /\ Free(a, c)
      BY <1>3 DEF BeginChange, NoTx, Transactions, Ops, ReadAccount
    <2> HIDE DEF r
    <2>2. tx'[c] = r => Proven(c)'
      BY <2>1 DEF Proven
    <2> QED
      BY <2>1, <2>2, BeginFacts
  <1>4. ASSUME NEW a \in Accounts, BeginAuthenticate(c, a)
        PROVE  IInv'
    <2> DEFINE r == [NoTx EXCEPT !.op = "authenticate", !.a = a, !.seen = account[a].word]
    <2>0. account[a].word \in Words
      BY <1>4 DEF BeginAuthenticate, IInv, TypeOK
    <2>1. /\ r \in Transactions /\ r.op = "authenticate" /\ r.a = a /\ r.t = None
          /\ r.seen \in Words /\ r.locks = {}
          /\ Begin(c, r) /\ UNCHANGED <<account, challenge, last, enrolled>>
      BY <1>4, <2>0 DEF BeginAuthenticate, NoTx, Transactions, Ops
    <2> HIDE DEF r
    <2>2. tx'[c] = r => Proven(c)'
      BY <2>1 DEF Proven
    <2> QED
      BY <2>1, <2>2, BeginFacts
  <1>5. ASSUME NEW a \in Accounts, NEW by \in Accounts \cup {None}, BeginProvision(c, a, by)
        PROVE  IInv'
    <2> DEFINE r == [NoTx EXCEPT !.op = "provision", !.a = a, !.by = by]
    <2>1. /\ r \in Transactions /\ r.op = "provision" /\ r.a = a /\ r.t = None /\ r.locks = {}
          /\ Begin(c, r) /\ UNCHANGED <<account, challenge, last, enrolled>>
      BY <1>5 DEF BeginProvision, NoTx, Transactions, Ops
    <2> HIDE DEF r
    <2>2. tx'[c] = r => Proven(c)'
      BY <2>1 DEF Proven
    <2> QED
      BY <2>1, <2>2, BeginFacts
  <1> QED
    BY <1>1, <1>2, <1>3, <1>4, <1>5

----------------------------------------------------------------------------
(* Steps that write, and commit. *)

LEMMA CommitStep ==
    ASSUME IInv, NEW c \in Clients, End(c),
           account' \in [Accounts -> [active: BOOLEAN, word: Words \cup {None}, current: BOOLEAN, role: Roles]],
           challenge' \in [Tokens -> [of: Accounts \cup {None}, expired: BOOLEAN,
                                      state: {"absent", "live", "used", "revoked"}]],
           last' \in [Accounts -> Words \cup {None}],
           enrolled' \in [Accounts -> SUBSET Tokens],
           \A a \in Accounts : account'[a].word = account[a].word \/ Free(a, c),
           \A t \in Tokens :
              \/ Same(t)
              \/ Free(t, c) /\ challenge[t] # Absent /\ challenge'[t] # Absent
              \/ tx[c].op = "issue" /\ t = tx[c].t /\ challenge'[t] # Absent,
           OneLive', Spent'
    PROVE  IInv'
  <1>1. /\ tx' = [tx EXCEPT ![c] = NoTx] /\ begun' = begun
        /\ tx'[c] = NoTx /\ \A d \in Clients \ {c} : tx'[d] = tx[d]
    BY DEF End, IInv, TypeOK
  <1>2. TypeOK'
    BY <1>1, NoTransaction DEF IInv, TypeOK
  <1>3. NoTx.locks = {} /\ NoTx.op = "none" /\ NoTx.t = None
    BY DEF NoTx
  <1>4. Proven(c)'
    BY <1>1, <1>3 DEF Proven
  <1> QED
    BY <1>1, <1>2, <1>3, <1>4, ClientStep

(* Rows one's own transaction holds are free of the others. *)
LEMMA HeldIsFree ==
    ASSUME IInv, NEW c \in Clients, NEW x \in tx[c].locks
    PROVE  Free(x, c)
  BY DEF IInv, Exclusive, Free

LEMMA IssueCommitStep ==
    ASSUME IInv, NEW c \in Clients, IssueCommit(c)
    PROVE  IInv'
  <1> DEFINE a == tx[c].a
             n == tx[c].t
  <1>1. a \in Accounts /\ n \in Tokens /\ challenge[n] = Absent
    BY DEF IssueCommit, IInv, Proven
  <1>2. \A u \in LiveOf(a) : u \in tx[c].locks /\ Free(u, c) /\ u # n /\ u \in Tokens
    BY <1>1, HeldIsFree DEF IssueCommit, LiveOf, Absent
  <1> HIDE DEF a, n
  <1>3. \A u \in Tokens :
           challenge'[u] = IF u = n THEN [of |-> a, state |-> "live", expired |-> FALSE]
                           ELSE IF u \in LiveOf(a) THEN [challenge[u] EXCEPT !.state = "revoked"]
                           ELSE challenge[u]
    BY DEF IssueCommit, Reissue, a, n
  <1>4. challenge' \in [Tokens -> [of: Accounts \cup {None}, expired: BOOLEAN,
                                   state: {"absent", "live", "used", "revoked"}]]
    <2>1. DOMAIN challenge' = Tokens /\ challenge' = [u \in Tokens |-> challenge'[u]]
      BY DEF IssueCommit, Reissue
    <2>2. ASSUME NEW u \in Tokens
          PROVE  challenge'[u] \in [of: Accounts \cup {None}, expired: BOOLEAN,
                                    state: {"absent", "live", "used", "revoked"}]
      <3>1. challenge[u] \in [of: Accounts \cup {None}, expired: BOOLEAN,
                              state: {"absent", "live", "used", "revoked"}]
        BY DEF IInv, TypeOK
      <3>2. [challenge[u] EXCEPT !.state = "revoked"] \in
               [of: Accounts \cup {None}, expired: BOOLEAN, state: {"absent", "live", "used", "revoked"}]
        BY <3>1
      <3>3. [of |-> a, state |-> "live", expired |-> FALSE] \in
               [of: Accounts \cup {None}, expired: BOOLEAN, state: {"absent", "live", "used", "revoked"}]
        BY <1>1
      <3>4. CASE u = n
        BY <1>3, <3>3, <3>4
      <3>5. CASE u # n /\ u \in LiveOf(a)
        BY <1>3, <3>2, <3>5
      <3>6. CASE u # n /\ u \notin LiveOf(a)
        BY <1>3, <3>1, <3>6
      <3> QED
        BY <3>4, <3>5, <3>6
    <2> QED
      BY <2>1, <2>2
  <1>5. /\ challenge'[n].of = a /\ challenge'[n].state = "live"
        /\ \A u \in Tokens \ {n} :
              IF u \in LiveOf(a) THEN challenge'[u].of = a /\ challenge'[u].state = "revoked"
              ELSE challenge'[u] = challenge[u]
    <2>1. ASSUME NEW u \in Tokens \ {n}, u \in LiveOf(a)
          PROVE  challenge'[u].of = a /\ challenge'[u].state = "revoked"
      <3>1. challenge[u].of = a
        BY <2>1 DEF LiveOf
      <3>2. challenge[u] \in [of: Accounts \cup {None}, expired: BOOLEAN,
                              state: {"absent", "live", "used", "revoked"}]
        BY DEF IInv, TypeOK
      <3> QED
        BY <1>3, <2>1, <3>1, <3>2
    <2>2. challenge'[n] = [of |-> a, state |-> "live", expired |-> FALSE]
      BY <1>1, <1>3
    <2>3. \A u \in Tokens \ {n} : u \notin LiveOf(a) => challenge'[u] = challenge[u]
      BY <1>3
    <2> QED
      BY <2>1, <2>2, <2>3
  <1>6. OneLive'
    <2> SUFFICES ASSUME NEW b \in Accounts, NEW t \in LiveOf(b)', NEW u \in LiveOf(b)'
                 PROVE  t = u
      BY DEF OneLive
    <2>1. /\ t \in Tokens /\ u \in Tokens /\ challenge'[t].of = b /\ challenge'[u].of = b
          /\ challenge'[t].state = "live" /\ challenge'[u].state = "live"
      BY DEF LiveOf
    <2>2. CASE b = a
      BY <1>5, <2>1, <2>2 DEF LiveOf
    <2>3. CASE b # a
      <3>1. t # n /\ u # n /\ t \notin LiveOf(a) /\ u \notin LiveOf(a)
        BY <1>5, <2>1, <2>3
      <3>2. t \in LiveOf(b) /\ u \in LiveOf(b)
        BY <1>5, <2>1, <3>1 DEF LiveOf
      <3> QED
        BY <3>2 DEF IInv, OneLive
    <2> QED
      BY <2>2, <2>3
  <1>7. Spent'
    <2>1. ASSUME NEW b \in Accounts
          PROVE  {t \in Tokens : challenge'[t].of = b /\ challenge'[t].state = "used"}
                    = {t \in Tokens : challenge[t].of = b /\ challenge[t].state = "used"}
      BY <1>1, <1>5 DEF LiveOf, Absent
    <2> QED
      BY <2>1 DEF IInv, Spent, IssueCommit
  <1>8. \A t \in Tokens :
           \/ Same(t)
           \/ Free(t, c) /\ challenge[t] # Absent /\ challenge'[t] # Absent
           \/ tx[c].op = "issue" /\ t = tx[c].t /\ challenge'[t] # Absent
    BY <1>2, <1>5 DEF Same, LiveOf, Absent, n, IssueCommit
  <1> QED
    BY <1>4, <1>6, <1>7, <1>8, CommitStep DEF IssueCommit, IInv, TypeOK

LEMMA ClaimChallengeStep ==
    ASSUME IInv, NEW c \in Clients, ClaimChallenge(c)
    PROVE  IInv'
  <1>1. CASE Refuse(c)
    BY <1>1, EndingStep
  <1>2. CASE ~Refuse(c)
    <2> DEFINE t == tx[c].t
               r == [tx[c] EXCEPT !.a = challenge[t].of, !.locks = {t}]
    <2>0. t \in Tokens /\ challenge[t].state = "live" /\ challenge[t] # Absent /\ ~tx[c].late
      BY <1>2 DEF ClaimChallenge, IInv, Proven
    <2>1. /\ r \in Transactions /\ r.op = "claim" /\ r.a = challenge[t].of /\ r.t = t
          /\ r.w = tx[c].w /\ r.late = tx[c].late /\ r.locks = {t}
      <3>1. tx[c] \in Transactions /\ tx[c].op = "claim"
        BY DEF ClaimChallenge, IInv, TypeOK
      <3> DEFINE o == challenge[t].of
      <3>2. o \in Accounts \cup {None} /\ t \in Tokens
        BY <2>0 DEF IInv, TypeOK
      <3>3. r = [tx[c] EXCEPT !.a = o, !.locks = {t}]
        OBVIOUS
      <3> HIDE DEF r, o, t
      <3>4. r \in Transactions /\ r.op = tx[c].op /\ r.a = o /\ r.t = tx[c].t /\ r.w = tx[c].w
            /\ r.late = tx[c].late /\ r.locks = {t}
        BY <3>1, <3>2, <3>3 DEF Transactions
      <3> QED
        BY <3>1, <3>4 DEF o, t
    <2>2. tx' = [tx EXCEPT ![c] = r] /\ Free(t, c) /\ begun' = begun
          /\ UNCHANGED <<account, challenge, last, enrolled>>
      BY <1>2 DEF ClaimChallenge
    <2>3. tx'[c] = r
      BY <2>2 DEF IInv, TypeOK
    <2> HIDE DEF r
    <2>4. Proven(c)'
      BY <2>0, <2>1, <2>2, <2>3 DEF ClaimChallenge, IInv, Proven, LiveOf
    <2> QED
      BY <2>0, <2>1, <2>2, <2>4, ReadingStep DEF IInv, TypeOK
  <1> QED
    BY <1>1, <1>2

LEMMA ClaimAccountStep ==
    ASSUME IInv, NEW c \in Clients, ClaimAccount(c)
    PROVE  IInv'
  <1>1. CASE Refuse(c)
    BY <1>1, EndingStep
  <1>2. CASE ~Refuse(c)
    <2> DEFINE a == tx[c].a
               t == tx[c].t
    <2>1. /\ t \in LiveOf(a) /\ t \in tx[c].locks /\ t \in Tokens /\ tx[c].w \in Words
          /\ challenge[t] # Absent /\ challenge[t].of = a /\ challenge[t].state = "live"
      BY <1>2 DEF ClaimAccount, IInv, Proven, LiveOf
    <2>2. a \in Accounts
      BY <1>2 DEF ClaimAccount, IInv, TypeOK, Transactions
    <2>3. /\ account[a].word = None /\ Free(a, c) /\ Free(t, c) /\ End(c)
          /\ account' = [account EXCEPT ![a].word = tx[c].w, ![a].current = TRUE]
          /\ last' = [last EXCEPT ![a] = tx[c].w]
          /\ challenge' = [challenge EXCEPT ![t].state = "used"]
          /\ enrolled' = [enrolled EXCEPT ![a] = @ \cup {t}]
      BY <1>2, <2>1, HeldIsFree DEF ClaimAccount, Unclaimed, SetPassword
    <2> HIDE DEF a, t
    <2>4. /\ account' \in [Accounts -> [active: BOOLEAN, word: Words \cup {None}, current: BOOLEAN, role: Roles]]
          /\ last' \in [Accounts -> Words \cup {None}]
          /\ challenge' \in [Tokens -> [of: Accounts \cup {None}, expired: BOOLEAN,
                                        state: {"absent", "live", "used", "revoked"}]]
          /\ enrolled' \in [Accounts -> SUBSET Tokens]
      <3>1. account' \in [Accounts -> [active: BOOLEAN, word: Words \cup {None}, current: BOOLEAN, role: Roles]]
        <4>1. account \in [Accounts -> [active: BOOLEAN, word: Words \cup {None}, current: BOOLEAN, role: Roles]]
          BY DEF IInv, TypeOK
        <4>2. [account[a] EXCEPT !.word = tx[c].w, !.current = TRUE] \in
                 [active: BOOLEAN, word: Words \cup {None}, current: BOOLEAN, role: Roles]
          BY <2>1, <2>2, <4>1
        <4>3. account' = [account EXCEPT ![a] = [account[a] EXCEPT !.word = tx[c].w, !.current = TRUE]]
          BY <2>2, <2>3, <4>1
        <4> QED
          BY <2>2, <4>1, <4>2, <4>3
      <3>2. last' \in [Accounts -> Words \cup {None}]
        BY <2>1, <2>2, <2>3 DEF IInv, TypeOK
      <3>3. challenge' \in [Tokens -> [of: Accounts \cup {None}, expired: BOOLEAN,
                                      state: {"absent", "live", "used", "revoked"}]]
        BY <2>1, <2>3 DEF IInv, TypeOK
      <3>4. enrolled' \in [Accounts -> SUBSET Tokens]
        BY <2>1, <2>2, <2>3 DEF IInv, TypeOK
      <3> QED
        BY <3>1, <3>2, <3>3, <3>4
    <2>5. /\ \A b \in Accounts \ {a} : account'[b] = account[b] /\ enrolled'[b] = enrolled[b]
          /\ account'[a].word = tx[c].w /\ enrolled'[a] = enrolled[a] \cup {t}
          /\ \A u \in Tokens \ {t} : challenge'[u] = challenge[u]
          /\ challenge'[t].of = a /\ challenge'[t].state = "used"
      BY <2>1, <2>2, <2>3 DEF IInv, TypeOK
    <2>6. OneLive'
      <3>1. \A b \in Accounts : LiveOf(b)' \subseteq LiveOf(b)
        BY <2>1, <2>5 DEF LiveOf
      <3> QED
        BY <3>1 DEF IInv, OneLive
    <2>7. Spent'
      <3>1. ASSUME NEW b \in Accounts \ {a}
            PROVE  {u \in Tokens : challenge'[u].of = b /\ challenge'[u].state = "used"}
                      = {u \in Tokens : challenge[u].of = b /\ challenge[u].state = "used"}
        BY <2>1, <2>5
      <3>2. {u \in Tokens : challenge'[u].of = a /\ challenge'[u].state = "used"}
               = {u \in Tokens : challenge[u].of = a /\ challenge[u].state = "used"} \cup {t}
        BY <2>1, <2>5
      <3>3. enrolled[a] = {}
        BY <2>2, <2>3 DEF IInv, Spent
      <3>4. account'[a].word # None
        BY <2>1, <2>5, IdentityAssumption
      <3>5. ASSUME NEW b \in Accounts \ {a}
            PROVE  /\ {u \in Tokens : challenge'[u].of = b /\ challenge'[u].state = "used"} = enrolled'[b]
                   /\ \A u, v \in enrolled'[b] : u = v
                   /\ account'[b].word = None => enrolled'[b] = {}
        BY <2>5, <3>1 DEF IInv, Spent
      <3>6. /\ {u \in Tokens : challenge'[u].of = a /\ challenge'[u].state = "used"} = enrolled'[a]
            /\ \A u, v \in enrolled'[a] : u = v
        BY <2>2, <2>5, <3>2, <3>3 DEF IInv, Spent
      <3> QED
        BY <3>4, <3>5, <3>6 DEF Spent
    <2>8. \A u \in Tokens : Same(u) \/ (Free(u, c) /\ challenge[u] # Absent /\ challenge'[u] # Absent)
      BY <2>1, <2>3, <2>5 DEF Same, Absent
    <2>9. \A b \in Accounts : account'[b].word = account[b].word \/ Free(b, c)
      BY <2>3, <2>5
    <2> QED
      BY <2>3, <2>4, <2>6, <2>7, <2>8, <2>9, CommitStep
  <1> QED
    BY <1>1, <1>2

(* Steps that write the account only, and give it a password if anything. *)
LEMMA AccountCommitStep ==
    ASSUME IInv, NEW c \in Clients, End(c), NEW a \in Accounts, Free(a, c),
           account' \in [Accounts -> [active: BOOLEAN, word: Words \cup {None}, current: BOOLEAN, role: Roles]],
           \A b \in Accounts \ {a} : account'[b] = account[b],
           account'[a].word = account[a].word \/ account'[a].word # None,
           last' \in [Accounts -> Words \cup {None}], UNCHANGED <<challenge, enrolled>>
    PROVE  IInv'
  <1>1. OneLive'
    BY DEF IInv, OneLive, LiveOf
  <1>2. Spent'
    BY DEF IInv, Spent
  <1>3. \A t \in Tokens : Same(t)
    BY DEF Same
  <1> QED
    BY <1>1, <1>2, <1>3, CommitStep DEF IInv, TypeOK

LEMMA PasswordStep ==
    ASSUME IInv, NEW c \in Clients,
           \/ ChangeCommit(c) \/ Rehash(c)
           \/ \E role \in {"reviewer", "admin"} : ProvisionCommit(c, role)
    PROVE  IInv'
  <1> DEFINE a == tx[c].a
  <1>1. CASE ChangeCommit(c)
    <2>1. a \in Accounts /\ tx[c].w \in Words /\ tx[c].w # None
      BY <1>1, IdentityAssumption DEF ChangeCommit, IInv, Proven
    <2> HIDE DEF a
    <2>2. /\ account' = [account EXCEPT ![a].word = tx[c].w, ![a].current = TRUE]
          /\ last' = [last EXCEPT ![a] = tx[c].w] /\ End(c) /\ Free(a, c)
          /\ UNCHANGED <<challenge, enrolled>>
      BY <1>1 DEF ChangeCommit, SetPassword, a
    <2> QED
      BY <2>1, <2>2, AccountCommitStep DEF IInv, TypeOK
  <1>2. CASE Rehash(c)
    <2>1. a \in Accounts /\ tx[c].seen \in Words /\ tx[c].seen # None
      BY <1>2, IdentityAssumption DEF Rehash, IInv, Proven
    <2> HIDE DEF a
    <2>2. /\ account' = [account EXCEPT ![a].word = tx[c].seen, ![a].current = TRUE]
          /\ End(c) /\ Free(a, c) /\ UNCHANGED <<last, challenge, enrolled>>
      BY <1>2 DEF Rehash, a
    <2> QED
      BY <2>1, <2>2, AccountCommitStep DEF IInv, TypeOK
  <1>3. ASSUME NEW role \in {"reviewer", "admin"}, ProvisionCommit(c, role)
        PROVE  IInv'
    <2>1. a \in Accounts
      BY <1>3 DEF ProvisionCommit, IInv, Proven
    <2> HIDE DEF a
    <2>2. /\ account' = [account EXCEPT ![a].active = TRUE, ![a].role = IF @ = "admin" THEN @ ELSE role]
          /\ End(c) /\ Free(a, c) /\ UNCHANGED <<last, challenge, enrolled>>
      BY <1>3 DEF ProvisionCommit, a
    <2> DEFINE given == IF account[a].role = "admin" THEN account[a].role ELSE role
    <2>3. account' = [account EXCEPT ![a].active = TRUE, ![a].role = given]
      BY <2>2
    <2>4. given \in Roles
      BY <1>3 DEF Roles
    <2> HIDE DEF given
    <2>5. account' \in [Accounts -> [active: BOOLEAN, word: Words \cup {None}, current: BOOLEAN, role: Roles]]
      BY <2>1, <2>3, <2>4 DEF IInv, TypeOK
    <2>6. account'[a].word = account[a].word /\ \A b \in Accounts \ {a} : account'[b] = account[b]
      BY <2>1, <2>3 DEF IInv, TypeOK
    <2> QED
      BY <2>1, <2>2, <2>5, <2>6, AccountCommitStep DEF IInv, TypeOK
  <1> QED
    BY <1>1, <1>2, <1>3

(* An operator, an administrator or the clock touches rows nobody holds. *)
LEMMA OutsideStep ==
    ASSUME IInv, UNCHANGED tx, TypeOK', OneLive', Spent',
           \A a \in Accounts : account'[a].word = account[a].word \/ \A c \in Clients : a \notin tx[c].locks,
           \A t \in Tokens :
              \/ Same(t)
              \/ /\ challenge[t] # Absent /\ challenge'[t] # Absent
                 /\ \A c \in Clients : t \notin tx[c].locks
    PROVE  IInv'
  <1>1. Exclusive' /\ Fresh'
    BY DEF IInv, Exclusive, Fresh
  <1>2. ASSUME NEW c \in Clients
        PROVE  Proven(c)'
    <2>0. Proven(c)
      BY DEF IInv
    <2>1. CASE tx[c].op = "issue"
      <3>1. tx[c].t \in Tokens /\ challenge[tx[c].t] = Absent
        BY <2>0, <2>1 DEF Proven
      <3>2. challenge'[tx[c].t] = Absent
        BY <3>1 DEF Same
      <3> QED
        BY <2>0, <2>1, <3>2 DEF Proven
    <2>2. CASE tx[c].op = "claim"
      <3>1. tx[c].t \in Tokens /\ challenge[tx[c].t] # Absent
        BY <2>0, <2>2 DEF Proven
      <3>2. challenge'[tx[c].t] # Absent
        BY <3>1 DEF Same
      <3>3. tx[c].a # None => tx[c].t \in tx[c].locks /\ tx[c].t \in LiveOf(tx[c].a)
        BY <2>0, <2>2 DEF Proven
      <3>4. tx[c].a # None => Same(tx[c].t)
        BY <3>1, <3>3
      <3>5. tx[c].a # None => tx[c].t \in LiveOf(tx[c].a)'
        BY <3>3, <3>4 DEF LiveOf, Same
      <3> QED
        BY <2>0, <2>2, <3>2, <3>3, <3>5 DEF Proven
    <2>3. CASE tx[c].op = "change"
      BY <2>0, <2>3 DEF Proven
    <2>4. CASE tx[c].op \notin {"issue", "claim", "change"}
      BY <2>0, <2>4 DEF Proven
    <2> QED
      BY <2>1, <2>2, <2>3, <2>4
  <1> QED
    BY <1>1, <1>2 DEF IInv

LEMMA OutsiderStep ==
    ASSUME IInv,
           \/ \E by, a \in Accounts, w \in Words : Reset(by, a, w)
           \/ \E t \in Tokens : RevokeChallenge(t) \/ Expire(t)
           \/ \E a \in Accounts : Deactivate(a)
    PROVE  IInv'
  <1>1. ASSUME NEW a \in Accounts, \A c \in Clients : a \notin tx[c].locks,
               UNCHANGED <<challenge, tx, enrolled>>, begun < MaxTx, begun' = begun + 1,
               account' \in [Accounts -> [active: BOOLEAN, word: Words \cup {None}, current: BOOLEAN, role: Roles]],
               \A b \in Accounts \ {a} : account'[b] = account[b],
               account'[a].word = account[a].word \/ account'[a].word # None,
               last' \in [Accounts -> Words \cup {None}]
        PROVE  IInv'
    <2>1. TypeOK'
      BY <1>1, IdentityAssumption DEF IInv, TypeOK
    <2>2. OneLive'
      BY <1>1 DEF IInv, OneLive, LiveOf
    <2>3. Spent'
      BY <1>1 DEF IInv, Spent
    <2>4. \A t \in Tokens : Same(t)
      BY <1>1 DEF Same
    <2> QED
      BY <1>1, <2>1, <2>2, <2>3, <2>4, OutsideStep
  <1>2. ASSUME NEW by \in Accounts, NEW a \in Accounts, NEW w \in Words, Reset(by, a, w)
        PROVE  IInv'
    <2>1. /\ account' = [account EXCEPT ![a].word = w, ![a].current = TRUE]
          /\ last' = [last EXCEPT ![a] = w]
      BY <1>2 DEF Reset, SetPassword
    <2>2. account' \in [Accounts -> [active: BOOLEAN, word: Words \cup {None}, current: BOOLEAN, role: Roles]]
      BY <2>1 DEF IInv, TypeOK
    <2>3. last' \in [Accounts -> Words \cup {None}]
      BY <2>1 DEF IInv, TypeOK
    <2>4. account'[a].word = w /\ w # None /\ \A b \in Accounts \ {a} : account'[b] = account[b]
      BY <2>1, IdentityAssumption DEF IInv, TypeOK
    <2> QED
      BY <1>1, <1>2, <2>2, <2>3, <2>4 DEF Reset
  <1>3. ASSUME NEW a \in Accounts, Deactivate(a)
        PROVE  IInv'
    <2>1. account' = [account EXCEPT ![a].active = FALSE]
      BY <1>3 DEF Deactivate
    <2>2. account' \in [Accounts -> [active: BOOLEAN, word: Words \cup {None}, current: BOOLEAN, role: Roles]]
      BY <2>1 DEF IInv, TypeOK
    <2>3. account'[a].word = account[a].word /\ \A b \in Accounts \ {a} : account'[b] = account[b]
      BY <2>1 DEF IInv, TypeOK
    <2> QED
      BY <1>1, <1>3, <2>2, <2>3 DEF Deactivate, IInv, TypeOK
  <1>4. ASSUME NEW t \in Tokens, RevokeChallenge(t)
        PROVE  IInv'
    <2>1. challenge' = [challenge EXCEPT ![t].state = "revoked"] /\ challenge[t].state = "live"
          /\ UNCHANGED <<account, tx, begun, last, enrolled>>
      BY <1>4 DEF RevokeChallenge
    <2>2. TypeOK'
      BY <2>1 DEF IInv, TypeOK
    <2>3. /\ challenge'[t].state = "revoked" /\ challenge'[t].of = challenge[t].of
          /\ \A u \in Tokens \ {t} : challenge'[u] = challenge[u]
      BY <2>1 DEF IInv, TypeOK
    <2>4. OneLive'
      <3>1. \A b \in Accounts : LiveOf(b)' \subseteq LiveOf(b)
        BY <2>3 DEF LiveOf
      <3> QED
        BY <3>1 DEF IInv, OneLive
    <2>5. Spent'
      <3>1. ASSUME NEW b \in Accounts
            PROVE  {u \in Tokens : challenge'[u].of = b /\ challenge'[u].state = "used"}
                      = {u \in Tokens : challenge[u].of = b /\ challenge[u].state = "used"}
        BY <2>1, <2>3
      <3> QED
        BY <2>1, <3>1 DEF IInv, Spent
    <2>6. challenge[t] # Absent /\ challenge'[t] # Absent /\ \A u \in Tokens \ {t} : Same(u)
      BY <2>1, <2>3 DEF Same, Absent
    <2> QED
      BY <1>4, <2>1, <2>2, <2>4, <2>5, <2>6, OutsideStep DEF RevokeChallenge
  <1>5. ASSUME NEW t \in Tokens, Expire(t)
        PROVE  IInv'
    <2>1. challenge' = [challenge EXCEPT ![t].expired = TRUE] /\ challenge[t].state = "live"
          /\ UNCHANGED <<account, tx, begun, last, enrolled>>
      BY <1>5 DEF Expire
    <2>2. TypeOK'
      BY <2>1 DEF IInv, TypeOK
    <2>3. /\ \A u \in Tokens : /\ challenge'[u].of = challenge[u].of
                               /\ challenge'[u].state = challenge[u].state
          /\ \A u \in Tokens \ {t} : challenge'[u] = challenge[u]
      BY <2>1 DEF IInv, TypeOK
    <2>4. OneLive' /\ Spent'
      BY <2>1, <2>3 DEF IInv, OneLive, LiveOf, Spent
    <2>5. \A u \in Tokens : Same(u)
      BY <2>1, <2>3 DEF Same, Absent
    <2> QED
      BY <2>1, <2>2, <2>4, <2>5, OutsideStep
  <1> QED
    BY <1>2, <1>3, <1>4, <1>5

LEMMA InvStep == IInv /\ [Next]_vars => IInv'
  <1> SUFFICES ASSUME IInv, [Next]_vars PROVE IInv'
    OBVIOUS
  <1>1. ASSUME NEW c \in Clients, IssueAccount(c)
        PROVE  IInv'
    <2>1. tx[c].a \in Accounts
      BY <1>1 DEF IssueAccount, IInv, Proven
    <2> QED
      BY <1>1, <2>1, LockingStep, EndingStep DEF IssueAccount
  <1>2. ASSUME NEW c \in Clients, IssueLive(c)
        PROVE  IInv'
    BY <1>2, LockingStep, EndingStep DEF IssueLive, LiveOf
  <1>3. ASSUME NEW c \in Clients, DeadlockAbort(c)
        PROVE  IInv'
    BY <1>3, EndingStep DEF DeadlockAbort
  <1>4. ASSUME NEW c \in Clients, Step(c)
        PROVE  IInv'
    BY <1>1, <1>2, <1>3, <1>4, IssueCommitStep, ClaimChallengeStep, ClaimAccountStep, PasswordStep
       DEF Step
  <1>5. CASE UNCHANGED vars
    <2>1. TypeOK' /\ OneLive' /\ Spent'
      BY <1>5 DEF vars, IInv, TypeOK, OneLive, LiveOf, Spent
    <2>2. \A t \in Tokens : Same(t)
      BY <1>5 DEF vars, Same
    <2> QED
      BY <1>5, <2>1, <2>2, OutsideStep DEF vars
  <1> QED
    BY <1>4, <1>5, BeginStep, OutsiderStep DEF Next

LEMMA InvInit == Init => IInv
  <1> SUFFICES ASSUME Init PROVE IInv
    OBVIOUS
  <1>1. TypeOK
    <2>1. account \in [Accounts -> [active: BOOLEAN, word: Words \cup {None}, current: BOOLEAN, role: Roles]]
      BY DEF Init
    <2>2. \A a \in Accounts : account[a].word \in Words \cup {None}
      BY <2>1
    <2>3. Absent \in [of: Accounts \cup {None}, expired: BOOLEAN, state: {"absent", "live", "used", "revoked"}]
      BY DEF Absent
    <2> QED
      BY <2>1, <2>2, <2>3, NoTransaction, IdentityAssumption DEF Init, TypeOK
  <1>2. Exclusive /\ Fresh /\ \A c \in Clients : Proven(c)
    BY DEF Init, Exclusive, Fresh, Proven, NoTx
  <1>3. OneLive /\ Spent
    BY DEF Init, OneLive, LiveOf, Spent, Absent
  <1> QED
    BY <1>1, <1>2, <1>3 DEF IInv

LEMMA Invariant == Spec => []IInv
  BY InvInit, InvStep, PTL DEF Spec

(* Every variable keeps its type. *)
THEOREM TypeCorrect == Spec => []TypeOK
  <1>1. IInv => TypeOK
    BY DEF IInv
  <1> QED
    BY <1>1, Invariant, PTL

LEMMA AtMostOne ==
    ASSUME NEW S, \A x, y \in S : x = y
    PROVE  Cardinality(S) <= 1
  <1>1. CASE S = {}
    BY <1>1, FS_EmptySet
  <1>2. ASSUME NEW x \in S
        PROVE  Cardinality(S) <= 1
    <2>1. S = {x}
      BY <1>2
    <2> QED
      BY <2>1, FS_Singleton
  <1> QED
    BY <1>1, <1>2

(* However many challenges are issued, rotated, revoked and claimed at once, *)
(* one account is enrolled once, by the challenge that is spent (revision    *)
(* 0035, app_claim_enrollment).                                              *)
THEOREM AccountsEnrolOnce == Spec => []EnrolledOnce
  <1>1. IInv => EnrolledOnce
    BY AtMostOne DEF IInv, EnrolledOnce, OneLive, Spent
  <1> QED
    BY <1>1, Invariant, PTL

(* A claim commits for a challenge that nobody has used, reissued or revoked *)
(* and that had not expired when the claim began, and a change on the        *)
(* password that was proved, however many transactions run at once.          *)
THEOREM PasswordsRestOnProof == Spec => ProofsStillHold
  <1> DEFINE A == /\ \A a \in Accounts : \A t \in enrolled'[a] \ enrolled[a] :
                        /\ t \in LiveOf(a) /\ account[a].word = None
                        /\ \E c \in Clients : /\ tx[c].op = "claim" /\ tx[c].t = t
                                             /\ tx'[c] = NoTx /\ ~tx[c].late
                  /\ \A c \in Clients :
                        tx[c].op = "change" /\ tx'[c] = NoTx => account[tx[c].a].word = tx[c].seen
  <1>1. IInv /\ [Next]_vars => [A]_vars
    <2> SUFFICES ASSUME IInv, Next PROVE A
      OBVIOUS
    <2>1. \A c \in Clients : tx[c].op = "change" => account[tx[c].a].word = tx[c].seen
      BY DEF IInv, Proven
    <2>2. ASSUME NEW a \in Accounts, NEW t \in enrolled'[a] \ enrolled[a]
          PROVE  /\ t \in LiveOf(a) /\ account[a].word = None
                 /\ \E c \in Clients : /\ tx[c].op = "claim" /\ tx[c].t = t
                                      /\ tx'[c] = NoTx /\ ~tx[c].late
      <3>1. PICK c \in Clients : ClaimAccount(c) /\ ~Refuse(c)
        <4>1. ~UNCHANGED enrolled
          BY <2>2
        <4>2. ASSUME NEW c \in Clients, Step(c), ~ClaimAccount(c)
              PROVE  FALSE
          <5>1. ~Refuse(c)
            BY <4>1 DEF Refuse
          <5>2. ~IssueAccount(c) /\ ~IssueLive(c) /\ ~DeadlockAbort(c)
            BY <4>1, <5>1 DEF IssueAccount, IssueLive, LockRow, DeadlockAbort
          <5> QED
            BY <4>1, <4>2, <5>1, <5>2
               DEF Step, IssueCommit, ClaimChallenge, ChangeCommit, Rehash, ProvisionCommit
        <4>3. ASSUME NEW c \in Clients, ClaimAccount(c)
              PROVE  ~Refuse(c)
          BY <4>1 DEF Refuse
        <4> QED
          BY <4>1, <4>2, <4>3 DEF Next, BeginIssue, BeginClaim, BeginChange, BeginAuthenticate,
             BeginProvision, Reset, RevokeChallenge, Expire, Deactivate
      <3>2. /\ enrolled' = [enrolled EXCEPT ![tx[c].a] = @ \cup {tx[c].t}]
            /\ account[tx[c].a].word = None /\ tx[c].t \in LiveOf(tx[c].a)
            /\ tx[c].op = "claim" /\ ~tx[c].late /\ tx' = [tx EXCEPT ![c] = NoTx]
        BY <3>1 DEF ClaimAccount, Unclaimed, End, IInv, Proven
      <3>3. a = tx[c].a /\ t = tx[c].t
        BY <2>2, <3>2 DEF IInv, TypeOK
      <3>4. tx'[c] = NoTx
        BY <3>2 DEF IInv, TypeOK
      <3> QED
        BY <3>2, <3>3, <3>4
    <2> QED
      BY <2>1, <2>2
  <1> QED
    BY <1>1, Invariant, PTL DEF Spec, ProofsStillHold

=============================================================================
