---------------------------- MODULE Observation ----------------------------
(***************************************************************************)
(* What is known of one page: the answers of its server, the runs and      *)
(* snapshots they leave, and the evidence later steps read as current      *)
(* (recorder.conditional_headers_for, recorder.record_outcome,             *)
(* evidence.latest_effective_evidence).                                    *)
(*                                                                         *)
(* Attempts of different cycles fetch one page at once. Each reads what it *)
(* will compare with before it waits for its host, so a newer snapshot may *)
(* be recorded before its own answer is. A fetch follows redirects hop by  *)
(* hop with the validators of the page it was asked for, while the site    *)
(* goes on changing. Who may record at all is the subject of Acquisition;  *)
(* here every answer is recorded or lost.                                  *)
(***************************************************************************)
EXTENDS Integers, FiniteSets

CONSTANTS
    Urls, Home,   \* addresses, and the one registered as the source
    Contents,     \* the contents a page may have (a content hash names each)
    Sites,        \* what the servers may serve: a content or a redirect per address
    Tag,          \* the etag an address gives a content with, or NoTag
    NoTag,
    Workers,      \* processes that fetch the page
    MaxRedirects, \* redirects followed
    MaxFetches,   \* bound: fetches started
    NoContent     \* no snapshot, or no hash

ASSUME ContentsAssumption ==
    /\ Home \in Urls
    /\ Urls \cap Contents = {}
    /\ Sites \subseteq [Urls -> Contents \cup Urls] /\ Sites # {}
    /\ \A u \in Urls : DOMAIN Tag[u] = Contents
    /\ MaxRedirects \in Nat /\ MaxFetches \in Nat
    /\ NoContent \notin Contents

(* The environment: an address gives two contents two etags.                 *)
ASSUME TagsAssumption ==
    \A u \in Urls : \A c, d \in Contents : Tag[u][c] = Tag[u][d] /\ Tag[u][c] # NoTag => c = d

VARIABLES
    site,        \* what the servers serve
    clock,       \* the time, counted in fetches started (started_at)
    runs,        \* the successful rows of fetch_run, with what was served
    snapshots,   \* rows of snapshot: observed_at and content_hash
    pc, conditional, started, visit, answer,   \* each worker
    overlapped,  \* history: two fetches were under way at once
    confirmedElsewhere  \* history: a 304 came from another address than the validators

fetches == <<pc, conditional, started, visit, answer>>
history == <<overlapped, confirmedElsewhere>>
observationVars == <<site, clock, runs, snapshots, fetches, history>>

NoSnapshot == [at |-> 0, from |-> Home, content |-> NoContent]
NoAnswer == [status |-> "none", from |-> Home, content |-> NoContent]
AtHome   == [url |-> Home, hop |-> 0]

Init ==
    /\ site \in Sites
    /\ clock = 0
    /\ runs = {} /\ snapshots = {}
    /\ pc          = [w \in Workers |-> "idle"]
    /\ conditional = [w \in Workers |-> NoSnapshot]
    /\ started     = [w \in Workers |-> 0]
    /\ visit       = [w \in Workers |-> AtHome]
    /\ answer      = [w \in Workers |-> NoAnswer]
    /\ overlapped = FALSE /\ confirmedElsewhere = FALSE

----------------------------------------------------------------------------
(* Reading what is there *)

(* The row of a set that comes first in ORDER BY ... DESC. *)
Newest(rows) == CHOOSE r \in rows : \A q \in rows : q.at <= r.at

(* The snapshot the latest successful run resolves to: any of the bytes a    *)
(* 304 confirmed, the newest one otherwise.                                  *)
Effective ==
    LET named == Newest(runs).unchanged
        body  == {sn \in snapshots : named = NoContent \/ sn.content = named} IN
    IF runs = {} \/ body = {} THEN NoContent ELSE Newest(body).content

(* The snapshot run_extraction picks for the page. *)
ExtractionTarget == Newest(snapshots)

----------------------------------------------------------------------------
(* A fetch *)

(* The site changes. *)
Publish(new) ==
    /\ site # new
    /\ site' = new
    /\ UNCHANGED <<clock, runs, snapshots, fetches, history>>

(* conditional_headers_for, before the wait for the host. *)
ReadValidators(w) ==
    /\ pc[w] = "idle"
    /\ pc' = [pc EXCEPT ![w] = "waiting"]
    /\ conditional' = [conditional EXCEPT ![w] =
          IF snapshots = {} THEN NoSnapshot ELSE Newest(snapshots)]
    /\ overlapped' = (overlapped \/ \E v \in Workers : pc[v] # "idle")
    /\ UNCHANGED <<site, clock, runs, snapshots, started, visit, answer, confirmedElsewhere>>

(* fetch: started_at is taken. *)
StartFetch(w) ==
    /\ pc[w] = "waiting"
    /\ clock < MaxFetches
    /\ clock' = clock + 1
    /\ started' = [started EXCEPT ![w] = clock + 1]
    /\ pc' = [pc EXCEPT ![w] = "fetching"]
    /\ UNCHANGED <<site, runs, snapshots, conditional, visit, answer, history>>

(* The server at an address answers 304 to the etag it gives what it serves. *)
Confirms(u, validators) ==
    /\ validators # NoSnapshot
    /\ Tag[u][site[u]] # NoTag
    /\ Tag[u][site[u]] = Tag[validators.from][validators.content]

(* A page, or a 304: the end of the chain. *)
Serve(w) ==
    LET u == visit[w].url IN
    /\ pc[w] = "fetching"
    /\ site[u] \in Contents
    /\ answer' = [answer EXCEPT ![w] =
          [status  |-> IF Confirms(u, conditional[w]) THEN "UNCHANGED" ELSE "OK",
           from |-> u, content |-> site[u]]]
    /\ pc' = [pc EXCEPT ![w] = "answered"]
    /\ visit' = [visit EXCEPT ![w] = AtHome]
    /\ confirmedElsewhere' = \/ confirmedElsewhere
                             \/ Confirms(u, conditional[w]) /\ u # conditional[w].from
    /\ UNCHANGED <<site, clock, runs, snapshots, conditional, started, overlapped>>

Finish(w) ==
    /\ pc' = [pc EXCEPT ![w] = "idle"]
    /\ conditional' = [conditional EXCEPT ![w] = NoSnapshot]
    /\ started' = [started EXCEPT ![w] = 0]
    /\ visit' = [visit EXCEPT ![w] = AtHome]
    /\ answer' = [answer EXCEPT ![w] = NoAnswer]

(* Mutant: redirects are not counted. *)
FollowUncounted(w) ==
    LET u == visit[w].url IN
    /\ pc[w] = "fetching"
    /\ site[u] \in Urls
    /\ visit' = [visit EXCEPT ![w] = [url |-> site[u], hop |-> 0]]
    /\ UNCHANGED <<pc, conditional, started, answer>>
    /\ UNCHANGED <<site, clock, runs, snapshots, history>>

(* A redirect: the next hop, with the same headers, or TooManyRedirects.     *)
Follow(w) ==
    LET u == visit[w].url IN
    /\ pc[w] = "fetching"
    /\ site[u] \in Urls
    /\ IF visit[w].hop < MaxRedirects
         THEN /\ visit' = [visit EXCEPT ![w] = [url |-> site[u], hop |-> visit[w].hop + 1]]
              /\ UNCHANGED <<pc, conditional, started, answer>>
         ELSE Finish(w)
    /\ UNCHANGED <<site, clock, runs, snapshots, history>>

(* Mutant: a 304 names the newest bytes at the time it is recorded. *)
RecordNamesNewest(w) ==
    /\ pc[w] = "answered"
    /\ runs' = runs \cup {[at |-> started[w], status |-> answer[w].status, served |-> answer[w].content,
                           unchanged |-> IF answer[w].status = "UNCHANGED" THEN Newest(snapshots).content
                                         ELSE NoContent]}
    /\ snapshots' = IF answer[w].status = "OK"
                      THEN snapshots \cup {[at |-> started[w], from |-> answer[w].from,
                                         content |-> answer[w].content]}
                      ELSE snapshots
    /\ Finish(w)
    /\ UNCHANGED <<site, clock, history>>

(* record_outcome: the run, naming for a 304 the hash read with the          *)
(* validators, and for a body the snapshot.                                  *)
Record(w) ==
    /\ pc[w] = "answered"
    /\ runs' = runs \cup {[at |-> started[w], status |-> answer[w].status, served |-> answer[w].content,
                           unchanged |-> IF answer[w].status = "UNCHANGED" THEN conditional[w].content
                                         ELSE NoContent]}
    /\ snapshots' = IF answer[w].status = "OK"
                      THEN snapshots \cup {[at |-> started[w], from |-> answer[w].from,
                                         content |-> answer[w].content]}
                      ELSE snapshots
    /\ Finish(w)
    /\ UNCHANGED <<site, clock, history>>

(* resolve_and_validate, before each hop: the address may not be contacted,  *)
(* or its name does not resolve, or not now.                                 *)
Unreachable(w) ==
    /\ pc[w] = "fetching"
    /\ Finish(w)
    /\ UNCHANGED <<site, clock, runs, snapshots, history>>

(* The server fails or refuses, the time is up, the worker dies or loses its *)
(* lease: no successful run.                                                 *)
Lose(w) ==
    /\ pc[w] # "idle"
    /\ Finish(w)
    /\ UNCHANGED <<site, clock, runs, snapshots, history>>

ObservationNext ==
    \/ \E new \in Sites : Publish(new)
    \/ \E w \in Workers :
          \/ ReadValidators(w) \/ StartFetch(w) \/ Follow(w) \/ Serve(w)
          \/ Unreachable(w) \/ Record(w) \/ Lose(w)

ObservationSpec == Init /\ [][ObservationNext]_observationVars
----------------------------------------------------------------------------
(* Properties *)

Runs == [at : 1..MaxFetches, status : {"OK", "UNCHANGED"}, served : Contents,
         unchanged : Contents \cup {NoContent}]
Snapshots == [at : 1..MaxFetches, from : Urls, content : Contents]
Answers == [status : {"none", "OK", "UNCHANGED"}, from : Urls, content : Contents \cup {NoContent}]

(* Every variable holds a value of its type.                                 *)
ObservationTypeOK ==
    /\ site \in Sites
    /\ clock \in 0..MaxFetches
    /\ runs \subseteq Runs /\ snapshots \subseteq Snapshots
    /\ pc \in [Workers -> {"idle", "waiting", "fetching", "answered"}]
    /\ conditional \in [Workers -> snapshots \cup {NoSnapshot}]
    /\ started \in [Workers -> 0..MaxFetches]
    /\ visit \in [Workers -> [url : Urls, hop : 0..MaxRedirects]]
    /\ answer \in [Workers -> Answers]
    /\ {overlapped, confirmedElsewhere} \subseteq BOOLEAN

(* The evidence called current is what the server served to the latest       *)
(* successful fetch, whether as bytes or as a 304, in whatever order         *)
(* overlapping fetches were started, redirected, answered and recorded       *)
(* (evidence.py:64-73), until an address answers 304 to the validators of    *)
(* another: they are sent on every hop (fetcher.py:308-320). And as long as  *)
(* no two fetches of the page overlap, extraction picks those bytes: "a 304  *)
(* extracts the bytes it confirmed" (extraction/runner.py:141-143).          *)
EffectiveIsLatestAnswer ==
    runs # {} =>
        /\ ~confirmedElsewhere => Effective = Newest(runs).served
        /\ ~overlapped => ExtractionTarget.content = Effective

(* A fetch ends by itself, whatever redirects it meets while the site goes   *)
(* on changing (fetcher.py:310, MAX_REDIRECTS).                              *)
EveryFetchEnds == \A w \in Workers : (pc[w] = "fetching") ~> (pc[w] # "fetching")
============================================================================
