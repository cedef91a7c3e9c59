------------------------------ MODULE Principals ------------------------------
(***************************************************************************)
(* The principal directories of authz/principal.ts: every verifier builds  *)
(* its own view from issuer-signed records and lifecycle events, which     *)
(* reach it in any order, any number of times, or not at all.              *)
(***************************************************************************)
EXTENDS Trust

CONSTANTS
    Verifiers,
    Records,    \* signed principal records in circulation
    Events,     \* signed lifecycle events in circulation
    TrustOf,    \* the trust snapshot of every verifier
    MaxEvents,  \* bound: events applied by one verifier to one principal
    MaxTime     \* bound: the clock

Kinds == {"suspended", "reinstated", "revoked", "decommissioned",
          "key_bound", "key_retired"}

ASSUME PrincipalsAssumption ==
    /\ MaxEvents \in Nat /\ MaxTime \in Nat
    /\ \A s \in Events : s.body.at \in Nat /\ s.body.kind \in Kinds

VARIABLES
    now,
    entries,    \* per verifier and principal: its record, if enrolled
    events      \* ... and its lifecycle events, ordered by their time

pvars == <<now, entries, events>>

Principal == {s.body.principal : s \in Records \cup Events}

PInit ==
    /\ now = 0
    /\ entries = [v \in Verifiers |-> [p \in Principal |-> {}]]
    /\ events = [v \in Verifiers |-> [p \in Principal |-> <<>>]]

-----------------------------------------------------------------------------
(* enroll(): a trusted issuer's record, once per principal. *)
enroll(v, s) ==
    LET t == verifyTrusted(s, TrustOf[v], "identity_issuer", now)
        p == s.body.principal
    IN  /\ entries[v][p] = {}
        /\ {t.integrity.status, t.signature.status, t.trusted.status} = {"pass"}
        /\ s.body.issuer = s.id
        /\ entries' = [entries EXCEPT ![v][p] = {s.body}]
        /\ UNCHANGED <<now, events>>

(* Mutant: events are kept in the order in which they arrive. *)
InsertedLast(list, e) == Append(list, e)

(* push() and the stable sort by time. *)
Inserted(list, e) ==
    LET upTo == {i \in 1..Len(list) : list[i].at <= e.at}
    IN  SubSeq(list, 1, Cardinality(upTo)) \o <<e>>
            \o SubSeq(list, Cardinality(upTo) + 1, Len(list))

(* What apply() demands of an event before it touches the entry. *)
Admissible(v, s) ==
    \E record \in entries[v][s.body.principal] :
        LET issuer == IF Known(TrustOf[v], record.issuer)
                      THEN {TrustOf[v].keys[record.issuer].key} ELSE {}
            t == verifyIntegrity(s, issuer)
        IN  /\ {t.integrity.status, t.signature.status} = {"pass"}
            /\ s.id = record.issuer

(* apply(): an event of the principal's own issuer joins the history. *)
apply(v, s) ==
    LET p == s.body.principal IN
    /\ Len(events[v][p]) < MaxEvents
    /\ Admissible(v, s)
    /\ events' = [events EXCEPT ![v][p] = Inserted(@, s.body)]
    /\ UNCHANGED <<now, entries>>

Tick == now < MaxTime /\ now' = now + 1 /\ UNCHANGED <<entries, events>>

-----------------------------------------------------------------------------
(* Mutant: reinstatement undoes a revocation. *)
nextStatusLenient(status, kind) ==
    CASE kind = "suspended" -> IF status = "active" THEN "suspended" ELSE status
      [] kind = "reinstated" -> "active"
      [] kind \in {"revoked", "decommissioned"} -> kind
      [] kind \in {"key_bound", "key_retired"} -> status

(* One event's effect on the status and on the keys. *)
nextStatus(status, kind) ==
    CASE kind = "suspended" -> IF status = "active" THEN "suspended" ELSE status
      [] kind = "reinstated" -> IF status = "suspended" THEN "active" ELSE status
      [] kind \in {"revoked", "decommissioned"} -> kind
      [] kind \in {"key_bound", "key_retired"} -> status

nextKeys(keys, e) ==
    CASE e.kind = "key_bound"   -> {k \in keys : k.id # e.key.id} \cup {e.key}
      [] e.kind = "key_retired" -> {k \in keys : k.id # e.key.id}
      [] e.kind \notin {"key_bound", "key_retired"} -> keys

(* How many of the ordered events are folded: the loop stops at the first  *)
(* one after the time asked about.                                         *)
Relevant(list, at) ==
    Cardinality({i \in 1..Len(list) : \A j \in 1..i : list[j].at <= at})

(* The loop of stateAt(): status and keys after the first n events. *)
step(state, e) == [status |-> nextStatus(state.status, e.kind),
                   keys   |-> nextKeys(state.keys, e)]

folded(start, list, n) ==
    LET f[i \in 0..n] == IF i = 0 THEN start ELSE step(f[i - 1], list[i])
    IN  f[n]

(* stateAt(): the record folded over the events up to a time. *)
stateAt(v, p, at) ==
    LET known == {r \in entries[v][p] : at >= r.created}
        record == CHOOSE r \in known : TRUE
        state  == folded([status |-> "active", keys |-> record.keys],
                         events[v][p], Relevant(events[v][p], at))
    IN  IF known = {} THEN [known |-> FALSE, status |-> "unknown", expires |-> Never,
                            keys |-> {}]
        ELSE [known |-> TRUE, status |-> state.status, expires |-> record.expires,
              keys |-> state.keys]

(* check(): usable at a time? *)
checkPrincipal(v, p, at) ==
    LET s == stateAt(v, p, at) IN
    firstOf(<<
      <<~s.known, fail("unknown_principal")>>,
      <<s.expires # Never /\ at > s.expires, fail("principal_expired")>>,
      <<s.status # "active", fail(s.status)>>,
      <<TRUE, pass>> >>)

(* keyAt(): the public key bound under an id at a time, if any. *)
keyAt(v, p, id, at) == {k.key : k \in {k \in stateAt(v, p, at).keys : k.id = id}}

-----------------------------------------------------------------------------
Histories(v, p) == {events[v][p][i] : i \in 1..Len(events[v][p])}
Tied(v, p) == \E e, f \in Histories(v, p) : e # f /\ e.at = f.at

(* Two verifiers that hold the same record and the same events of a        *)
(* principal answer alike about every moment, in whatever order the events *)
(* reached them and however often, as long as no two different events carry*)
(* the same time (apply() and stateAt(); of two events at one time the one *)
(* received later counts, and the verifiers may differ).                   *)
SameAnswerUnlessTied ==
    \A v, w \in Verifiers, p \in Principal :
        /\ entries[v][p] = entries[w][p] /\ Histories(v, p) = Histories(w, p)
        /\ ~Tied(v, p)
        => \A at \in 0..MaxTime : stateAt(v, p, at) = stateAt(w, p, at)

(* Revocation is for good: from its time on the principal is never active  *)
(* again, whatever is reinstated and in whatever order things arrive.      *)
RevokedForGood ==
    \A v \in Verifiers, p \in Principal : \A e \in Histories(v, p) :
        e.kind \in {"revoked", "decommissioned"} =>
            \A at \in e.at..MaxTime : stateAt(v, p, at).status # "active"
=============================================================================
