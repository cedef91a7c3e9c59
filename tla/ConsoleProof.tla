---------------------------- MODULE ConsoleProof ----------------------------
(***************************************************************************)
(* What the watcher of cool ui has sealed joins up, commands that run one  *)
(* at a time lose nothing from the receipts' files, and whatever commands  *)
(* do, what can be read is valid: proofs for every number of processes,    *)
(* records, witnesses, saves, commits and sessions.                        *)
(***************************************************************************)
EXTENDS Console, SequenceTheorems, FiniteSetTheorems, TLAPS, WellFoundedInduction

-----------------------------------------------------------------------------
(* Induction over the natural numbers in terms of sets: a claim is the set *)
(* of the numbers of which it holds, or of those of which it fails.        *)

(* A nonempty set of numbers has a least one. *)
LEMMA LeastNat ==
    ASSUME NEW T, T \subseteq Nat, T # {}
    PROVE  \E x \in T : \A y \in T : x <= y
<1> DEFINE R == OpToRel(<, Nat)
<1>1. IsWellFoundedOn(R, Nat)
  BY NatLessThanWellFounded
<1>2. \A x, y \in Nat : x < y => <<x, y>> \in R
  BY DEF OpToRel
<1> HIDE DEF R
<1>3. PICK x \in T : \A y \in T : ~ (<<y, x>> \in R)
  BY <1>1, WFMin
<1>4. ASSUME NEW y \in T PROVE x <= y
  <2>1. x \in Nat /\ y \in Nat
    OBVIOUS
  <2>2. ~(y < x)
    BY <2>1, <1>2, <1>3
  <2> QED
    BY <2>1, <2>2
<1> QED
  BY <1>4

(* A nonempty set of numbers up to n has a greatest one. *)
LEMMA GreatestNat ==
    ASSUME NEW n \in Nat, NEW T, T \subseteq 0..n, T # {}
    PROVE  \E x \in T : \A y \in T : y <= x
<1> DEFINE U == {n - x : x \in T}
<1>0. \A x \in T : x \in Int /\ n - x \in Nat
  OBVIOUS
<1>1. U \subseteq Nat /\ U # {}
  BY <1>0
<1>2. PICK u \in U : \A y \in U : u <= y
  BY <1>1, LeastNat
<1>3. PICK x \in T : u = n - x
  OBVIOUS
<1>4. ASSUME NEW y \in T PROVE y <= x
  <2>1. n - x <= n - y
    BY <1>2, <1>3
  <2> QED
    BY <2>1, <1>0
<1> QED
  BY <1>4

(* What holds at 0 and passes from every number below n to the next holds  *)
(* for all of them; G is the set of numbers for which it holds.            *)
LEMMA Upwards ==
    ASSUME NEW n \in Nat, NEW G, 0 \in G, \A i \in 0..(n - 1) : i \in G => i + 1 \in G
    PROVE  \A i \in 0..n : i \in G
<1> DEFINE T == {i \in 0..n : i \notin G}
<1> SUFFICES ASSUME T # {} PROVE FALSE
  OBVIOUS
<1>1. T \subseteq Nat
  OBVIOUS
<1>2. PICK x \in T : \A y \in T : x <= y
  BY <1>1, LeastNat
<1>3. x \in 1..n /\ x \notin G
  <2>1. x # 0
    OBVIOUS
  <2> QED
    BY <2>1
<1>4. x - 1 \in G
  <2>1. x - 1 \in 0..n /\ ~(x <= x - 1)
    BY <1>3
  <2> QED
    BY <2>1, <1>2
<1>5. x - 1 \in 0..(n - 1) /\ (x - 1) + 1 = x
  BY <1>3
<1> QED
  BY <1>3, <1>4, <1>5

Bytes == LET all == Contents \cup {First} IN all \cup {trim(c) : c \in all}
Changes == [before : Bytes, after : Bytes]

(* Each change begins where the one before it ended. *)
Joined(s) == \A k \in 2..Len(s) : s[k].before = s[k - 1].after

WatchTypes ==
    /\ file \in Contents \cup {First} /\ head \in Contents \cup {First} /\ baseline \in Bytes
    /\ {up, timer, failed} \subseteq BOOLEAN
    /\ changes \in Seq(Changes) /\ session \in Seq(Changes)

(* The timer runs only in a session, and only for a file that is watched. *)
Watching ==
    /\ ~up => ~timer
    /\ ~shouldWatch(Path) => ~timer /\ changes = <<>> /\ session = <<>>

(* Sealed and unsealed changes are one history that leads to the baseline, *)
(* and the baseline is the file unless a timer is running or nothing has   *)
(* been noticed yet.                                                       *)
OneHistory ==
    up /\ ~failed =>
        /\ Joined(session) /\ Joined(changes)
        /\ changes # <<>> => changes[Len(changes)].after = baseline
        /\ changes # <<>> /\ session # <<>> =>
              changes[1].before = session[Len(session)].after
        /\ changes = <<>> /\ session # <<>> => session[Len(session)].after = baseline
        /\ ~timer /\ (changes # <<>> \/ session # <<>>) => baseline = file

WatchInv == WatchTypes /\ Watching /\ OneHistory

-----------------------------------------------------------------------------
(* A step of the other processes, or none, leaves the watcher alone. *)
LEMMA WatcherAlone == WatchInv /\ UNCHANGED cvars => WatchInv'
  BY DEF WatchInv, WatchTypes, Watching, OneHistory, Joined, cvars, Bytes, Changes

LEMMA WatchInit == CInit => WatchInv
<1> SUFFICES ASSUME CInit PROVE WatchInv
  OBVIOUS
<1>1. WatchTypes
  BY EmptySeq DEF CInit, WatchTypes, Bytes
<1>2. Watching /\ OneHistory
  BY DEF CInit, Watching, OneHistory
<1> QED
  BY <1>1, <1>2 DEF WatchInv

(* A change put at the end, or taken from the front. *)
LEMMA JoinedAppend ==
    ASSUME NEW s \in Seq(Changes), NEW c \in Changes, Joined(s),
           s # <<>> => s[Len(s)].after = c.before
    PROVE  Joined(Append(s, c))
  BY DEF Joined

LEMMA JoinedTail ==
    ASSUME NEW s \in Seq(Changes), Joined(s), s # <<>>
    PROVE  /\ Joined(Tail(s)) /\ Tail(s) \in Seq(Changes)
           /\ Tail(s) # <<>> => /\ Tail(s)[1].before = s[1].after
                                /\ Tail(s)[Len(Tail(s))] = s[Len(s)]
           /\ Tail(s) = <<>> => s[1] = s[Len(s)]
<1>1. /\ Tail(s) \in Seq(Changes) /\ Len(Tail(s)) = Len(s) - 1
      /\ \A i \in 1..Len(Tail(s)) : Tail(s)[i] = s[i + 1]
      /\ Len(s) \in Nat /\ Len(s) # 0
  OBVIOUS
<1>2. Joined(Tail(s))
  BY <1>1 DEF Joined
<1>3. ASSUME Tail(s) # <<>>
      PROVE  /\ Tail(s)[1].before = s[1].after
             /\ Tail(s)[Len(Tail(s))] = s[Len(s)]
  <2>1. Len(Tail(s)) # 0
    BY <1>1, <1>3, EmptySeq
  <2>2. Tail(s)[1] = s[2] /\ s[2].before = s[1].after
    BY <1>1, <2>1 DEF Joined
  <2> QED
    BY <1>1, <2>1, <2>2
<1>4. Tail(s) = <<>> => s[1] = s[Len(s)]
  BY <1>1
<1> QED
  BY <1>1, <1>2, <1>3, <1>4

LEMMA SaveWatch == WatchInv /\ Save => WatchInv'
<1> SUFFICES ASSUME WatchInv, Save PROVE WatchInv'
  OBVIOUS
<1>1. WatchTypes'
  BY DEF WatchInv, WatchTypes, Save, Bytes, Changes
<1>2. Watching'
  BY DEF WatchInv, WatchTypes, Watching, Save
<1>3. OneHistory'
  BY DEF WatchInv, WatchTypes, Watching, OneHistory, Joined, Save
<1> QED
  BY <1>1, <1>2, <1>3 DEF WatchInv

LEMMA CommitWatch == WatchInv /\ Commit => WatchInv'
<1> SUFFICES ASSUME WatchInv, Commit PROVE WatchInv'
  OBVIOUS
<1>1. WatchTypes'
  BY DEF WatchInv, WatchTypes, Commit, Bytes, Changes
<1>2. Watching' /\ OneHistory'
  BY DEF WatchInv, Watching, OneHistory, Joined, Commit
<1> QED
  BY <1>1, <1>2 DEF WatchInv

LEMMA StartWatch == WatchInv /\ Start => WatchInv'
<1> SUFFICES ASSUME WatchInv, Start PROVE WatchInv'
  OBVIOUS
<1>1. WatchTypes'
  <2>1. baseline' \in Bytes
    BY DEF WatchInv, WatchTypes, Start, Bytes, committedContents
  <2> QED
    BY <2>1, EmptySeq DEF WatchInv, WatchTypes, Start, Bytes, Changes
<1>2. Watching'
  BY DEF WatchInv, Watching, Start
<1>3. OneHistory'
  BY DEF OneHistory, Joined, Start
<1> QED
  BY <1>1, <1>2, <1>3 DEF WatchInv

(* settle() puts the change from the baseline to the file at the end. *)
LEMMA SettleWatch == WatchInv /\ Settle => WatchInv'
<1> SUFFICES ASSUME WatchInv, Settle PROVE WatchInv'
  OBVIOUS
<1> DEFINE c == [before |-> baseline, after |-> file]
<1>0. up /\ shouldWatch(Path) /\ file \in Bytes /\ c \in Changes
  BY DEF WatchInv, WatchTypes, Watching, Settle, Bytes, Changes
<1>1. CASE baseline = file
  <2>1. WatchTypes' /\ Watching'
    BY <1>1 DEF WatchInv, WatchTypes, Watching, Settle, Bytes, Changes
  <2>2. OneHistory'
    BY <1>1 DEF WatchInv, OneHistory, Joined, Settle
  <2> QED
    BY <2>1, <2>2 DEF WatchInv
<1>2. CASE baseline # file
  <2>1. baseline' = file /\ changes' = Append(changes, c) /\ session' = session
        /\ up' = up /\ failed' = failed /\ timer' = FALSE /\ file' = file /\ head' = head
    BY <1>2 DEF Settle
  <2>2. WatchTypes'
    <3> HIDE DEF c
    <3>1. Append(changes, c) \in Seq(Changes)
      BY <1>0 DEF WatchInv, WatchTypes
    <3> QED
      BY <1>0, <2>1, <3>1 DEF WatchInv, WatchTypes, Bytes, Changes
  <2>3. Watching'
    BY <1>0, <2>1 DEF Watching
  <2>4. ASSUME ~failed PROVE OneHistory'
    <3>1. Joined(session) /\ Joined(changes)
      BY <1>0, <2>4 DEF WatchInv, OneHistory
    <3>2. changes # <<>> => changes[Len(changes)].after = c.before
      BY <1>0, <2>4 DEF WatchInv, OneHistory
    <3>3. Joined(changes') /\ Joined(session')
      BY <1>0, <2>1, <3>1, <3>2, JoinedAppend DEF WatchInv, WatchTypes
    <3> HIDE DEF c
    <3>4. changes' # <<>> /\ changes'[Len(changes')] = c
          /\ changes'[1] = IF changes = <<>> THEN c ELSE changes[1]
      BY <1>0, <2>1 DEF WatchInv, WatchTypes
    <3>5. session # <<>> => changes'[1].before = session[Len(session)].after
      <4>1. CASE changes = <<>>
        BY <1>0, <2>4, <3>4, <4>1 DEF WatchInv, OneHistory, c
      <4>2. CASE changes # <<>>
        BY <1>0, <2>4, <3>4, <4>2 DEF WatchInv, OneHistory
      <4> QED
        BY <4>1, <4>2
    <3>6. c.after = file
      BY DEF c
    <3> QED
      BY <2>1, <3>3, <3>4, <3>5, <3>6 DEF OneHistory
  <2> QED
    BY <2>1, <2>2, <2>3, <2>4 DEF WatchInv, OneHistory
<1> QED
  BY <1>1, <1>2

(* sealChange() moves the first change over. *)
LEMMA SealWatch == WatchInv /\ SealChange => WatchInv'
<1> SUFFICES ASSUME WatchInv, SealChange PROVE WatchInv'
  OBVIOUS
<1>0. /\ changes # <<>> /\ changes \in Seq(Changes) /\ session \in Seq(Changes)
      /\ changes' = Tail(changes) /\ session' = Append(session, Head(changes))
      /\ file' = file /\ head' = head /\ up' = up /\ baseline' = baseline
      /\ timer' = timer /\ failed' = failed
  BY DEF WatchInv, WatchTypes, SealChange
<1>1. Head(changes) = changes[1] /\ changes[1] \in Changes
  BY <1>0
<1>2. WatchTypes'
  BY <1>0, <1>1 DEF WatchInv, WatchTypes, Bytes, Changes
<1>3. Watching'
  BY <1>0 DEF WatchInv, Watching
<1>4. ASSUME up, ~failed PROVE OneHistory'
  <2>1. Joined(session) /\ Joined(changes) /\ changes[Len(changes)].after = baseline
        /\ (session # <<>> => changes[1].before = session[Len(session)].after)
        /\ (~timer => baseline = file)
    BY <1>0, <1>4 DEF WatchInv, OneHistory
  <2>2. Joined(session')
    BY <1>0, <1>1, <2>1, JoinedAppend
  <2>3. /\ Joined(Tail(changes))
        /\ Tail(changes) # <<>> => /\ Tail(changes)[1].before = changes[1].after
                                   /\ Tail(changes)[Len(Tail(changes))] = changes[Len(changes)]
        /\ Tail(changes) = <<>> => changes[1] = changes[Len(changes)]
    BY <1>0, <2>1, JoinedTail
  <2>4. session' # <<>> /\ session'[Len(session')] = changes[1]
    BY <1>0, <1>1
  <2> QED
    BY <1>0, <2>1, <2>2, <2>3, <2>4 DEF OneHistory
<1> QED
  BY <1>0, <1>2, <1>3, <1>4 DEF WatchInv, OneHistory

LEMMA FailsWatch == WatchInv /\ SealFails => WatchInv'
<1> SUFFICES ASSUME WatchInv, SealFails PROVE WatchInv'
  OBVIOUS
<1>1. WatchTypes'
  BY DEF WatchInv, WatchTypes, SealFails, Bytes, Changes
<1>2. Watching' /\ OneHistory'
  BY DEF WatchInv, Watching, OneHistory, SealFails
<1> QED
  BY <1>1, <1>2 DEF WatchInv

LEMMA EndWatch == WatchInv /\ (Stop \/ Kill) => WatchInv'
<1> SUFFICES ASSUME WatchInv, Stop \/ Kill PROVE WatchInv'
  OBVIOUS
<1>1. WatchTypes'
  BY EmptySeq DEF WatchInv, WatchTypes, Stop, Kill, Bytes, Changes
<1>2. Watching' /\ OneHistory'
  BY DEF WatchInv, Watching, OneHistory, Stop, Kill
<1> QED
  BY <1>1, <1>2 DEF WatchInv

(* The watcher's invariant holds of the console at all times, whatever the *)
(* commands beside it do (watch.ts, settle() and sealChange()).            *)
THEOREM WatchInvariance == Spec => []WatchInv
<1>1. WatchInv /\ [Next]_vars => WatchInv'
  BY WatcherAlone, SaveWatch, CommitWatch, StartWatch, SettleWatch, SealWatch, FailsWatch,
     EndWatch DEF Next, vars
<1> QED
  BY <1>1, WatchInit, PTL DEF Spec

(* Of every session in which no sealing failed the sealed changes join up  *)
(* and, once nothing is on its way, end with the bytes in the file: for    *)
(* any number of saves, commits, sessions and commands.                    *)
THEOREM HistoryJoinsUpHolds == Spec => []HistoryJoinsUp
<1>1. WatchInv => HistoryJoinsUp
  BY DEF WatchInv, WatchTypes, OneHistory, Joined, HistoryJoinsUp, Last
<1> QED
  BY <1>1, WatchInvariance, PTL

-----------------------------------------------------------------------------
(* The receipts directory.  A sequence of whatever it is a sequence of. *)
Listed(s) == s \in Seq({s[k] : k \in DOMAIN s})

(* What a command relies on in an anchor and in a receipt: there is one    *)
(* head, and it is that of a log which this record ends.                   *)
AnchorProper(a) == {"proof", "heights"} \subseteq DOMAIN a
Proper(r) ==
    /\ {"core", "sth", "anchor", "key_directory"} \subseteq DOMAIN r
    /\ \E sth \in r.sth :
          /\ r.sth = {sth} /\ {"witnesses", "root_hash"} \subseteq DOMAIN sth
          /\ Listed(sth.witnesses) /\ newestOf(sth.root_hash) = r.core.record_id
    /\ \A a \in r.anchor : AnchorProper(a)
Stored(r, n) == Proper(r) /\ r.core.record_id \in 1..n

FilesProper ==
    /\ Listed(lines) /\ Len(lines) <= MaxRecords
    /\ DOMAIN disk = 1..MaxRecords
    /\ \A i \in 1..MaxRecords : \A r \in disk[i] :
          disk[i] = {r} /\ Stored(r, Len(lines)) /\ r.core.record_id = i
    /\ \A e \in earned : e.record \in 1..Len(lines)

LogsProper == DOMAIN log = Procs /\ \A p \in Procs : Listed(log[p])

(* A command under way has what its next step takes. *)
CommandProper(pr, n) ==
    /\ Listed(pr.todo) /\ \A k \in 1..Len(pr.todo) : Stored(pr.todo[k], n)
    /\ Listed(pr.queue) /\ \A k \in 1..Len(pr.queue) : AnchorProper(pr.queue[k])
    /\ pr.cmd \in {"head", "save", "write"} => pr.todo # <<>>
    /\ pr.cmd = "ask" => pr.queue # <<>>
    /\ pr.cmd = "attach" => \E a \in pr.anchor : pr.anchor = {a} /\ AnchorProper(a)

CommandsProper == DOMAIN proc = Procs /\ \A p \in Procs : CommandProper(proc[p], Len(lines))

(* A receipt has all the facts E that were saved about its record. *)
Keeps(r, E) == \A e \in E : e.record = r.core.record_id => e \in Facts(r)

(* What a command is about to write keeps them too: it does not mention a  *)
(* record twice, and a proof without a height is not about a head that has *)
(* a confirmed one.                                                        *)
Careful(pr, E) ==
    /\ \A k \in 1..Len(pr.todo) : Keeps(pr.todo[k], E)
    /\ \A j, k \in 1..Len(pr.todo) :
          pr.todo[j].core.record_id = pr.todo[k].core.record_id => pr.todo[j] = pr.todo[k]
    /\ pr.cmd = "attach" => \A a \in pr.anchor : a.heights = {} =>
          \A e \in E : e.kind = "height" => e.record # newestOf(a.target)

OneAtATime == \A p, q \in Procs : proc[p] # Idle /\ proc[q] # Idle => p = q

Undisturbed ==
    alone =>
        /\ OneAtATime
        /\ \A p \in Procs : Careful(proc[p], earned)
        /\ \A i \in 1..MaxRecords : \A r \in disk[i] : Keeps(r, earned)

KeepInv == FilesProper /\ LogsProper /\ CommandsProper /\ Undisturbed

-----------------------------------------------------------------------------
(* Sequences of anything. *)
LEMMA SeqListed == ASSUME NEW S, NEW s \in Seq(S) PROVE Listed(s)
<1> DEFINE R == {s[k] : k \in DOMAIN s}
<1>1. s \in [1..Len(s) -> R] /\ Len(s) \in Nat
  OBVIOUS
<1> HIDE DEF R
<1>2. s \in Seq(R)
  BY <1>1
<1> QED
  BY <1>2 DEF Listed, R

LEMMA ListedAppend ==
    ASSUME NEW s, NEW e, Listed(s)
    PROVE  /\ Listed(Append(s, e)) /\ Len(s) \in Nat /\ Len(Append(s, e)) = Len(s) + 1
           /\ \A i \in 1..Len(s) : Append(s, e)[i] = s[i]
           /\ Append(s, e)[Len(s) + 1] = e
<1> DEFINE R == {s[k] : k \in DOMAIN s} \cup {e}
<1>1. s \in Seq(R) /\ e \in R
  <2>1. {s[k] : k \in DOMAIN s} \subseteq R
    OBVIOUS
  <2>2. s \in Seq({s[k] : k \in DOMAIN s})
    BY DEF Listed
  <2> QED
    BY <2>1, <2>2
<1> HIDE DEF R
<1>2. Append(s, e) \in Seq(R)
  BY <1>1
<1>3. Listed(Append(s, e))
  BY <1>2, SeqListed
<1> QED
  BY <1>1, <1>3

LEMMA ListedTail ==
    ASSUME NEW s, Listed(s), s # <<>>
    PROVE  /\ Listed(Tail(s)) /\ Len(s) \in Nat /\ Len(s) > 0 /\ Len(Tail(s)) = Len(s) - 1
           /\ Head(s) = s[1] /\ \A i \in 1..(Len(s) - 1) : Tail(s)[i] = s[i + 1]
<1> DEFINE R == {s[k] : k \in DOMAIN s}
<1>1. s \in Seq(R)
  BY DEF Listed
<1> HIDE DEF R
<1>2. Tail(s) \in Seq(R)
  BY <1>1
<1>3. Listed(Tail(s))
  BY <1>2, SeqListed
<1>4. Len(s) \in Nat /\ Len(s) > 0
  BY <1>1, EmptySeq
<1> QED
  BY <1>1, <1>3, <1>4

LEMMA ListedMap ==
    ASSUME NEW n \in Nat, NEW s, s = [i \in 1..n |-> s[i]]
    PROVE  Listed(s) /\ Len(s) = n
<1> DEFINE R == {s[k] : k \in 1..n}
<1>1. s \in [1..n -> R]
  <2> HIDE DEF R
  <2>1. \A i \in 1..n : s[i] \in R
    BY DEF R
  <2> QED
    BY <2>1
<1> HIDE DEF R
<1>2. s \in Seq(R) /\ Len(s) = n
  BY <1>1
<1>3. Listed(s)
  BY <1>2, SeqListed, Zenon
<1> QED
  BY <1>2, <1>3

(* FlattenSeq() makes one sequence of many, by putting one after the other; *)
(* f[i] is what the first i of them make.                                   *)
Flattens(f, seqs, n, S) ==
    /\ FlattenSeq(seqs) = f[n]
    /\ \A i \in 1..n : f[i] = IF i = 1 THEN seqs[i] ELSE f[i - 1] \o seqs[i]
    /\ \A i \in 1..n : f[i] \in Seq(S)

LEMMA FlattenedBy ==
    ASSUME NEW S, NEW n \in Nat, n # 0, NEW seqs \in [1..n -> Seq(S)]
    PROVE  \E f : Flattens(f, seqs, n, S)
<1>0. Len(seqs) = n /\ seqs \in Seq(Seq(S))
  OBVIOUS
<1> DEFINE Next1(f, i) == IF i = 1 THEN seqs[i] ELSE f[i - 1] \o seqs[i]
           Solves(f) == f = [i \in 1..n |-> Next1(f, i)]
           G == {k \in Nat : \E f \in [1..k -> Seq(S)] : \A i \in 1..k : f[i] = Next1(f, i)}
<1>1. 0 \in G
  <2> DEFINE f == [i \in 1..0 |-> <<>>]
  <2>1. f \in [1..0 -> Seq(S)] /\ \A i \in 1..0 : f[i] = Next1(f, i)
    OBVIOUS
  <2> QED
    BY <2>1
<1>2. ASSUME NEW k \in 0..(n - 1), k \in G PROVE k + 1 \in G
  <2>1. PICK f \in [1..k -> Seq(S)] : \A i \in 1..k : f[i] = Next1(f, i)
    BY <1>2
  <2> DEFINE g == [i \in 1..(k + 1) |-> IF i = k + 1 THEN Next1(f, i) ELSE f[i]]
  <2>2. k \in Nat /\ k + 1 \in 1..n
    OBVIOUS
  <2>3. Next1(f, k + 1) \in Seq(S)
    <3>1. CASE k = 0
      BY <2>2, <3>1
    <3>2. CASE k # 0
      <4>1. f[k] \in Seq(S) /\ seqs[k + 1] \in Seq(S)
        BY <2>2, <3>2
      <4>2. f[k] \o seqs[k + 1] \in Seq(S)
        BY <4>1
      <4> QED
        BY <2>2, <3>2, <4>2
    <3> QED
      BY <3>1, <3>2
  <2> HIDE DEF Next1
  <2>4. g \in [1..(k + 1) -> Seq(S)]
    BY <2>2, <2>3
  <2>5. \A i \in 1..k : g[i] = f[i]
    BY <2>2
  <2>6. g[k + 1] = Next1(f, k + 1)
    BY <2>2
  <2> HIDE DEF g
  <2>7. ASSUME NEW i \in 1..(k + 1) PROVE g[i] = Next1(g, i)
    <3>1. CASE i = 1
      <4>1. CASE k = 0
        BY <2>6, <3>1, <4>1 DEF Next1
      <4>2. CASE k # 0
        <5>1. 1 \in 1..k
          BY <2>2, <4>2
        <5>2. g[1] = f[1] /\ f[1] = Next1(f, 1)
          BY <2>1, <2>5, <5>1, Zenon
        <5> QED
          BY <3>1, <5>2 DEF Next1
      <4> QED
        BY <4>1, <4>2
    <3>2. CASE i # 1
      <4>1. i - 1 \in 1..k /\ g[i - 1] = f[i - 1]
        BY <2>2, <2>5, <3>2
      <4>2. g[i] = Next1(f, i)
        <5>1. CASE i = k + 1
          BY <2>6, <5>1
        <5>2. CASE i # k + 1
          <6>1. i \in 1..k
            BY <2>2, <5>2
          <6> QED
            BY <2>1, <2>5, <6>1, Zenon
        <5> QED
          BY <5>1, <5>2
      <4> QED
        BY <3>2, <4>1, <4>2 DEF Next1
    <3> QED
      BY <3>1, <3>2
  <2>8. k + 1 \in Nat
    BY <2>2
  <2> QED
    BY <2>4, <2>7, <2>8, Zenon
<1>3. n \in G
  <2> HIDE DEF G
  <2>1. \A i \in 0..n : i \in G
    BY <1>1, <1>2, Upwards
  <2> QED
    BY <2>1
<1>4. PICK f \in [1..n -> Seq(S)] : \A i \in 1..n : f[i] = Next1(f, i)
  BY <1>3
<1>5. Solves(f)
  <2> HIDE DEF Next1
  <2> QED
    BY <1>4
<1> DEFINE c == CHOOSE x : Solves(x)
<1>6. Solves(c)
  <2> HIDE DEF Solves
  <2> QED
    BY <1>5, Zenon
<1>7. FlattenSeq(seqs) = c[n]
  BY <1>0 DEF FlattenSeq
<1>8. \A i \in 1..n : c[i] = Next1(c, i)
  <2> HIDE DEF c, Next1
  <2> QED
    BY <1>6
<1> HIDE DEF c
<1> DEFINE T == {k \in Nat : k \in 1..n => c[k] \in Seq(S)}
<1>9. 0 \in T
  OBVIOUS
<1>10. ASSUME NEW k \in 0..(n - 1), k \in T PROVE k + 1 \in T
  <2>1. k \in Nat /\ k + 1 \in 1..n /\ seqs[k + 1] \in Seq(S)
    OBVIOUS
  <2>2. CASE k = 0
    BY <1>8, <2>1, <2>2
  <2>3. CASE k # 0
    <3>1. c[k] \in Seq(S)
      BY <1>10, <2>1, <2>3
    <3>2. c[k] \o seqs[k + 1] \in Seq(S)
      BY <2>1, <3>1
    <3>3. c[k + 1] = Next1(c, k + 1)
      BY <1>8, <2>1, Zenon
    <3>4. k + 1 # 1 /\ (k + 1) - 1 = k /\ k + 1 \in Nat
      BY <2>1, <2>3
    <3>5. c[k + 1] \in Seq(S)
      BY <3>2, <3>3, <3>4, Zenon
    <3> QED
      BY <3>4, <3>5, Zenon
  <2> QED
    BY <2>2, <2>3
<1>11. \A i \in 1..n : c[i] \in Seq(S)
  <2> HIDE DEF T
  <2>1. \A i \in 0..n : i \in T
    BY <1>9, <1>10, Upwards
  <2>2. \A i \in 1..n : i \in 0..n
    OBVIOUS
  <2> QED
    BY <2>1, <2>2 DEF T
<1>12. Flattens(c, seqs, n, S)
  BY <1>7, <1>8, <1>11 DEF Flattens
<1> QED
  BY <1>12

(* It is a sequence of what they are sequences of ... *)
LEMMA Flattened ==
    ASSUME NEW S, NEW n \in Nat, NEW seqs \in [1..n -> Seq(S)]
    PROVE  FlattenSeq(seqs) \in Seq(S)
<1>1. CASE n = 0
  <2>1. seqs = <<>> /\ Len(seqs) = n
    BY <1>1, EmptySeq
  <2>2. FlattenSeq(seqs) = seqs
    BY <1>1, <2>1 DEF FlattenSeq
  <2> QED
    BY <2>1, <2>2, EmptySeq
<1>2. CASE n # 0
  BY <1>2, FlattenedBy DEF Flattens
<1> QED
  BY <1>1, <1>2

(* ... in which all they have occurs, and which ends where the last of     *)
(* them that has anything ends.                                            *)
Gathers(s, seqs, n) ==
    /\ \A i \in 1..n : \A j \in 1..Len(seqs[i]) : \E k \in 1..Len(s) : s[k] = seqs[i][j]
    /\ s # <<>> => \E i \in 1..n : /\ seqs[i] # <<>> /\ s[Len(s)] = seqs[i][Len(seqs[i])]
                                   /\ \A j \in (i + 1)..n : seqs[j] = <<>>

LEMMA FlattenedAll ==
    ASSUME NEW S, NEW n \in Nat, NEW seqs \in [1..n -> Seq(S)]
    PROVE  Gathers(FlattenSeq(seqs), seqs, n)
<1> USE DEF Gathers
<1> DEFINE s == FlattenSeq(seqs)
           Has(t, m) == \A i \in 1..m : \A j \in 1..Len(seqs[i]) :
                           \E k \in 1..Len(t) : t[k] = seqs[i][j]
           Ends(t, m) == t # <<>> => \E i \in 1..m :
                           /\ seqs[i] # <<>> /\ t[Len(t)] = seqs[i][Len(seqs[i])]
                           /\ \A j \in (i + 1)..m : seqs[j] = <<>>
<1>1. CASE n = 0
  <2>1. s = <<>>
    <3>1. seqs = <<>> /\ Len(seqs) = n
      BY <1>1, EmptySeq
    <3> QED
      BY <1>1, <3>1 DEF FlattenSeq
  <2> QED
    BY <1>1, <2>1
<1>2. CASE n # 0
  <2>0. PICK f : Flattens(f, seqs, n, S)
    BY <1>2, FlattenedBy
  <2>1. /\ s = f[n]
        /\ \A i \in 1..n : f[i] = IF i = 1 THEN seqs[i] ELSE f[i - 1] \o seqs[i]
        /\ \A i \in 1..n : f[i] \in Seq(S)
    BY <2>0 DEF Flattens
  <2> HIDE DEF s
  <2> DEFINE G == {m \in Nat : m \in 1..n => Has(f[m], m) /\ Ends(f[m], m)}
  <2>2. 0 \in G
    OBVIOUS
  <2>3. ASSUME NEW m \in 0..(n - 1), m \in G PROVE m + 1 \in G
    <3>0. m \in Nat /\ m + 1 \in 1..n /\ m + 1 \in Nat /\ seqs[m + 1] \in Seq(S) /\ f[m + 1] \in Seq(S)
      BY <2>1
    <3>1. CASE m = 0
      <4>1. f[1] = seqs[1] /\ 1 \in 1..n /\ seqs[1] \in Seq(S)
        BY <2>1, <3>0, <3>1
      <4>2. Has(f[1], 1) /\ Ends(f[1], 1)
        BY <4>1
      <4>3. m + 1 = 1
        BY <3>1
      <4> HIDE DEF Has, Ends
      <4> QED
        BY <3>0, <4>2, <4>3
    <3>2. CASE m # 0
      <4> DEFINE a == f[m]
                 b == seqs[m + 1]
                 t == f[m + 1]
      <4>0. m \in 1..n /\ m + 1 # 1 /\ (m + 1) - 1 = m
        BY <3>0, <3>2
      <4>1. m \in 1..n /\ a \in Seq(S) /\ b \in Seq(S) /\ t = a \o b
        BY <2>1, <3>0, <4>0, Zenon
      <4>2. Has(a, m) /\ Ends(a, m)
        BY <2>3, <4>1
      <4> HIDE DEF a, b, t
      <4>3. /\ Len(t) = Len(a) + Len(b) /\ Len(a) \in Nat /\ Len(b) \in Nat
            /\ \A k \in 1..Len(a) : t[k] = a[k]
            /\ \A k \in 1..Len(b) : Len(a) + k \in 1..Len(t) /\ t[Len(a) + k] = b[k]
        BY <4>1
      <4>4. Has(t, m + 1)
        <5> SUFFICES ASSUME NEW i \in 1..(m + 1), NEW j \in 1..Len(seqs[i])
                     PROVE  \E k \in 1..Len(t) : t[k] = seqs[i][j]
          OBVIOUS
        <5>1. CASE i = m + 1
          <6>1. Len(a) + j \in 1..Len(t) /\ t[Len(a) + j] = seqs[i][j]
            BY <4>3, <5>1 DEF b
          <6> QED
            BY <6>1
        <5>2. CASE i # m + 1
          <6>1. i \in 1..m
            BY <3>0, <5>2
          <6>2. PICK k \in 1..Len(a) : a[k] = seqs[i][j]
            BY <4>2, <6>1
          <6>3. k \in 1..Len(t) /\ t[k] = a[k]
            BY <4>3
          <6> QED
            BY <6>2, <6>3
        <5> QED
          BY <5>1, <5>2
      <4>5. Ends(t, m + 1)
        <5> SUFFICES ASSUME t # <<>>
                     PROVE  \E i \in 1..(m + 1) : /\ seqs[i] # <<>> /\ t[Len(t)] = seqs[i][Len(seqs[i])]
                                                  /\ \A j \in (i + 1)..(m + 1) : seqs[j] = <<>>
          OBVIOUS
        <5>1. CASE b = <<>>
          <6>1. t = a
            BY <4>1, <5>1
          <6>2. PICK i \in 1..m : /\ seqs[i] # <<>> /\ a[Len(a)] = seqs[i][Len(seqs[i])]
                                  /\ \A j \in (i + 1)..m : seqs[j] = <<>>
            BY <4>2, <6>1
          <6>3. \A j \in (i + 1)..(m + 1) : j \in (i + 1)..m \/ j = m + 1
            BY <3>0
          <6>4. \A j \in (i + 1)..(m + 1) : seqs[j] = <<>>
            BY <5>1, <6>2, <6>3 DEF b
          <6>5. i \in 1..(m + 1)
            BY <3>0
          <6> QED
            BY <6>1, <6>2, <6>4, <6>5
        <5>2. CASE b # <<>>
          <6>1. Len(b) \in 1..Len(b)
            BY <4>1, <4>3, <5>2, EmptySeq
          <6>2. t[Len(t)] = b[Len(b)]
            BY <4>3, <6>1
          <6>3. m + 1 \in 1..(m + 1) /\ (m + 1 + 1)..(m + 1) = {}
            BY <3>0
          <6> QED
            BY <5>2, <6>2, <6>3 DEF b
        <5> QED
          BY <5>1, <5>2
      <4> HIDE DEF Has, Ends
      <4> QED
        BY <3>0, <4>4, <4>5 DEF t
    <3> QED
      BY <3>1, <3>2
  <2>4. n \in G
    <3> HIDE DEF G
    <3>1. \A i \in 0..n : i \in G
      BY <2>2, <2>3, Upwards
    <3> QED
      BY <3>1
  <2>5. Has(s, n) /\ Ends(s, n)
    <3> HIDE DEF Has, Ends
    <3> QED
      BY <1>2, <2>1, <2>4
  <2> QED
    BY <2>5 DEF s
<1> QED
  BY <1>1, <1>2

(* At most one element, as a sequence. *)
LEMMA SetToSeqOfOne ==
    ASSUME NEW X, \A x \in X : X = {x}
    PROVE  /\ SetToSeq(X) \in Seq(X) /\ (X = {} => SetToSeq(X) = <<>>)
           /\ \A x \in X : Len(SetToSeq(X)) = 1 /\ SetToSeq(X)[1] = x
<1>1. CASE X = {}
  <2>1. Cardinality(X) = 0
    BY <1>1, FS_EmptySet
  <2> DEFINE f == [i \in 1..0 |-> 0]
  <2>2. f \in [1..0 -> X] /\ IsInjective(f)
    BY DEF IsInjective
  <2>3. SetToSeq(X) \in [1..0 -> X]
    <3> HIDE DEF f
    <3> QED
      BY <2>1, <2>2, Zenon DEF SetToSeq
  <2>4. SetToSeq(X) = <<>>
    BY <2>3, EmptySeq
  <2> QED
    BY <1>1, <2>3, <2>4
<1>2. CASE X # {}
  <2>1. PICK x \in X : X = {x}
    BY <1>2
  <2>2. Cardinality(X) = 1
    BY <2>1, FS_Singleton
  <2> DEFINE f == [i \in 1..1 |-> x]
  <2>3. f \in [1..1 -> X] /\ IsInjective(f)
    BY DEF IsInjective
  <2>4. SetToSeq(X) \in [1..1 -> X]
    <3> HIDE DEF f
    <3> QED
      BY <2>2, <2>3, Zenon DEF SetToSeq
  <2>5. \A n \in Nat : \A g \in [1..n -> X] : g \in Seq(X)
    OBVIOUS
  <2>6. 1 \in Nat
    OBVIOUS
  <2>7. SetToSeq(X) \in Seq(X)
    BY <2>4, <2>5, <2>6, Zenon
  <2>8. Len(SetToSeq(X)) = 1 /\ SetToSeq(X)[1] = x
    BY <2>1, <2>4
  <2> QED
    BY <1>2, <2>1, <2>7, <2>8
<1> QED
  BY <1>1, <1>2

(* loadReceipts() returns what is in the files. *)
LEMMA Loaded ==
    ASSUME NEW found, \A i \in 1..MaxRecords : \A r \in found[i] : found[i] = {r}
    PROVE  inOrder(found) \in Seq(UNION {found[i] : i \in 1..MaxRecords})
<1> DEFINE S == UNION {found[i] : i \in 1..MaxRecords}
           seqs == [i \in 1..MaxRecords |-> SetToSeq(found[i])]
<1>0. MaxRecords \in Nat
  BY WorkspaceAssumption
<1>1. \A i \in 1..MaxRecords : SetToSeq(found[i]) \in Seq(S)
  <2> SUFFICES ASSUME NEW i \in 1..MaxRecords PROVE SetToSeq(found[i]) \in Seq(S)
    OBVIOUS
  <2>1. SetToSeq(found[i]) \in Seq(found[i])
    BY SetToSeqOfOne
  <2>2. found[i] \subseteq S
    OBVIOUS
  <2> HIDE DEF S
  <2> QED
    BY <2>1, <2>2
<1>2. seqs \in [1..MaxRecords -> Seq(S)]
  <2> HIDE DEF S
  <2> QED
    BY <1>1
<1> HIDE DEF S, seqs
<1>3. FlattenSeq(seqs) \in Seq(S)
  BY <1>0, <1>2, Flattened
<1> QED
  BY <1>3 DEF inOrder, S, seqs

-----------------------------------------------------------------------------
LEMMA LoadedSome ==
    ASSUME FilesProper, NEW found, \A i \in 1..MaxRecords : found[i] \subseteq disk[i],
           NEW s, s = inOrder(found)
    PROVE  /\ Listed(s) /\ Len(s) \in Nat
           /\ \A k \in 1..Len(s) :
                 /\ s[k].core.record_id \in 1..MaxRecords
                 /\ s[k] \in found[s[k].core.record_id]
                 /\ Stored(s[k], Len(lines))
           /\ \A j, k \in 1..Len(s) : s[j].core.record_id = s[k].core.record_id => s[j] = s[k]
<1> DEFINE S == UNION {found[i] : i \in 1..MaxRecords}
<1>1. \A i \in 1..MaxRecords : \A r \in found[i] :
        found[i] = {r} /\ Stored(r, Len(lines)) /\ r.core.record_id = i
  BY DEF FilesProper
<1>2. s \in Seq(S)
  BY <1>1, Loaded
<1>3. \A r \in S : /\ r.core.record_id \in 1..MaxRecords /\ r \in found[r.core.record_id]
                   /\ found[r.core.record_id] = {r} /\ Stored(r, Len(lines))
  BY <1>1
<1> HIDE DEF S
<1>4. Len(s) \in Nat /\ \A k \in 1..Len(s) : s[k] \in S
  BY <1>2
<1>5. Listed(s)
  BY <1>2, SeqListed, Zenon
<1>6. ASSUME NEW j \in 1..Len(s), NEW k \in 1..Len(s),
             s[j].core.record_id = s[k].core.record_id
      PROVE  s[j] = s[k]
  BY <1>3, <1>4, <1>6
<1> QED
  BY <1>3, <1>4, <1>5, <1>6

(* The anchors that an upgrade goes through come from the receipts. *)
LEMMA AnchorsLoaded ==
    ASSUME FilesProper
    PROVE  /\ Listed(storedAnchors)
           /\ \A k \in 1..Len(storedAnchors) :
                 /\ AnchorProper(storedAnchors[k])
                 /\ \E i \in 1..MaxRecords : \E r \in disk[i] : storedAnchors[k] \in r.anchor
<1> DEFINE with == loadSome(LAMBDA r : r.anchor # {})
           size(n) == {i \in 1..Len(with) : Some(with[i].anchor).tree_size = n}
           last(n) == CHOOSE i \in size(n) : \A j \in size(n) : j <= i
           A == {Some(with[i].anchor) : i \in 1..Len(with)}
           seqs == [n \in 1..MaxRecords |->
                      IF size(n) = {} THEN <<>> ELSE <<Some(with[last(n)].anchor)>>]
           found == [i \in 1..MaxRecords |-> {r \in disk[i] : r.anchor # {}}]
<1>0. MaxRecords \in Nat
  BY WorkspaceAssumption
<1>1. with = inOrder(found)
  BY Zenon DEF loadSome
<1>2. \A i \in 1..MaxRecords : found[i] \subseteq disk[i] /\ \A r \in found[i] : r.anchor # {}
  OBVIOUS
<1> HIDE DEF with, found
<1>3. /\ Len(with) \in Nat
      /\ \A k \in 1..Len(with) : with[k].core.record_id \in 1..MaxRecords
                                 /\ with[k] \in found[with[k].core.record_id]
                                 /\ Stored(with[k], Len(lines))
  BY <1>1, <1>2, LoadedSome
<1>4. \A k \in 1..Len(with) : /\ with[k].anchor # {} /\ Proper(with[k])
                              /\ \E i \in 1..MaxRecords : with[k] \in disk[i]
  BY <1>2, <1>3 DEF Stored
<1> DEFINE kept(a) == \E i \in 1..MaxRecords : \E r \in disk[i] : a \in r.anchor
<1>5. \A k \in 1..Len(with) : AnchorProper(Some(with[k].anchor)) /\ kept(Some(with[k].anchor))
  <2> SUFFICES ASSUME NEW k \in 1..Len(with)
               PROVE  AnchorProper(Some(with[k].anchor)) /\ kept(Some(with[k].anchor))
    OBVIOUS
  <2>1. Some(with[k].anchor) \in with[k].anchor
    BY <1>4 DEF Some
  <2> QED
    BY <1>4, <2>1 DEF Proper
<1>6. \A a \in A : AnchorProper(a) /\ kept(a)
  <2> HIDE DEF kept
  <2> QED
    BY <1>5
<1>7. ASSUME NEW n \in 1..MaxRecords, size(n) # {} PROVE Some(with[last(n)].anchor) \in A
  <2>1. size(n) \subseteq 0..Len(with)
    BY <1>3
  <2>2. \E i \in size(n) : \A j \in size(n) : j <= i
    <3> HIDE DEF size
    <3> QED
      BY <1>3, <1>7, <2>1, GreatestNat
  <2>3. last(n) \in size(n)
    <3> HIDE DEF size
    <3> QED
      BY <2>2, Zenon
  <2>4. last(n) \in 1..Len(with)
    <3> HIDE DEF last
    <3> QED
      BY <2>3
  <2> HIDE DEF last
  <2> QED
    BY <2>4
<1> HIDE DEF size, last, A
<1>8. \A n \in 1..MaxRecords :
         (IF size(n) = {} THEN <<>> ELSE <<Some(with[last(n)].anchor)>>) \in Seq(A)
  <2> SUFFICES ASSUME NEW n \in 1..MaxRecords
               PROVE (IF size(n) = {} THEN <<>> ELSE <<Some(with[last(n)].anchor)>>) \in Seq(A)
    OBVIOUS
  <2>1. CASE size(n) = {}
    BY <2>1
  <2>2. CASE size(n) # {}
    BY <1>7, <2>2
  <2> QED
    BY <2>1, <2>2
<1>9. seqs \in [1..MaxRecords -> Seq(A)]
  BY <1>8
<1>10. FlattenSeq(seqs) \in Seq(A)
  <2> HIDE DEF seqs
  <2> QED
    BY <1>0, <1>9, Flattened
<1>11. storedAnchors = FlattenSeq(seqs)
  BY Zenon DEF storedAnchors, seqs, size, last, with
<1> HIDE DEF seqs
<1>12. storedAnchors \in Seq(A)
  BY <1>10, <1>11
<1>13. Listed(storedAnchors)
  BY <1>12, SeqListed, Zenon
<1>14. \A k \in 1..Len(storedAnchors) : storedAnchors[k] \in A
  BY <1>12
<1> QED
  BY <1>6, <1>13, <1>14

(* The receipt that is sealed next. *)
LEMMA SealedStored ==
    ASSUME NEW memory, Listed(memory), NEW id \in Nat \ {0}, NEW event,
           NEW core, core = changeCore(plane, id, event, {DEFAULT_POLICY}),
           NEW r, r = seal(plane, plane.keys.log, memory, core)
    PROVE  Stored(r, id) /\ r.core.record_id = id
<1> DEFINE grown == Append(memory, core)
           sth == buildSTH(grown, plane.keys.log)
<1>1. /\ Len(memory) \in Nat /\ Len(grown) = Len(memory) + 1
      /\ grown[Len(memory) + 1] = core
  BY ListedAppend
<1>2. core.record_id = id
  BY DEF changeCore
<1>3. r.core = core /\ r.sth = {sth} /\ r.anchor = {}
      /\ {"core", "sth", "anchor", "key_directory"} \subseteq DOMAIN r
  BY DEF seal
<1>4. /\ {"witnesses", "root_hash"} \subseteq DOMAIN sth
      /\ sth.witnesses = <<>> /\ sth.root_hash = grown
  BY DEF buildSTH
<1> HIDE DEF sth, grown
<1>5. Listed(<<>>)
  BY SeqListed, EmptySeq
<1>6. newestOf(grown) = id
  BY <1>1, <1>2 DEF newestOf
<1>7. Proper(r)
  BY <1>2, <1>3, <1>4, <1>5, <1>6 DEF Proper
<1> QED
  BY <1>2, <1>3, <1>7 DEF Stored

(* attachWitness() takes nothing away. *)
LEMMA Cosigned ==
    ASSUME NEW r, Proper(r), NEW st
    PROVE  LET x == attachWitness(r, st)
           IN  Proper(x) /\ x.core = r.core /\ Facts(r) \subseteq Facts(x)
<1> DEFINE x == attachWitness(r, st)
<1>1. PICK sth \in r.sth :
          /\ r.sth = {sth} /\ {"witnesses", "root_hash"} \subseteq DOMAIN sth
          /\ Listed(sth.witnesses) /\ newestOf(sth.root_hash) = r.core.record_id
  BY DEF Proper
<1>2. Some(r.sth) = sth
  BY <1>1 DEF Some
<1> DEFINE more == [sth EXCEPT !.witnesses = Append(@, st.witness)]
<1>3. x.core = r.core /\ x.anchor = r.anchor /\ x.sth \in {{sth}, {more}}
      /\ {"core", "sth", "anchor", "key_directory"} \subseteq DOMAIN x
  BY <1>2 DEF Proper, attachWitness
<1>4. /\ {"witnesses", "root_hash"} \subseteq DOMAIN more
      /\ more.witnesses = Append(sth.witnesses, st.witness) /\ more.root_hash = sth.root_hash
  BY <1>1
<1> HIDE DEF x, more
<1>5. Listed(more.witnesses)
      /\ Len(sth.witnesses) \in Nat /\ Len(more.witnesses) = Len(sth.witnesses) + 1
      /\ \A i \in 1..Len(sth.witnesses) : more.witnesses[i] = sth.witnesses[i]
  BY <1>1, <1>4, ListedAppend
<1>6. PICK new : x.sth = {new} /\ new \in {sth, more}
  BY <1>3
<1>7. /\ {"witnesses", "root_hash"} \subseteq DOMAIN new
      /\ Listed(new.witnesses) /\ newestOf(new.root_hash) = r.core.record_id
      /\ Len(sth.witnesses) \in Nat /\ Len(new.witnesses) \in Nat
      /\ Len(new.witnesses) >= Len(sth.witnesses)
      /\ \A i \in 1..Len(sth.witnesses) : new.witnesses[i] = sth.witnesses[i]
  <2>1. CASE new = sth
    BY <1>1, <1>5, <2>1
  <2>2. CASE new = more
    <3>1. newestOf(more.root_hash) = r.core.record_id /\ {"witnesses", "root_hash"} \subseteq DOMAIN more
      BY <1>1, <1>4, Zenon
    <3>2. Len(more.witnesses) \in Nat /\ Len(more.witnesses) >= Len(sth.witnesses)
      BY <1>5
    <3> QED
      BY <1>5, <2>2, <3>1, <3>2, Zenon
  <2> QED
    BY <1>6, <2>1, <2>2
<1>8. Proper(x)
  BY <1>3, <1>6, <1>7 DEF Proper
<1>9. Facts(r) \subseteq Facts(x)
  <2> SUFFICES ASSUME NEW e \in Facts(r) PROVE e \in Facts(x)
    OBVIOUS
  <2>1. CASE \E i \in 1..Len(sth.witnesses) : e = [record |-> r.core.record_id, kind |-> "witness",
                                                   of |-> sth.witnesses[i].id]
    <3>1. PICK i \in 1..Len(sth.witnesses) : e = [record |-> r.core.record_id, kind |-> "witness",
                                                   of |-> sth.witnesses[i].id]
      BY <2>1
    <3>2. i \in 1..Len(new.witnesses) /\ new.witnesses[i] = sth.witnesses[i]
      BY <1>7
    <3> QED
      BY <1>3, <1>6, <3>1, <3>2 DEF Facts
  <2>2. CASE \E a \in r.anchor : a.heights # {} /\ e = [record |-> r.core.record_id,
                                                        kind |-> "height", of |-> "block"]
    BY <1>3, <2>2 DEF Facts
  <2> QED
    BY <1>1, <2>1, <2>2 DEF Facts
<1> QED
  BY <1>3, <1>8, <1>9 DEF x

(* attachAnchor() takes at most a height away. *)
LEMMA Anchored ==
    ASSUME NEW r, Proper(r), NEW a, AnchorProper(a)
    PROVE  LET x == attachAnchor(r, a)
           IN  /\ Proper(x) /\ x.core = r.core
               /\ \A e \in Facts(r) : e.kind # "height" \/ a.heights # {} => e \in Facts(x)
<1> DEFINE x == attachAnchor(r, a)
<1>1. x.core = r.core /\ x.sth = r.sth /\ x.anchor = {a}
      /\ {"core", "sth", "anchor", "key_directory"} \subseteq DOMAIN x
  BY DEF Proper, attachAnchor
<1> HIDE DEF x
<1>2. Proper(x)
  BY <1>1 DEF Proper
<1>3. ASSUME NEW e \in Facts(r), e.kind # "height" \/ a.heights # {} PROVE e \in Facts(x)
  BY <1>1, <1>3 DEF Facts
<1> QED
  BY <1>1, <1>2, <1>3 DEF x

(* Facts of a receipt are about its record. *)
LEMMA FactsAbout == \A r : \A e \in Facts(r) : e.record = r.core.record_id
  BY DEF Facts

LEMMA ContinueProper ==
    ASSUME NEW n, NEW t, NEW q,
           Listed(t), \A k \in 1..Len(t) : Stored(t[k], n),
           Listed(q), \A k \in 1..Len(q) : AnchorProper(q[k])
    PROVE  CommandProper(Continue(t, q), n) /\ Continue(t, q).cmd # "attach" /\ Continue(t, q).todo = t
<1>1. CASE t # <<>>
  <2>1. Continue(t, q) = [cmd |-> "save", todo |-> t, queue |-> q, anchor |-> {}]
    BY <1>1 DEF Continue, Job
  <2> QED
    BY <1>1, <2>1 DEF CommandProper
<1>2. CASE t = <<>> /\ q # <<>>
  <2>1. Continue(t, q) = [cmd |-> "ask", todo |-> t, queue |-> q, anchor |-> {}]
    BY <1>2 DEF Continue, Job
  <2> QED
    BY <1>2, <2>1 DEF CommandProper
<1>3. CASE t = <<>> /\ q = <<>>
  <2>1. Continue(t, q) = [cmd |-> "idle", todo |-> t, queue |-> q, anchor |-> {}]
    BY <1>3 DEF Continue, Idle, Job
  <2> QED
    BY <1>3, <2>1 DEF CommandProper
<1> QED
  BY <1>1, <1>2, <1>3

LEMMA EmptyListed == Listed(<<>>) /\ Len(<<>>) = 0 /\ 1..Len(<<>>) = {}
<1>1. Listed(<<>>)
  BY SeqListed, EmptySeq
<1> QED
  BY <1>1, EmptySeq

LEMMA IdleProper == \A n : CommandProper(Idle, n)
<1>1. Listed(<<>>)
  BY SeqListed, EmptySeq
<1> QED
  BY <1>1 DEF CommandProper, Idle, Job

LEMMA IdleCareful == \A E : Careful(Idle, E)
  BY DEF Careful, Idle, Job

(* More records do no harm to a command. *)
LEMMA MoreRecords ==
    ASSUME NEW pr, NEW n \in Nat, NEW m \in Nat, n <= m, CommandProper(pr, n)
    PROVE  CommandProper(pr, m)
<1>1. \A r : Stored(r, n) => Stored(r, m)
  BY DEF Stored
<1> QED
  BY <1>1, Zenon DEF CommandProper

(* A step of one command: what is left to show of it. *)
LEMMA OneSteps ==
    ASSUME KeepInv, NEW p \in Procs, NEW pr, proc' = [proc EXCEPT ![p] = pr],
           FilesProper', LogsProper', Len(lines) \in Nat, Len(lines') \in Nat, Len(lines) <= Len(lines'),
           CommandProper(pr, Len(lines')),
           alone' => /\ \A q \in Procs \ {p} : proc[q] = Idle
                     /\ Careful(pr, earned')
                     /\ \A i \in 1..MaxRecords : \A r \in disk'[i] : Keeps(r, earned')
    PROVE  KeepInv'
<1>1. DOMAIN proc' = Procs /\ proc'[p] = pr /\ \A q \in Procs : q # p => proc'[q] = proc[q]
  BY DEF KeepInv, CommandsProper
<1>2. CommandsProper'
  <2>1. ASSUME NEW q \in Procs PROVE CommandProper(proc'[q], Len(lines'))
    <3>1. CASE q = p
      BY <1>1, <3>1
    <3>2. CASE q # p
      <4>1. CommandProper(proc[q], Len(lines))
        BY DEF KeepInv, CommandsProper
      <4>2. CommandProper(proc[q], Len(lines'))
        BY <4>1, MoreRecords
      <4> QED
        BY <1>1, <3>2, <4>2
    <3> QED
      BY <3>1, <3>2
  <2> QED
    BY <1>1, <2>1 DEF CommandsProper
<1>3. ASSUME alone' PROVE OneAtATime' /\ \A q \in Procs : Careful(proc'[q], earned')
  <2>1. \A q \in Procs : q # p => proc'[q] = Idle
    BY <1>1, <1>3
  <2>2. OneAtATime'
    BY <2>1 DEF OneAtATime
  <2>3. \A q \in Procs : Careful(proc'[q], earned')
    BY <1>1, <1>3, <2>1, IdleCareful
  <2> QED
    BY <2>2, <2>3
<1>4. Undisturbed'
  BY <1>3 DEF Undisturbed
<1> QED
  BY <1>2, <1>4 DEF KeepInv

(* A command under way is the only one. *)
LEMMA OnlyOne ==
    ASSUME KeepInv, alone, NEW p \in Procs, proc[p] # Idle
    PROVE  /\ \A q \in Procs \ {p} : proc[q] = Idle
           /\ Careful(proc[p], earned)
           /\ \A i \in 1..MaxRecords : \A r \in disk[i] : Keeps(r, earned)
  BY DEF KeepInv, Undisturbed, OneAtATime

LEMMA FilesAlike == ASSUME FilesProper, UNCHANGED <<lines, disk, earned>> PROVE FilesProper'
  BY DEF FilesProper, Stored

LEMMA LogsAlike == ASSUME LogsProper, UNCHANGED log PROVE LogsProper'
  BY DEF LogsProper

(* The log of one process is another one now. *)
LEMMA LogSet ==
    ASSUME LogsProper, NEW p \in Procs, NEW memory, Listed(memory),
           log' = [log EXCEPT ![p] = memory]
    PROVE  LogsProper'
<1>1. DOMAIN log' = Procs /\ \A q \in Procs : log'[q] = (IF q = p THEN memory ELSE log[q])
  BY DEF LogsProper
<1> QED
  BY <1>1 DEF LogsProper

LEMMA LinesCount == ASSUME KeepInv PROVE Len(lines) \in Nat /\ Listed(lines)
<1>1. Listed(lines)
  BY DEF KeepInv, FilesProper
<1> QED
  BY <1>1, ListedAppend

-----------------------------------------------------------------------------
(* Step by step.  A record is new: nothing has been saved about it. *)
LEMMA RecordKeeps ==
    ASSUME KeepInv, NEW p \in Procs, NEW event, NEW goesOn, Record(p, event, goesOn),
           alone' => alone /\ \A q \in Procs \ {p} : proc[q] = Idle
    PROVE  KeepInv'
<1> DEFINE core == changeCore(plane, Len(lines) + 1, event, {DEFAULT_POLICY})
           fresh == seal(plane, plane.keys.log, log[p], core)
           kept == IF goesOn THEN Append(log[p], core) ELSE <<>>
           pr == Job("head", <<fresh>>, <<>>, {})
<1>1. /\ Len(lines) < MaxRecords /\ lines' = Append(lines, core)
      /\ log' = [log EXCEPT ![p] = kept] /\ proc' = [proc EXCEPT ![p] = pr]
      /\ UNCHANGED <<disk, earned>>
  BY Zenon DEF Record
<1>2. Len(lines) \in Nat /\ Listed(lines) /\ MaxRecords \in Nat /\ Len(lines) + 1 \in Nat \ {0}
  BY LinesCount, WorkspaceAssumption
<1>3. Listed(log[p])
  BY DEF KeepInv, LogsProper
<1>4. Stored(fresh, Len(lines) + 1) /\ fresh.core.record_id = Len(lines) + 1
  <2>1. PICK memory, id : memory = log[p] /\ id = Len(lines) + 1 /\ id \in Nat \ {0}
    BY <1>2
  <2>2. Listed(memory) /\ id \in Nat \ {0}
    BY <1>3, <2>1
  <2>3. core = changeCore(plane, id, event, {DEFAULT_POLICY})
    BY <2>1
  <2>4. fresh = seal(plane, plane.keys.log, memory, core)
    <3> HIDE DEF core
    <3> QED
      BY <2>1
  <2> HIDE DEF fresh, core
  <2>5. Stored(fresh, id) /\ fresh.core.record_id = id
    BY <2>2, <2>3, <2>4, SealedStored
  <2> QED
    BY <2>1, <2>5
<1>5. pr = [cmd |-> "head", todo |-> <<fresh>>, queue |-> <<>>, anchor |-> {}]
  BY DEF Job
<1> HIDE DEF pr, fresh, core
<1>6. Listed(kept)
  BY <1>3, ListedAppend, EmptyListed
<1> HIDE DEF kept
<1>7. LogsProper'
  BY <1>1, <1>6, LogSet DEF KeepInv
<1>8. Listed(lines') /\ Len(lines') = Len(lines) + 1
  BY <1>1, <1>2, ListedAppend
<1>9. FilesProper'
  <2>1. \A r : Stored(r, Len(lines)) => Stored(r, Len(lines'))
    BY <1>2, <1>8 DEF Stored
  <2>2. Len(lines') <= MaxRecords
    BY <1>1, <1>2, <1>8
  <2>3. \A e \in earned : e.record \in 1..Len(lines')
    BY <1>2, <1>8 DEF KeepInv, FilesProper
  <2> QED
    BY <1>1, <1>8, <2>1, <2>2, <2>3, Zenon DEF KeepInv, FilesProper
<1>10. CommandProper(pr, Len(lines'))
  <2>1. Listed(<<>>) /\ Listed(<<fresh>>)
    <3>1. <<>> \in Seq({fresh}) /\ <<fresh>> \in Seq({fresh})
      OBVIOUS
    <3> QED
      BY <3>1, SeqListed
  <2> QED
    BY <1>4, <1>5, <1>8, <2>1 DEF CommandProper
<1>11. Careful(pr, earned)
  <2>1. Keeps(fresh, earned)
    <3>1. \A e \in earned : e.record # Len(lines) + 1
      BY <1>2 DEF KeepInv, FilesProper
    <3> QED
      BY <1>4, <3>1 DEF Keeps
  <2> QED
    BY <1>5, <2>1 DEF Careful
<1>12. alone => \A i \in 1..MaxRecords : \A r \in disk[i] : Keeps(r, earned)
  BY DEF KeepInv, Undisturbed
<1>13. Len(lines') \in Nat /\ Len(lines) <= Len(lines')
  BY <1>2, <1>8
<1> QED
  BY <1>1, <1>2, <1>7, <1>9, <1>10, <1>11, <1>12, <1>13, OneSteps

(* A process opens the workspace, which loads the log.                     *)
LEMMA SealKeeps ==
    ASSUME KeepInv, NEW p \in Procs, SealCommand(p)
    PROVE  KeepInv'
<1> DEFINE pr == Job("seal", <<>>, <<>>, {})
<1>1. /\ log' = [log EXCEPT ![p] = lines] /\ proc' = [proc EXCEPT ![p] = pr]
      /\ alone' = (alone /\ \A q \in Procs \ {p} : proc[q] = Idle)
      /\ UNCHANGED <<lines, disk, earned>>
  BY DEF SealCommand
<1>2. pr = [cmd |-> "seal", todo |-> <<>>, queue |-> <<>>, anchor |-> {}]
  BY DEF Job
<1> HIDE DEF pr
<1>3. CommandProper(pr, Len(lines)) /\ Careful(pr, earned)
  BY <1>2, EmptyListed DEF CommandProper, Careful
<1>4. Len(lines) \in Nat /\ Listed(lines) /\ Len(lines) <= Len(lines)
  BY LinesCount
<1>5. FilesProper' /\ LogsProper'
  BY <1>1, <1>4, FilesAlike, LogSet DEF KeepInv
<1>6. alone => \A i \in 1..MaxRecords : \A r \in disk[i] : Keeps(r, earned)
  BY DEF KeepInv, Undisturbed
<1> QED
  BY <1>1, <1>3, <1>4, <1>5, <1>6, OneSteps

(* A command that begins with what it has loaded. *)
LEMMA BeginKeeps ==
    ASSUME KeepInv, NEW p \in Procs, NEW t, NEW q,
           Begin(p, t, q),
           UNCHANGED <<lines, log, disk, earned>>,
           Listed(t), \A k \in 1..Len(t) : Stored(t[k], Len(lines)),
           Listed(q), \A k \in 1..Len(q) : AnchorProper(q[k]),
           alone => \A k \in 1..Len(t) : Keeps(t[k], earned),
           \A j, k \in 1..Len(t) : t[j].core.record_id = t[k].core.record_id => t[j] = t[k]
    PROVE  KeepInv'
<1> DEFINE pr == Continue(t, q)
<1>1. /\ proc' = [proc EXCEPT ![p] = pr]
      /\ alone' = (alone /\ \A o \in Procs \ {p} : proc[o] = Idle)
  BY DEF Begin
<1>2. CommandProper(pr, Len(lines)) /\ pr.cmd # "attach" /\ pr.todo = t
  BY ContinueProper
<1> HIDE DEF pr
<1>3. alone => Careful(pr, earned)
  BY <1>2 DEF Careful
<1>4. alone => \A i \in 1..MaxRecords : \A r \in disk[i] : Keeps(r, earned)
  BY DEF KeepInv, Undisturbed
<1>5. FilesProper' /\ LogsProper'
  BY FilesAlike, LogsAlike DEF KeepInv
<1>6. Len(lines) \in Nat
  BY LinesCount
<1>7. Len(lines) <= Len(lines)
  BY <1>6
<1> QED
  BY <1>1, <1>2, <1>3, <1>4, <1>5, <1>6, <1>7, OneSteps

(* A receipt rewritten with no less on it. *)
LEMMA KeepsMore ==
    ASSUME NEW r, NEW x, NEW E, Keeps(r, E), x.core = r.core, Facts(r) \subseteq Facts(x)
    PROVE  Keeps(x, E)
  BY DEF Keeps

LEMMA WitnessKeeps ==
    ASSUME KeepInv, NEW p \in Procs, WitnessCommand(p)
    PROVE  KeepInv'
<1> DEFINE found == [i \in 1..MaxRecords |-> {r \in disk[i] : r.sth # {}}]
           stored == inOrder(found)
           cosigned(r, name) == attachWitness(r, cosign(Some(r.sth), witnessId(name), name))
<1>1. PICK name \in Names :
         /\ Begin(p, [i \in 1..Len(stored) |-> cosigned(stored[i], name)], <<>>)
         /\ UNCHANGED <<lines, log, checkpoint, disk, earned>>
  BY Zenon DEF WitnessCommand, loadSome, logVars
<1> DEFINE t == [i \in 1..Len(stored) |-> cosigned(stored[i], name)]
<1>2. \A i \in 1..MaxRecords : found[i] \subseteq disk[i]
  OBVIOUS
<1> HIDE DEF found
<1>3. /\ Len(stored) \in Nat
      /\ \A k \in 1..Len(stored) :
           /\ stored[k].core.record_id \in 1..MaxRecords
           /\ stored[k] \in found[stored[k].core.record_id] /\ Stored(stored[k], Len(lines))
      /\ \A j, k \in 1..Len(stored) :
           stored[j].core.record_id = stored[k].core.record_id => stored[j] = stored[k]
  BY <1>2, LoadedSome DEF KeepInv
<1> HIDE DEF stored
<1>4. \A k \in 1..Len(stored) :
         /\ Proper(t[k]) /\ t[k].core = stored[k].core /\ Facts(stored[k]) \subseteq Facts(t[k])
  <2> SUFFICES ASSUME NEW k \in 1..Len(stored)
               PROVE  /\ Proper(t[k]) /\ t[k].core = stored[k].core
                      /\ Facts(stored[k]) \subseteq Facts(t[k])
    OBVIOUS
  <2> DEFINE st == cosign(Some(stored[k].sth), witnessId(name), name)
  <2>1. Proper(stored[k])
    BY <1>3 DEF Stored
  <2>2. t[k] = attachWitness(stored[k], st)
    OBVIOUS
  <2> HIDE DEF st, t
  <2> QED
    BY <2>1, <2>2, Cosigned
<1>5. t = [i \in 1..Len(stored) |-> t[i]]
  BY Zenon
<1>6. Begin(p, t, <<>>)
  BY <1>1
<1>7. \A j, k \in 1..Len(stored) : t[j].core.record_id = t[k].core.record_id => t[j] = t[k]
  <2> SUFFICES ASSUME NEW j \in 1..Len(stored), NEW k \in 1..Len(stored),
                      t[j].core.record_id = t[k].core.record_id
               PROVE  t[j] = t[k]
    BY Zenon
  <2>1. stored[j] = stored[k]
    BY <1>3, <1>4, Zenon
  <2> QED
    BY <2>1, Zenon
<1> HIDE DEF t
<1>8. Listed(t) /\ Len(t) = Len(stored)
  BY <1>3, <1>5, ListedMap
<1>9. \A k \in 1..Len(t) : Stored(t[k], Len(lines))
  BY <1>3, <1>4, <1>8 DEF Stored
<1>10. ASSUME alone, NEW k \in 1..Len(t) PROVE Keeps(t[k], earned)
  <2>1. stored[k] \in disk[stored[k].core.record_id] /\ stored[k].core.record_id \in 1..MaxRecords
    BY <1>2, <1>3, <1>8
  <2>2. Keeps(stored[k], earned)
    BY <1>10, <2>1 DEF KeepInv, Undisturbed
  <2> QED
    BY <1>4, <1>8, <2>2, KeepsMore
<1> QED
  BY EmptyListed, <1>1, <1>6, <1>7, <1>8, <1>9, <1>10, BeginKeeps

(* A proof that starts anew is not about a confirmed head. *)
LEMMA SubmitKeeps ==
    ASSUME KeepInv, NEW p \in Procs, SubmitCommand(p)
    PROVE  KeepInv'
<1> DEFINE again(h) == \E e \in earned : e.kind = "height" /\ e.record = newestOf(h.root_hash)
<1>1. PICK order \in Orders, h \in checkpoint :
         /\ proc' = [proc EXCEPT ![p] = Job("attach", <<>>, <<>>, {anchorHead(h, order)})]
         /\ alone' = (alone /\ ~again(h) /\ \A q \in Procs \ {p} : proc[q] = Idle)
         /\ UNCHANGED <<lines, log, disk, earned>>
  BY Zenon DEF SubmitCommand, logVars
<1> DEFINE a == anchorHead(h, order)
           pr == Job("attach", <<>>, <<>>, {a})
<1>2. AnchorProper(a) /\ a.heights = {} /\ a.target = h.root_hash
  BY DEF anchorHead, AnchorProper
<1> HIDE DEF a
<1>3. pr = [cmd |-> "attach", todo |-> <<>>, queue |-> <<>>, anchor |-> {a}]
  BY DEF Job
<1> HIDE DEF pr
<1>4. CommandProper(pr, Len(lines))
  BY <1>2, <1>3, EmptyListed DEF CommandProper
<1>5. ~again(h) => Careful(pr, earned)
  BY <1>2, <1>3, EmptyListed DEF Careful
<1>6. alone => \A i \in 1..MaxRecords : \A r \in disk[i] : Keeps(r, earned)
  BY DEF KeepInv, Undisturbed
<1>7. FilesProper' /\ LogsProper'
  BY <1>1, FilesAlike, LogsAlike DEF KeepInv
<1>8. Len(lines) \in Nat /\ Len(lines) <= Len(lines)
  BY LinesCount
<1>9. proc' = [proc EXCEPT ![p] = pr]
  BY <1>1 DEF pr, a
<1> HIDE DEF again
<1> QED
  BY <1>1, <1>4, <1>5, <1>6, <1>7, <1>8, <1>9, OneSteps

LEMMA UpgradeKeeps ==
    ASSUME KeepInv, NEW p \in Procs, UpgradeCommand(p)
    PROVE  KeepInv'
<1>1. Begin(p, <<>>, storedAnchors) /\ UNCHANGED <<lines, log, disk, earned>>
  BY DEF UpgradeCommand, logVars
<1>2. Listed(storedAnchors) /\ \A k \in 1..Len(storedAnchors) : AnchorProper(storedAnchors[k])
  BY AnchorsLoaded DEF KeepInv
<1> QED
  BY <1>1, <1>2, EmptyListed, BeginKeeps

(* A step of a command under way that leaves the files alone. *)
LEMMA QuietKeeps ==
    ASSUME KeepInv, NEW p \in Procs, proc[p] # Idle, NEW pr, proc' = [proc EXCEPT ![p] = pr],
           UNCHANGED <<lines, log, disk, earned, alone>>, CommandProper(pr, Len(lines)),
           alone => Careful(pr, earned)
    PROVE  KeepInv'
<1>1. FilesProper' /\ LogsProper'
  BY FilesAlike, LogsAlike DEF KeepInv
<1>2. Len(lines) \in Nat
  BY LinesCount
<1>3. Len(lines) <= Len(lines)
  BY <1>2
<1>4. alone => /\ \A q \in Procs \ {p} : proc[q] = Idle
               /\ \A i \in 1..MaxRecords : \A r \in disk[i] : Keeps(r, earned)
  BY OnlyOne
<1> QED
  BY <1>1, <1>2, <1>3, <1>4, OneSteps

(* An upgrade goes on to the next anchor, or has one with a height. *)
LEMMA NextKeeps ==
    ASSUME KeepInv, NEW p \in Procs, UpgradeNext(p)
    PROVE  KeepInv'
<1>1. proc[p].cmd = "ask" /\ UNCHANGED <<lines, log, disk, earned, alone>>
  BY DEF UpgradeNext, logVars
<1> DEFINE rest == Tail(proc[p].queue)
           fresh(uris) == upgradeProof(Head(proc[p].queue), uris)
<1>2. PICK uris \in SUBSET Calendars :
         proc' = [proc EXCEPT ![p] = IF Head(proc[p].queue).heights # {} \/ fresh(uris).heights = {}
                                     THEN Continue(<<>>, rest)
                                     ELSE Job("attach", <<>>, rest, {fresh(uris)})]
  BY Zenon DEF UpgradeNext
<1>3. proc[p] # Idle
  BY <1>1 DEF Idle, Job
<1>4. /\ proc[p].queue # <<>> /\ Listed(proc[p].queue)
      /\ \A k \in 1..Len(proc[p].queue) : AnchorProper(proc[p].queue[k])
  BY <1>1 DEF KeepInv, CommandsProper, CommandProper
<1>5. Listed(rest) /\ \A k \in 1..Len(rest) : AnchorProper(rest[k])
  <2>1. /\ Listed(rest) /\ Len(proc[p].queue) \in Nat /\ Len(rest) = Len(proc[p].queue) - 1
        /\ \A i \in 1..(Len(proc[p].queue) - 1) : rest[i] = proc[p].queue[i + 1]
    BY <1>4, ListedTail
  <2>2. ASSUME NEW k \in 1..Len(rest) PROVE AnchorProper(rest[k])
    <3>1. k + 1 \in 1..Len(proc[p].queue) /\ rest[k] = proc[p].queue[k + 1]
      BY <2>1
    <3> QED
      BY <1>4, <3>1
  <2> QED
    BY <2>1, <2>2
<1>6. AnchorProper(Head(proc[p].queue))
  <2>1. Head(proc[p].queue) = proc[p].queue[1] /\ 1 \in 1..Len(proc[p].queue)
    BY <1>4, ListedTail
  <2> QED
    BY <1>4, <2>1
<1>7. CASE proc' = [proc EXCEPT ![p] = Continue(<<>>, rest)]
  <2> DEFINE pr == Continue(<<>>, rest)
  <2>1. CommandProper(pr, Len(lines)) /\ pr.cmd # "attach" /\ pr.todo = <<>>
    BY <1>5, EmptyListed, ContinueProper
  <2> HIDE DEF pr
  <2>2. Careful(pr, earned)
    BY <2>1, EmptyListed DEF Careful
  <2> QED
    BY <1>1, <1>3, <1>7, <2>1, <2>2, QuietKeeps DEF pr
<1>8. CASE /\ fresh(uris).heights # {}
           /\ proc' = [proc EXCEPT ![p] = Job("attach", <<>>, rest, {fresh(uris)})]
  <2> DEFINE a == fresh(uris)
             pr == Job("attach", <<>>, rest, {a})
  <2>1. AnchorProper(a)
    <3> DEFINE old == Head(proc[p].queue)
    <3>1. \E proof, heights : a = [old EXCEPT !.proof = proof, !.heights = heights]
      BY Zenon DEF upgradeProof
    <3> HIDE DEF old
    <3>2. PICK proof, heights : a = [old EXCEPT !.proof = proof, !.heights = heights]
      BY <3>1
    <3>3. DOMAIN a = DOMAIN old
      BY <3>2
    <3> QED
      BY <1>6, <3>3 DEF AnchorProper, old
  <2> HIDE DEF a, rest
  <2>2. pr = [cmd |-> "attach", todo |-> <<>>, queue |-> rest, anchor |-> {a}]
    BY DEF Job
  <2> HIDE DEF pr
  <2>3. CommandProper(pr, Len(lines))
    BY <1>5, <2>1, <2>2, EmptyListed DEF CommandProper
  <2>4. a.heights # {}
    BY <1>8 DEF a
  <2>5. Careful(pr, earned)
    BY <2>2, <2>4, EmptyListed DEF Careful
  <2> QED
    BY <1>1, <1>3, <1>8, <2>3, <2>5, QuietKeeps DEF pr, a
<1> HIDE DEF fresh, rest
<1> QED
  BY <1>2, <1>7, <1>8

(* The receipt that was sealed is the one to be saved.                     *)
LEMMA CheckpointKeeps ==
    ASSUME KeepInv, NEW p \in Procs, Checkpoint(p)
    PROVE  KeepInv'
<1> DEFINE old == proc[p]
           pr == Job("save", old.todo, old.queue, {})
<1>1. /\ old.cmd = "head" /\ UNCHANGED <<lines, log, disk, earned, alone>>
      /\ proc' = [proc EXCEPT ![p] = pr]
  BY DEF Checkpoint
<1>2. old # Idle
  BY <1>1 DEF Idle, Job
<1>3. CommandProper(old, Len(lines))
  BY DEF KeepInv, CommandsProper
<1>4. pr = [cmd |-> "save", todo |-> old.todo, queue |-> old.queue, anchor |-> {}]
  BY DEF Job
<1>5. alone => Careful(old, earned)
  BY <1>2, OnlyOne
<1> HIDE DEF pr, old
<1>6. CommandProper(pr, Len(lines))
  BY <1>1, <1>3, <1>4 DEF CommandProper
<1>7. alone => Careful(pr, earned)
  BY <1>4, <1>5 DEF Careful
<1> QED
  BY <1>1, <1>2, <1>6, <1>7, QuietKeeps DEF old

(* reattach() writes the receipts up to the first that refuses the anchor. *)
WrittenUpTo(p, a, all) ==
    \E q, to : /\ to \in 0..Len(all) /\ q \in {proc[p].queue, <<>>}
               /\ proc' = [proc EXCEPT ![p] =
                             Continue([i \in 1..to |-> attachAnchor(all[i], a)], q)]

LoadedFor(a) == inOrder([i \in 1..MaxRecords |-> {r \in disk[i] : covered(r, a)}])

LEMMA Reattached ==
    ASSUME KeepInv, NEW p \in Procs, Reattach(p),
           NEW a, a = Some(proc[p].anchor),
           NEW all, all = LoadedFor(a), Len(all) \in Nat
    PROVE  WrittenUpTo(p, a, all)
<1> DEFINE refused == {i \in 1..Len(all) : ~Attachable(all[i], a)}
           written == {k \in 0..Len(all) : \A i \in refused : k < i}
           last == CHOOSE k \in written : \A j \in written : j <= k
           queue == IF refused = {} THEN proc[p].queue ELSE <<>>
<1>1. proc' = [proc EXCEPT ![p] = Continue([i \in 1..last |-> attachAnchor(all[i], a)], queue)]
  BY Zenon DEF Reattach, loadSome, LoadedFor
<1>2. written \subseteq 0..Len(all)
  OBVIOUS
<1>3. 0 \in written
  OBVIOUS
<1>4. \E k \in written : \A j \in written : j <= k
  <2> HIDE DEF written
  <2> QED
    BY <1>2, <1>3, GreatestNat
<1>5. last \in 0..Len(all)
  <2> HIDE DEF written
  <2>1. last \in written
    BY <1>4, Zenon
  <2> QED
    BY <1>2, <2>1
<1>6. queue \in {proc[p].queue, <<>>}
  BY Zenon
<1> HIDE DEF last, queue
<1> QED
  BY <1>1, <1>5, <1>6 DEF WrittenUpTo

(* reattach() loads the receipts again: they have all that was saved, and  *)
(* a proof without a height takes none away.                               *)
LEMMA ReattachKeeps ==
    ASSUME KeepInv, NEW p \in Procs, Reattach(p)
    PROVE  KeepInv'
<1> DEFINE a == Some(proc[p].anchor)
           found == [i \in 1..MaxRecords |-> {r \in disk[i] : covered(r, a)}]
           touched == inOrder(found)
<1>1. proc[p].cmd = "attach" /\ UNCHANGED <<lines, log, disk, earned, alone>>
  BY DEF Reattach, logVars
<1>2. proc[p] # Idle
  BY <1>1 DEF Idle, Job
<1>3. /\ Listed(proc[p].queue) /\ \A k \in 1..Len(proc[p].queue) : AnchorProper(proc[p].queue[k])
      /\ a \in proc[p].anchor /\ AnchorProper(a)
  BY <1>1 DEF KeepInv, CommandsProper, CommandProper, Some
<1>4. \A i \in 1..MaxRecords : found[i] \subseteq disk[i] /\ \A r \in found[i] : covered(r, a)
  OBVIOUS
<1> HIDE DEF found
<1>5. /\ Len(touched) \in Nat
      /\ \A k \in 1..Len(touched) :
           /\ touched[k].core.record_id \in 1..MaxRecords
           /\ touched[k] \in found[touched[k].core.record_id] /\ Stored(touched[k], Len(lines))
      /\ \A j, k \in 1..Len(touched) :
           touched[j].core.record_id = touched[k].core.record_id => touched[j] = touched[k]
  BY <1>4, LoadedSome DEF KeepInv
<1> HIDE DEF touched, a
<1>6. PICK q, to : /\ to \in 0..Len(touched) /\ q \in {proc[p].queue, <<>>}
                   /\ proc' = [proc EXCEPT ![p] =
                                 Continue([i \in 1..to |-> attachAnchor(touched[i], a)], q)]
  <2>1. a = Some(proc[p].anchor)
    BY DEF a
  <2>2. touched = LoadedFor(a)
    BY Zenon DEF touched, found, LoadedFor
  <2>3. Len(touched) \in Nat
    BY <1>5
  <2>4. WrittenUpTo(p, a, touched)
    BY <2>1, <2>2, <2>3, Reattached
  <2> QED
    BY <2>4 DEF WrittenUpTo
<1> DEFINE t == [i \in 1..to |-> attachAnchor(touched[i], a)]
           pr == Continue(t, q)
<1>7. Listed(q) /\ \A k \in 1..Len(q) : AnchorProper(q[k])
  BY <1>3, <1>6, EmptyListed
<1>8. to \in Nat /\ \A k \in 1..to : k \in 1..Len(touched)
  BY <1>5, <1>6
<1>9. \A k \in 1..to :
         /\ Proper(t[k]) /\ t[k].core = touched[k].core
         /\ \A e \in Facts(touched[k]) : e.kind # "height" \/ a.heights # {} => e \in Facts(t[k])
  <2> SUFFICES ASSUME NEW k \in 1..to
               PROVE  /\ Proper(t[k]) /\ t[k].core = touched[k].core
                      /\ \A e \in Facts(touched[k]) :
                            e.kind # "height" \/ a.heights # {} => e \in Facts(t[k])
    BY Zenon
  <2>1. Proper(touched[k])
    BY <1>5, <1>8 DEF Stored
  <2>2. t[k] = attachAnchor(touched[k], a)
    OBVIOUS
  <2> HIDE DEF t
  <2> QED
    BY <1>3, <2>1, <2>2, Anchored
<1>10. \A j, k \in 1..to : t[j].core.record_id = t[k].core.record_id => t[j] = t[k]
  <2> SUFFICES ASSUME NEW j \in 1..to, NEW k \in 1..to,
                      t[j].core.record_id = t[k].core.record_id
               PROVE  t[j] = t[k]
    BY Zenon
  <2>1. touched[j] = touched[k]
    BY <1>5, <1>8, <1>9, Zenon
  <2> QED
    BY <2>1, Zenon
<1>11. t = [i \in 1..to |-> t[i]]
  BY Zenon
<1>12. proc' = [proc EXCEPT ![p] = pr]
  BY <1>6
<1> HIDE DEF t
<1>13. Listed(t) /\ Len(t) = to
  BY <1>8, <1>11, ListedMap
<1>14. \A k \in 1..Len(t) : Stored(t[k], Len(lines))
  BY <1>5, <1>8, <1>9, <1>13 DEF Stored
<1>15. CommandProper(pr, Len(lines)) /\ pr.cmd # "attach" /\ pr.todo = t
  BY <1>7, <1>13, <1>14, ContinueProper
<1>16. ASSUME alone, NEW k \in 1..Len(t) PROVE Keeps(t[k], earned)
  <2>0. k \in 1..to /\ k \in 1..Len(touched)
    BY <1>8, <1>13
  <2>1. /\ touched[k] \in disk[touched[k].core.record_id]
        /\ touched[k].core.record_id \in 1..MaxRecords
        /\ covered(touched[k], a) /\ Proper(touched[k])
    BY <1>4, <1>5, <2>0 DEF Stored
  <2>2. Keeps(touched[k], earned)
    BY <1>16, <2>1 DEF KeepInv, Undisturbed
  <2>3. newestOf(a.target) = touched[k].core.record_id
    BY <2>1 DEF covered, Proper
  <2>4. a.heights = {} => \A e \in earned : e.kind = "height" => e.record # newestOf(a.target)
    BY <1>1, <1>2, <1>3, <1>16, OnlyOne DEF Careful
  <2>5. SUFFICES ASSUME NEW e \in earned, e.record = t[k].core.record_id PROVE e \in Facts(t[k])
    BY DEF Keeps
  <2>6. e.record = touched[k].core.record_id
    BY <1>9, <2>0, <2>5
  <2>7. e \in Facts(touched[k])
    BY <2>2, <2>6 DEF Keeps
  <2> QED
    BY <1>9, <2>0, <2>3, <2>4, <2>6, <2>7
<1> HIDE DEF pr
<1>17. alone => Careful(pr, earned)
  BY <1>10, <1>13, <1>15, <1>16 DEF Careful
<1> QED
  BY <1>1, <1>2, <1>12, <1>15, <1>17, QuietKeeps

(* A file in hand is empty for a while. *)
LEMMA TruncateKeeps ==
    ASSUME KeepInv, NEW p \in Procs, Truncate(p)
    PROVE  KeepInv'
<1> DEFINE old == proc[p]
           id == Head(old.todo).core.record_id
           pr == Job("write", old.todo, old.queue, {})
<1>1. /\ old.cmd = "save" /\ UNCHANGED <<lines, log, earned, alone>>
      /\ proc' = [proc EXCEPT ![p] = pr] /\ disk' = [disk EXCEPT ![id] = {}]
  BY DEF Truncate, logVars
<1>2. old # Idle
  BY <1>1 DEF Idle, Job
<1>3. CommandProper(old, Len(lines)) /\ old.todo # <<>>
  BY <1>1 DEF KeepInv, CommandsProper, CommandProper
<1>4. pr = [cmd |-> "write", todo |-> old.todo, queue |-> old.queue, anchor |-> {}]
  BY DEF Job
<1> HIDE DEF pr, old, id
<1>5. CommandProper(pr, Len(lines))
  BY <1>3, <1>4 DEF CommandProper
<1>6. alone => /\ Careful(old, earned) /\ \A q \in Procs \ {p} : proc[q] = Idle
               /\ \A i \in 1..MaxRecords : \A r \in disk[i] : Keeps(r, earned)
  BY <1>2, OnlyOne DEF old
<1>7. alone => Careful(pr, earned)
  BY <1>4, <1>6 DEF Careful
<1>8. DOMAIN disk' = 1..MaxRecords /\ \A i \in 1..MaxRecords : disk'[i] \in {{}, disk[i]}
  BY <1>1 DEF KeepInv, FilesProper
<1>9. FilesProper' /\ LogsProper'
  <2>1. FilesProper'
    BY <1>1, <1>8, Zenon DEF KeepInv, FilesProper, Stored
  <2> QED
    BY <1>1, <2>1, LogsAlike DEF KeepInv
<1>10. alone => \A i \in 1..MaxRecords : \A r \in disk'[i] : Keeps(r, earned)
  BY <1>6, <1>8
<1>11. Len(lines) \in Nat
  BY LinesCount
<1>12. Len(lines) <= Len(lines)
  BY <1>11
<1> QED
  BY <1>1, <1>5, <1>6, <1>7, <1>9, <1>10, <1>11, <1>12, OneSteps

(* A receipt that is saved has what was saved about its record before. *)
LEMMA FillKeeps ==
    ASSUME KeepInv, NEW p \in Procs, Fill(p)
    PROVE  KeepInv'
<1> DEFINE old == proc[p]
           x == Head(old.todo)
           id == x.core.record_id
           t == Tail(old.todo)
           pr == Continue(t, old.queue)
<1>1. /\ old.cmd = "write" /\ UNCHANGED <<lines, log, alone>>
      /\ proc' = [proc EXCEPT ![p] = pr] /\ disk' = [disk EXCEPT ![id] = {x}]
      /\ earned' = earned \cup Facts(x)
  BY DEF Fill, logVars
<1>2. old # Idle
  BY <1>1 DEF Idle, Job
<1>3. CommandProper(old, Len(lines)) /\ old.todo # <<>>
  BY <1>1 DEF KeepInv, CommandsProper, CommandProper
<1>4. /\ Listed(t) /\ Len(old.todo) \in Nat /\ Len(old.todo) > 0 /\ Len(t) = Len(old.todo) - 1
      /\ x = old.todo[1] /\ \A i \in 1..(Len(old.todo) - 1) : t[i] = old.todo[i + 1]
  BY <1>3, ListedTail DEF CommandProper
<1> HIDE DEF old, x, t
<1>5. \A k \in 1..Len(t) : k + 1 \in 1..Len(old.todo) /\ t[k] = old.todo[k + 1]
  BY <1>4
<1>6. 1 \in 1..Len(old.todo)
  BY <1>4
<1>7. Stored(x, Len(lines)) /\ \A k \in 1..Len(t) : Stored(t[k], Len(lines))
  BY <1>3, <1>4, <1>5, <1>6 DEF CommandProper
<1>8. Len(lines) \in Nat /\ Len(lines) <= MaxRecords /\ MaxRecords \in Nat
  BY LinesCount, WorkspaceAssumption DEF KeepInv, FilesProper
<1>9. id \in 1..Len(lines) /\ id \in 1..MaxRecords
  <2>1. id \in 1..Len(lines)
    BY <1>7 DEF Stored
  <2> HIDE DEF id
  <2> QED
    BY <1>8, <2>1
<1>10. CommandProper(pr, Len(lines)) /\ pr.cmd # "attach" /\ pr.todo = t
  BY <1>3, <1>4, <1>7, ContinueProper DEF CommandProper
<1> HIDE DEF pr
<1>11. /\ DOMAIN disk' = 1..MaxRecords /\ disk'[id] = {x}
       /\ \A i \in 1..MaxRecords : i # id => disk'[i] = disk[i]
  BY <1>1, <1>9 DEF KeepInv, FilesProper
<1>12. \A e \in Facts(x) : e.record = id
  BY FactsAbout
<1>13. FilesProper'
  <2>1. ASSUME NEW i \in 1..MaxRecords, NEW r \in disk'[i]
        PROVE  disk'[i] = {r} /\ Stored(r, Len(lines)) /\ r.core.record_id = i
    <3>1. CASE i = id
      BY <1>7, <1>11, <2>1, <3>1
    <3>2. CASE i # id
      BY <1>11, <2>1, <3>2 DEF KeepInv, FilesProper
    <3> QED
      BY <3>1, <3>2
  <2>2. \A e \in earned' : e.record \in 1..Len(lines)
    BY <1>1, <1>9, <1>12 DEF KeepInv, FilesProper
  <2> QED
    BY <1>1, <1>11, <2>1, <2>2, Zenon DEF KeepInv, FilesProper, Stored
<1>14. ASSUME alone
       PROVE  /\ \A q \in Procs \ {p} : proc[q] = Idle
              /\ Careful(pr, earned')
              /\ \A i \in 1..MaxRecords : \A r \in disk'[i] : Keeps(r, earned')
  <2>1. /\ Careful(old, earned) /\ \A q \in Procs \ {p} : proc[q] = Idle
        /\ \A i \in 1..MaxRecords : \A r \in disk[i] : Keeps(r, earned)
    BY <1>2, <1>14, OnlyOne DEF old
  <2>2. ASSUME NEW r, Keeps(r, earned), r.core.record_id = id => r = x
        PROVE  Keeps(r, earned')
    <3> SUFFICES ASSUME NEW e \in earned', e.record = r.core.record_id PROVE e \in Facts(r)
      BY DEF Keeps
    <3>1. CASE e \in earned
      BY <2>2, <3>1 DEF Keeps
    <3>2. CASE e \in Facts(x)
      BY <1>12, <2>2, <3>2
    <3> QED
      BY <1>1, <3>1, <3>2
  <2>3. ASSUME NEW k \in 1..Len(t) PROVE Keeps(t[k], earned')
    <3>1. Keeps(t[k], earned) /\ (t[k].core.record_id = id => t[k] = x)
      BY <1>4, <1>5, <1>6, <2>1 DEF Careful
    <3> QED
      BY <2>2, <3>1
  <2>4. \A j, k \in 1..Len(t) : t[j].core.record_id = t[k].core.record_id => t[j] = t[k]
    <3>1. \A j, k \in 1..Len(old.todo) :
             old.todo[j].core.record_id = old.todo[k].core.record_id => old.todo[j] = old.todo[k]
      BY <2>1, Zenon DEF Careful
    <3> SUFFICES ASSUME NEW j \in 1..Len(t), NEW k \in 1..Len(t),
                        t[j].core.record_id = t[k].core.record_id
                 PROVE  t[j] = t[k]
      BY Zenon
    <3>2. /\ t[j] = old.todo[j + 1] /\ t[k] = old.todo[k + 1]
          /\ j + 1 \in 1..Len(old.todo) /\ k + 1 \in 1..Len(old.todo)
      BY <1>5, Zenon
    <3> QED
      BY <3>1, <3>2, Zenon
  <2>5. Careful(pr, earned')
    BY <1>10, <2>3, <2>4 DEF Careful
  <2>6. ASSUME NEW i \in 1..MaxRecords, NEW r \in disk'[i] PROVE Keeps(r, earned')
    <3>1. CASE i = id
      <4>1. r = x /\ Keeps(x, earned)
        BY <1>4, <1>6, <1>11, <2>1, <2>6, <3>1 DEF Careful
      <4> QED
        BY <2>2, <4>1
    <3>2. CASE i # id
      <4>1. r \in disk[i] /\ r.core.record_id = i
        BY <1>11, <2>6, <3>2 DEF KeepInv, FilesProper
      <4> QED
        BY <2>1, <2>2, <3>2, <4>1
    <3> QED
      BY <3>1, <3>2
  <2> QED
    BY <2>1, <2>5, <2>6
<1>15. Len(lines) <= Len(lines)
  BY <1>8
<1>16. LogsProper'
  BY <1>1, LogsAlike DEF KeepInv
<1> QED
  BY <1>1, <1>8, <1>10, <1>13, <1>14, <1>15, <1>16, OneSteps

(* A command that is killed, the console's too, does not count as alone    *)
(* any more.                                                               *)
LEMMA KilledKeeps ==
    ASSUME KeepInv, NEW p \in Procs, Killed(p), alone' => alone /\ proc[p] = Idle
    PROVE  KeepInv'
<1>1. /\ proc' = [proc EXCEPT ![p] = Idle] /\ log' = [log EXCEPT ![p] = <<>>]
      /\ UNCHANGED <<lines, disk, earned>>
  BY DEF Killed
<1>2. FilesProper' /\ LogsProper'
  BY <1>1, EmptyListed, FilesAlike, LogSet DEF KeepInv
<1>3. CommandsProper'
  BY <1>1, IdleProper, Zenon DEF KeepInv, CommandsProper
<1>4. alone' => \A q \in Procs : proc'[q] = proc[q]
  BY <1>1 DEF KeepInv, CommandsProper
<1>5. Undisturbed'
  BY <1>1, <1>4 DEF KeepInv, Undisturbed, OneAtATime
<1> QED
  BY <1>2, <1>3, <1>5 DEF KeepInv

LEMMA StillKept ==
    ASSUME KeepInv, LogsProper', UNCHANGED <<lines, disk, proc, earned, alone>>
    PROVE  KeepInv'
<1>1. FilesProper'
  BY FilesAlike DEF KeepInv
<1>2. CommandsProper' /\ Undisturbed'
  BY DEF KeepInv, CommandsProper, Undisturbed, OneAtATime
<1> QED
  BY <1>1, <1>2 DEF KeepInv

(* The console opens the workspace too. *)
LEMMA StartKeeps == ASSUME KeepInv, Start PROVE KeepInv'
<1>1. log' = [log EXCEPT ![Ui] = lines] /\ UNCHANGED <<lines, disk, proc, earned, alone>>
  BY DEF Start
<1>2. Listed(lines)
  BY LinesCount
<1>3. LogsProper'
  BY <1>1, <1>2, ConsoleAssumption, LogSet DEF KeepInv
<1> QED
  BY <1>1, <1>3, StillKept

LEMMA KeepInit == CInit => KeepInv
<1> SUFFICES ASSUME CInit PROVE KeepInv
  OBVIOUS
<1>1. /\ lines = <<>> /\ log = [p \in Procs |-> <<>>] /\ disk = [i \in 1..MaxRecords |-> {}] /\ proc = [p \in Procs |-> Idle]
      /\ earned = {}
  BY DEF CInit, WInit
<1>2. Len(lines) <= MaxRecords
  BY <1>1, EmptyListed, WorkspaceAssumption
<1>3. FilesProper
  BY <1>1, <1>2, EmptyListed, Zenon DEF FilesProper
<1>4. CommandsProper /\ LogsProper
  BY <1>1, IdleProper, EmptyListed, Zenon DEF CommandsProper, LogsProper
<1>5. Undisturbed
  BY <1>1, IdleCareful, Zenon DEF Undisturbed, OneAtATime
<1> QED
  BY <1>3, <1>4, <1>5 DEF KeepInv

(* Files and commands stay proper, and as long as nothing is disturbed     *)
(* neither a file nor a command under way lacks what was saved before      *)
(* (workspace.ts, saveReceipt(); anchor.ts, reattach()).                   *)
THEOREM KeepInvariance == Spec => []KeepInv
<1>1. KeepInv /\ [Next]_vars => KeepInv'
  <2> SUFFICES ASSUME KeepInv, [Next]_vars PROVE KeepInv'
    OBVIOUS
  <2>1. CASE UNCHANGED wvars \/ \E c \in Calendars : Mine(c)
    <3>1. UNCHANGED <<lines, log, disk, proc, earned, alone>>
      BY <2>1 DEF wvars, logVars, Mine
    <3> QED
      BY <3>1, LogsAlike, StillKept DEF KeepInv
  <2>2. CASE SealChange
    <3>1. PICK event : Record(Ui, event, TRUE)
      BY <2>2 DEF SealChange
    <3>2. alone' = (alone /\ \A q \in Procs \ {Ui} : proc[q] = Idle)
      BY <2>2 DEF SealChange
    <3> QED
      BY <3>1, <3>2, ConsoleAssumption, RecordKeeps
  <2>3. CASE Kill
    BY <2>3, ConsoleAssumption, KilledKeeps DEF Kill
  <2>4. ASSUME NEW p \in Procs, Command(p) PROVE KeepInv'
    BY <2>4, SealKeeps, WitnessKeeps, SubmitKeeps, UpgradeKeeps DEF Command
  <2>5. ASSUME NEW p \in Procs, RecordCommand(p) PROVE KeepInv'
    <3>1. PICK event \in Events : Record(p, event, FALSE)
      BY <2>5 DEF RecordCommand
    <3>2. proc[p] # Idle /\ alone' = alone
      BY <2>5 DEF RecordCommand, Idle, Job
    <3> QED
      BY <3>1, <3>2, OnlyOne, RecordKeeps
  <2>6. ASSUME NEW p \in Procs, Step(p) PROVE KeepInv'
    <3>1. CASE Crash(p)
      BY <3>1, KilledKeeps DEF Crash
    <3> QED
      BY <2>5, <2>6, <3>1, CheckpointKeeps, NextKeeps, ReattachKeeps, TruncateKeeps, FillKeeps DEF Step
  <2>7. CASE Checkpoint(Ui) \/ Truncate(Ui) \/ Fill(Ui)
    BY <2>7, ConsoleAssumption, CheckpointKeeps, TruncateKeeps, FillKeeps
  <2> QED
    BY <2>1, <2>2, <2>3, <2>4, <2>6, <2>7, StartKeeps DEF Next, vars
<1> QED
  BY <1>1, KeepInit, PTL DEF Spec

(* As long as commands run one at a time, none is killed and no confirmed  *)
(* head is submitted again, no co-signature and no block height that was   *)
(* once saved is lost: for any number of records, witnesses, calendars and *)
(* commands.                                                               *)
THEOREM KeptUntilDisturbedHolds == Spec => []KeptUntilDisturbed
<1>1. KeepInv => KeptUntilDisturbed
  <2> SUFFICES ASSUME KeepInv, alone, NEW e \in earned, NEW r \in disk[e.record]
               PROVE  e \in Facts(r)
    BY DEF KeptUntilDisturbed
  <2>1. e.record \in 1..MaxRecords
    <3>1. e.record \in 1..Len(lines) /\ Len(lines) \in Nat /\ Len(lines) <= MaxRecords
          /\ MaxRecords \in Nat
      BY LinesCount, WorkspaceAssumption DEF KeepInv, FilesProper
    <3> QED
      BY <3>1
  <2>2. r.core.record_id = e.record /\ Keeps(r, earned)
    BY <2>1 DEF KeepInv, FilesProper, Undisturbed
  <2> QED
    BY <2>2 DEF Keeps
<1> QED
  BY <1>1, KeepInvariance, PTL

-----------------------------------------------------------------------------
(* What is in a file verifies.  A receipt is whole if it is the sealed     *)
(* record with co-signatures of its own head, the keys of the witnesses in *)
(* its directory, and anchors.                                             *)
AnchorSized(a) == "tree_size" \in DOMAIN a /\ a.tree_size \in Nat \ {0}

Directory(dir, sth) ==
    /\ {"sim-root", "record", "log"} \subseteq DOMAIN dir
    /\ dir["sim-root"] = "simroot" /\ dir["record"] = "K-record" /\ dir["log"] = "K-log"
    /\ \A name \in Names : witnessId(name) \in DOMAIN dir => dir[witnessId(name)] = name
    /\ \A k \in 1..Len(sth.witnesses) : sth.witnesses[k].id \in DOMAIN dir

SignedHead(sth, size) ==
    /\ DOMAIN sth = {"log_id", "tree_size", "root_hash", "timestamp", "signature", "witnesses"}
    /\ sth.tree_size = size /\ sth.signature = signed("K-log", "log", sthCore(sth))
    /\ Listed(sth.witnesses)
    /\ \A k \in 1..Len(sth.witnesses) : \E name \in Names :
          sth.witnesses[k] = cosign(sth, witnessId(name), name).witness

Inclusion(core, size, root) ==
    [leaf_index |-> size - 1, tree_size |-> size, audit_path |-> <<core, size - 1, root>>]

Whole(r, core, size) ==
    /\ r.core = core /\ r.binding_hash = core
    /\ r.signature = signed("K-record", "record", <<core, core>>)
    /\ r.attestation = plane.attestation
    /\ \A a \in r.anchor : AnchorSized(a)
    /\ \E sth : /\ r.sth = {sth} /\ SignedHead(sth, size) /\ Directory(r.key_directory, sth)
                /\ r.inclusion = {Inclusion(core, size, sth.root_hash)}
    /\ DOMAIN r = {"core", "binding_hash", "signature", "inclusion", "sth", "attestation",
                   "anchor", "key_directory"}

(* A record of a change, in the log. *)
Given(e) == \A v, w \in e.before : v = w
Leaf(core, id) == \E e : Given(e) /\ core = changeCore(plane, id, e, {DEFAULT_POLICY})

(* The log that the record was appended to may be shorter than the file.  *)
Sound(r, leaves) ==
    \E i \in 1..Len(leaves), size \in Nat \ {0} : Whole(r, leaves[i], size)

JobSound(pr, leaves) ==
    /\ \A k \in 1..Len(pr.todo) : Sound(pr.todo[k], leaves)
    /\ \A k \in 1..Len(pr.queue) : AnchorSized(pr.queue[k])
    /\ \A a \in pr.anchor : AnchorSized(a)

HeadSized(h) == h.tree_size \in Nat \ {0}

SoundInv ==
    /\ \A h \in checkpoint : HeadSized(h)
    /\ \A i \in 1..Len(lines) : Leaf(lines[i], i)
    /\ \A i \in 1..MaxRecords : \A r \in disk[i] : Sound(r, lines)
    /\ \A p \in Procs : JobSound(proc[p], lines)

-----------------------------------------------------------------------------
LEMMA OneOf == \A x : Some({x}) = x
  BY DEF Some

LEMMA Says == \A s : domain(s).status = s
  BY DEF domain

(* The simulated enclave of Workspace. *)
LEMMA PlaneParts ==
    /\ plane.info.measurement = "m"
    /\ plane.keys.record.id = "record" /\ plane.keys.record.entry = "K-record"
    /\ plane.keys.log.id = "log" /\ plane.keys.log.entry = "K-log"
    /\ DOMAIN plane.directory = {"sim-root", "record", "log"}
    /\ plane.directory["sim-root"] = "simroot" /\ plane.directory["record"] = "K-record"
    /\ plane.directory["log"] = "K-log"
    /\ plane.attestation.mode = "simulated" /\ plane.attestation.expected_measurement = {"m"}
    /\ plane.runtime.tee_vendor = "intel-tdx" /\ plane.runtime.mode = "simulated"
    /\ plane.runtime.enclave_measurement = {"m"}
    /\ \E q : /\ plane.attestation.quote = {q} /\ plane.runtime.tee_quote = {q}
              /\ q.root = "cool-sim-root" /\ q.raw = {} /\ q.body.measurement = "m"
              /\ q.body.report_data = enclaveReportData("K-record")
              /\ \E s : q.signature = {s} /\ s = signed("simroot", "sim-root", q.body)
<1> DEFINE info  == [vendor |-> "intel-tdx", mode |-> "simulated", measurement |-> "m"]
           keys  == [record |-> [id |-> "record", entry |-> "K-record"],
                     log |-> [id |-> "log", entry |-> "K-log"]]
           body  == [measurement |-> "m", report_data |-> reportData(keys)]
           sig   == signed("simroot", "sim-root", body)
           quote == [root |-> "cool-sim-root", raw |-> {}, body |-> body, signature |-> {sig}]
           dir   == [id \in {"sim-root"} |-> "simroot"]
           attestation == [mode |-> info.mode, quote |-> {quote}, expected_measurement |-> {"m"}]
           full == [id \in DOMAIN dir \cup {keys.record.id, keys.log.id} |->
                      IF id \in DOMAIN dir THEN dir[id]
                      ELSE IF id = keys.record.id THEN keys.record.entry ELSE keys.log.entry]
           runtime == [tee_vendor |-> info.vendor, mode |-> info.mode, tee_quote |-> {quote},
                       enclave_measurement |-> {info.measurement}]
<1>1. plane = [info |-> info, keys |-> keys, attestation |-> attestation, directory |-> full,
               runtime |-> runtime]
  BY Zenon DEF plane, start
<1>2. /\ keys.record.id = "record" /\ keys.record.entry = "K-record"
      /\ keys.log.id = "log" /\ keys.log.entry = "K-log" /\ info.measurement = "m"
  OBVIOUS
<1>3. /\ DOMAIN full = {"sim-root", "record", "log"} /\ full["sim-root"] = "simroot"
      /\ full["record"] = "K-record" /\ full["log"] = "K-log"
  <2>1. DOMAIN dir = {"sim-root"} /\ dir["sim-root"] = "simroot"
    OBVIOUS
  <2> HIDE DEF dir, keys
  <2> QED
    BY <1>2, <2>1
<1>4. body.measurement = "m" /\ body.report_data = enclaveReportData("K-record")
  BY <1>2, Zenon DEF reportData
<1> HIDE DEF body, full
<1>5. /\ quote.root = "cool-sim-root" /\ quote.raw = {} /\ quote.body = body
      /\ quote.signature = {sig} /\ sig = signed("simroot", "sim-root", body)
  OBVIOUS
<1> HIDE DEF quote, sig, keys
<1>6. /\ attestation.mode = "simulated" /\ attestation.quote = {quote}
      /\ attestation.expected_measurement = {"m"}
      /\ runtime.tee_vendor = "intel-tdx" /\ runtime.mode = "simulated"
      /\ runtime.tee_quote = {quote} /\ runtime.enclave_measurement = {"m"}
  OBVIOUS
<1> HIDE DEF attestation, runtime, info
<1>7. /\ plane.info = info /\ plane.keys = keys /\ plane.attestation = attestation /\ plane.directory = full
      /\ plane.runtime = runtime
  BY <1>1
<1> QED
  BY <1>2, <1>3, <1>4, <1>5, <1>6, <1>7, Zenon

CoreOf(core, id, e) ==
    /\ core.schema = "cool.change.v2" /\ core.record_id = id /\ core.runtime = plane.runtime
    /\ DOMAIN core.commitments = {"change.before", "change.after"}
    /\ core.commitments["change.before"] = commit(id, "change.before", e.before)
    /\ core.commitments["change.after"] = commit(id, "change.after", {e.after})
    /\ \E c : core.change = {c} /\ c.approval # {}

LEMMA CoreParts ==
    ASSUME NEW id, NEW e
    PROVE  CoreOf(changeCore(plane, id, e, {DEFAULT_POLICY}), id, e)
<1> DEFINE core == changeCore(plane, id, e, {DEFAULT_POLICY})
<1> DEFINE given(f) == IF f = "change.before" THEN e.before ELSE {e.after}
           all == [f \in {"change.before", "change.after"} |-> commit(id, f, given(f))]
           c == [kind |-> e.kind, environment |-> e.environment, approval |-> decide({DEFAULT_POLICY}, e)]
<1>1. core = [schema |-> "cool.change.v2", record_id |-> id, runtime |-> plane.runtime,
              change |-> {c}, commitments |-> all]
  BY Zenon DEF changeCore
<1>2. /\ DOMAIN all = {"change.before", "change.after"}
      /\ all["change.before"] = commit(id, "change.before", e.before)
      /\ all["change.after"] = commit(id, "change.after", {e.after})
  <2>1. given("change.before") = e.before /\ given("change.after") = {e.after}
    OBVIOUS
  <2> HIDE DEF given
  <2> QED
    BY <2>1
<1>3. decide({DEFAULT_POLICY}, e) # {}
  <2>1. CASE e.approval # {}
    BY <2>1, Zenon DEF decide
  <2>2. CASE e.approval = {}
    <3> DEFINE out == approvalFrom(evaluate(DEFAULT_POLICY, e), e.approvers)
    <3>1. decide({DEFAULT_POLICY}, e) = {approvalFrom(evaluate(x, e), e.approvers) : x \in {DEFAULT_POLICY}}
      BY <2>2, Zenon DEF decide
    <3>2. out \in {approvalFrom(evaluate(x, e), e.approvers) : x \in {DEFAULT_POLICY}}
      BY Zenon
    <3> QED
      BY <3>1, <3>2, Zenon
  <2> QED
    BY <2>1, <2>2
<1>4. c.approval # {}
  <2> DEFINE d == decide({DEFAULT_POLICY}, e)
  <2>1. PICK x : x = d
    OBVIOUS
  <2>2. c = [kind |-> e.kind, environment |-> e.environment, approval |-> x]
    BY <2>1, Zenon
  <2> HIDE DEF c
  <2>3. c.approval = x
    BY <2>2
  <2> QED
    BY <1>3, <2>1, <2>3
<1> HIDE DEF all, c, core
<1>5. /\ core.schema = "cool.change.v2" /\ core.record_id = id /\ core.runtime = plane.runtime
      /\ core.change = {c} /\ core.commitments = all
  BY <1>1
<1>6. CoreOf(core, id, e)
  BY <1>2, <1>4, <1>5, Zenon DEF CoreOf
<1> QED
  BY <1>6 DEF core

(* The receipt that is sealed is whole. *)
LEMMA SealedWhole ==
    ASSUME NEW leaves, Listed(leaves), NEW core,
           NEW r, r = seal(plane, plane.keys.log, leaves, core)
    PROVE  Whole(r, core, Len(leaves) + 1)
<1> DEFINE grown == Append(leaves, core)
           size == Len(leaves) + 1
           inc == [leaf_index |-> Len(leaves), tree_size |-> Len(grown),
                   audit_path |-> <<core, Len(leaves), grown>>]
           sth == buildSTH(grown, plane.keys.log)
           sig == signed(plane.keys.record.entry, plane.keys.record.id, <<core, core>>)
<1>1. Len(leaves) \in Nat /\ Len(grown) = size /\ size - 1 = Len(leaves)
  <2>1. Len(leaves) \in Nat /\ Len(grown) = size
    BY ListedAppend
  <2> QED
    BY <2>1
<1>2. PICK i, t, a, n, k : /\ i = {inc} /\ t = {sth} /\ a = plane.attestation /\ n = {}
                           /\ k = plane.directory
  BY Zenon
<1>3. r = [core |-> core, binding_hash |-> core, signature |-> sig, inclusion |-> {inc},
           sth |-> {sth}, attestation |-> plane.attestation, anchor |-> {},
           key_directory |-> plane.directory]
  BY Zenon DEF seal
<1>4. sig = signed("K-record", "record", <<core, core>>)
  BY PlaneParts
<1>5. /\ DOMAIN sth = {"log_id", "tree_size", "root_hash", "timestamp", "signature", "witnesses"}
      /\ sth.tree_size = Len(grown) /\ sth.root_hash = grown /\ sth.witnesses = <<>>
      /\ sth.signature = signed("K-log", "log", sthCore(sth))
  <2>1. sth.signature = signed(plane.keys.log.entry, plane.keys.log.id, sthCore(sth))
    BY DEF buildSTH, sthCore
  <2>2. /\ DOMAIN sth = {"log_id", "tree_size", "root_hash", "timestamp", "signature", "witnesses"}
        /\ sth.tree_size = Len(grown) /\ sth.root_hash = grown /\ sth.witnesses = <<>>
    BY DEF buildSTH
  <2> HIDE DEF sth
  <2> QED
    BY <2>1, <2>2, PlaneParts
<1>6. inc = Inclusion(core, size, grown)
  <2> HIDE DEF grown, size
  <2> QED
    BY <1>1 DEF Inclusion
<1> HIDE DEF inc, sth, sig, grown
<1>7. r = [core |-> core, binding_hash |-> core, signature |-> sig, inclusion |-> i,
           sth |-> t, attestation |-> a, anchor |-> n, key_directory |-> k]
  BY <1>2, <1>3, Zenon
<1>8. /\ r.core = core /\ r.binding_hash = core /\ r.signature = sig /\ r.inclusion = i /\ r.sth = t
      /\ r.attestation = a /\ r.anchor = n /\ r.key_directory = k
      /\ DOMAIN r = {"core", "binding_hash", "signature", "inclusion", "sth", "attestation",
                     "anchor", "key_directory"}
  BY <1>7
<1>9. SignedHead(sth, size)
  BY <1>1, <1>5, EmptyListed DEF SignedHead
<1>10. Directory(plane.directory, sth)
  <2>1. \A name \in Names : witnessId(name) \notin DOMAIN plane.directory
    BY PlaneParts, NamesAssumption DEF witnessId
  <2> QED
    BY <1>5, <2>1, EmptyListed, PlaneParts DEF Directory
<1> QED
  BY <1>2, <1>4, <1>5, <1>6, <1>8, <1>9, <1>10 DEF Whole

LEMMA WitnessIds ==
    /\ \A n, m \in Names : witnessId(n) = witnessId(m) => n = m
    /\ \A n \in Names : witnessId(n) \notin {"sim-root", "record", "log"}
  BY NamesAssumption DEF witnessId

(* attachWitness() of a co-signature of its own head keeps a receipt whole.*)
LEMMA CosignedWhole ==
    ASSUME NEW r, NEW core, NEW size, Whole(r, core, size), NEW name \in Names
    PROVE  Whole(attachWitness(r, cosign(Some(r.sth), witnessId(name), name)), core, size)
<1>1. PICK sth : /\ r.sth = {sth} /\ SignedHead(sth, size) /\ Directory(r.key_directory, sth)
                 /\ r.inclusion = {Inclusion(core, size, sth.root_hash)}
  BY DEF Whole
<1>2. Some(r.sth) = sth
  BY <1>1, OneOf
<1> DEFINE id == witnessId(name)
           st == cosign(sth, id, name)
           w == st.witness
           already == \E i \in 1..Len(sth.witnesses) : sth.witnesses[i].id = id
           more == [sth EXCEPT !.witnesses = Append(@, w)]
           new == IF already THEN sth ELSE more
           dir == [i \in DOMAIN r.key_directory \cup {id} |-> IF i = id THEN name ELSE r.key_directory[i]]
           x == attachWitness(r, cosign(Some(r.sth), id, name))
<1>3. st.witness_id = id /\ st.entry = name /\ w.id = id
  BY DEF cosign
<1>4. x = [r EXCEPT !.sth = {new}, !.key_directory = dir]
  <2> HIDE DEF id, st
  <2>1. x = [r EXCEPT
               !.sth = {IF \E i \in 1..Len(sth.witnesses) : sth.witnesses[i].id = st.witness_id THEN sth
                        ELSE [sth EXCEPT !.witnesses = Append(@, st.witness)]},
               !.key_directory = [i \in DOMAIN @ \cup {st.witness_id} |->
                   IF i = st.witness_id THEN st.entry ELSE @[i]]]
    BY <1>2, Zenon DEF attachWitness, st
  <2> QED
    BY <1>3, <2>1
<1>5. /\ DOMAIN dir = DOMAIN r.key_directory \cup {id} /\ dir[id] = name
      /\ \A i \in DOMAIN r.key_directory : i # id => dir[i] = r.key_directory[i]
  OBVIOUS
<1>6. /\ DOMAIN more = DOMAIN sth /\ more.witnesses = Append(sth.witnesses, w)
      /\ more.tree_size = sth.tree_size /\ more.root_hash = sth.root_hash
      /\ more.signature = sth.signature /\ more.log_id = sth.log_id /\ more.timestamp = sth.timestamp
  <2> HIDE DEF w
  <2> QED
    BY <1>1 DEF SignedHead
<1>7. sthCore(more) = sthCore(sth)
  <2> HIDE DEF more
  <2> QED
    BY <1>6 DEF sthCore
<1>8. /\ Len(sth.witnesses) \in Nat /\ Listed(more.witnesses)
      /\ Len(more.witnesses) = Len(sth.witnesses) + 1
      /\ \A k \in 1..Len(sth.witnesses) : more.witnesses[k] = sth.witnesses[k]
      /\ more.witnesses[Len(sth.witnesses) + 1] = w
  <2>1. Listed(sth.witnesses)
    BY <1>1 DEF SignedHead
  <2> HIDE DEF more, w
  <2> QED
    BY <1>6, <2>1, ListedAppend
<1>9. \A i, n : cosign(more, i, n).witness = cosign(sth, i, n).witness
  <2> HIDE DEF more
  <2> QED
    BY <1>7, Zenon DEF cosign
<1> HIDE DEF more, dir, w, st, id
<1>10. ASSUME NEW k \in 1..Len(more.witnesses)
       PROVE  more.witnesses[k].id \in DOMAIN dir /\ \E n \in Names :
                  more.witnesses[k] = cosign(more, witnessId(n), n).witness
  <2>1. CASE k = Len(sth.witnesses) + 1
    BY <1>3, <1>5, <1>8, <1>9, <2>1 DEF w, st, id
  <2>2. CASE k # Len(sth.witnesses) + 1
    <3>1. k \in 1..Len(sth.witnesses)
      BY <1>8, <2>2
    <3>2. sth.witnesses[k].id \in DOMAIN r.key_directory
      BY <1>1, <3>1 DEF Directory
    <3>3. \E n \in Names : sth.witnesses[k] = cosign(sth, witnessId(n), n).witness
      BY <1>1, <3>1 DEF SignedHead
    <3> QED
      BY <1>5, <1>8, <1>9, <3>1, <3>2, <3>3
  <2> QED
    BY <2>1, <2>2
<1>11. SignedHead(more, size)
  BY <1>1, <1>6, <1>7, <1>8, <1>10 DEF SignedHead
<1>12. \A h \in {sth, more} : Directory(dir, h)
  <2>1. /\ {"sim-root", "record", "log"} \subseteq DOMAIN dir
        /\ dir["sim-root"] = "simroot" /\ dir["record"] = "K-record" /\ dir["log"] = "K-log"
    BY <1>1, <1>5, WitnessIds DEF Directory, id
  <2>2. ASSUME NEW n \in Names, witnessId(n) \in DOMAIN dir PROVE dir[witnessId(n)] = n
    <3>1. CASE witnessId(n) = id
      BY <1>5, <3>1, WitnessIds DEF id
    <3>2. CASE witnessId(n) # id
      BY <1>1, <1>5, <2>2, <3>2 DEF Directory
    <3> QED
      BY <3>1, <3>2
  <2>3. \A k \in 1..Len(sth.witnesses) : sth.witnesses[k].id \in DOMAIN dir
    BY <1>1, <1>5 DEF Directory
  <2> QED
    BY <1>10, <2>1, <2>2, <2>3 DEF Directory
<1>13. new \in {sth, more} /\ SignedHead(new, size) /\ Directory(dir, new)
       /\ new.root_hash = sth.root_hash
  BY <1>1, <1>6, <1>11, <1>12
<1> HIDE DEF new
<1>14. /\ DOMAIN x = DOMAIN r /\ x.core = r.core /\ x.binding_hash = r.binding_hash
       /\ x.signature = r.signature /\ x.attestation = r.attestation /\ x.anchor = r.anchor
       /\ x.inclusion = r.inclusion /\ x.sth = {new} /\ x.key_directory = dir
  <2>1. DOMAIN r = {"core", "binding_hash", "signature", "inclusion", "sth", "attestation",
                    "anchor", "key_directory"}
    BY DEF Whole
  <2> HIDE DEF x
  <2> QED
    BY <1>4, <2>1
<1> HIDE DEF x
<1> QED
  BY <1>1, <1>13, <1>14 DEF Whole, x, id

(* So does attachAnchor(). *)
LEMMA AnchoredWhole ==
    ASSUME NEW r, NEW core, NEW size, Whole(r, core, size), NEW a, AnchorSized(a)
    PROVE  Whole(attachAnchor(r, a), core, size)
<1> DEFINE x == attachAnchor(r, a)
<1>1. /\ DOMAIN x = DOMAIN r /\ x.core = r.core /\ x.binding_hash = r.binding_hash
      /\ x.signature = r.signature /\ x.attestation = r.attestation /\ x.anchor = {a}
      /\ x.inclusion = r.inclusion /\ x.sth = r.sth /\ x.key_directory = r.key_directory
  BY DEF Whole, attachAnchor
<1> HIDE DEF x
<1> QED
  BY <1>1 DEF Whole, x

(* Records do not change once they are in the log. *)
LEMMA SoundGrows ==
    ASSUME Len(lines) \in Nat, Len(lines') \in Nat, Len(lines) <= Len(lines'),
           \A i \in 1..Len(lines) : lines'[i] = lines[i]
    PROVE  /\ \A r : Sound(r, lines) => Sound(r, lines')
           /\ \A pr : JobSound(pr, lines) => JobSound(pr, lines')
<1>1. ASSUME NEW r, Sound(r, lines) PROVE Sound(r, lines')
  <2>1. PICK i \in 1..Len(lines), size \in Nat \ {0} : Whole(r, lines[i], size)
    BY <1>1 DEF Sound
  <2>2. i \in 1..Len(lines') /\ lines'[i] = lines[i]
    OBVIOUS
  <2> QED
    BY <2>1, <2>2 DEF Sound
<1> QED
  BY <1>1, Zenon DEF JobSound

(* A step of one command: what is left to show of it. *)
LEMMA HeadSteps ==
    ASSUME KeepInv, SoundInv, NEW p \in Procs, NEW pr, proc' = [proc EXCEPT ![p] = pr],
           UNCHANGED lines, JobSound(pr, lines), \A h \in checkpoint' : HeadSized(h),
           \A i \in 1..MaxRecords : \A r \in disk'[i] : Sound(r, lines)
    PROVE  SoundInv'
<1>1. \A q \in Procs : proc'[q] \in {pr, proc[q]}
  BY DEF KeepInv, CommandsProper
<1>2. \A q \in Procs : JobSound(proc'[q], lines)
  BY <1>1 DEF SoundInv
<1> QED
  BY <1>2 DEF SoundInv

LEMMA SoundSteps ==
    ASSUME KeepInv, SoundInv, NEW p \in Procs, NEW pr, proc' = [proc EXCEPT ![p] = pr],
           UNCHANGED <<lines, checkpoint>>, JobSound(pr, lines),
           \A i \in 1..MaxRecords : \A r \in disk'[i] : Sound(r, lines)
    PROVE  SoundInv'
<1>1. \A h \in checkpoint' : HeadSized(h)
  BY DEF SoundInv
<1> QED
  BY <1>1, HeadSteps

LEMMA ContinueSound ==
    ASSUME NEW leaves, NEW t, NEW q, \A k \in 1..Len(t) : Sound(t[k], leaves),
           \A k \in 1..Len(q) : AnchorSized(q[k])
    PROVE  JobSound(Continue(t, q), leaves)
<1>1. CASE t # <<>>
  <2>1. Continue(t, q) = [cmd |-> "save", todo |-> t, queue |-> q, anchor |-> {}]
    BY <1>1 DEF Continue, Job
  <2> QED
    BY <2>1 DEF JobSound
<1>2. CASE t = <<>> /\ q # <<>>
  <2>1. Continue(t, q) = [cmd |-> "ask", todo |-> t, queue |-> q, anchor |-> {}]
    BY <1>2 DEF Continue, Job
  <2> QED
    BY <2>1 DEF JobSound
<1>3. CASE t = <<>> /\ q = <<>>
  <2>1. Continue(t, q) = [cmd |-> "idle", todo |-> t, queue |-> q, anchor |-> {}]
    BY <1>3 DEF Continue, Idle, Job
  <2> QED
    BY <2>1 DEF JobSound
<1> QED
  BY <1>1, <1>2, <1>3

LEMMA IdleSound == \A leaves : JobSound(Idle, leaves)
  BY EmptyListed DEF JobSound, Idle, Job

LEMMA RecordSound ==
    ASSUME KeepInv, SoundInv, NEW p \in Procs, NEW event, Given(event),
           NEW goesOn, Record(p, event, goesOn)
    PROVE  SoundInv'
<1> DEFINE core == changeCore(plane, Len(lines) + 1, event, {DEFAULT_POLICY})
           fresh == seal(plane, plane.keys.log, log[p], core)
           pr == Job("head", <<fresh>>, <<>>, {})
<1>1. /\ lines' = Append(lines, core) /\ proc' = [proc EXCEPT ![p] = pr]
      /\ UNCHANGED <<checkpoint, disk>>
  BY Zenon DEF Record
<1>2. Len(lines) \in Nat /\ Listed(lines)
  BY LinesCount
<1>3. Listed(log[p]) /\ Len(log[p]) \in Nat
  <2>1. Listed(log[p])
    BY DEF KeepInv, LogsProper
  <2> QED
    BY <2>1, ListedAppend
<1>4. Leaf(core, Len(lines) + 1)
  BY Zenon DEF Leaf
<1>5. pr = [cmd |-> "head", todo |-> <<fresh>>, queue |-> <<>>, anchor |-> {}]
  BY DEF Job
<1> HIDE DEF pr, core
<1>6. Whole(fresh, core, Len(log[p]) + 1) /\ Len(log[p]) + 1 \in Nat \ {0}
  BY <1>3, SealedWhole
<1> HIDE DEF fresh
<1>7. /\ Len(lines') = Len(lines) + 1 /\ lines'[Len(lines) + 1] = core
      /\ \A i \in 1..Len(lines) : lines'[i] = lines[i]
  BY <1>1, <1>2, ListedAppend
<1>8. Len(lines') \in Nat /\ Len(lines) <= Len(lines') /\ Len(lines) + 1 \in 1..Len(lines')
  BY <1>2, <1>7
<1>9. Sound(fresh, lines')
  BY <1>6, <1>7, <1>8 DEF Sound
<1>10. JobSound(pr, lines')
  BY <1>5, <1>9, EmptyListed DEF JobSound
<1>11. /\ \A r : Sound(r, lines) => Sound(r, lines')
       /\ \A j : JobSound(j, lines) => JobSound(j, lines')
  BY <1>2, <1>7, <1>8, SoundGrows
<1>12. \A i \in 1..Len(lines') : Leaf(lines'[i], i)
  <2> TAKE i \in 1..Len(lines')
  <2>1. CASE i = Len(lines) + 1
    BY <1>4, <1>7, <2>1
  <2>2. CASE i # Len(lines) + 1
    <3>1. i \in 1..Len(lines)
      BY <1>2, <1>7, <2>2
    <3> QED
      BY <1>7, <3>1 DEF SoundInv
  <2> QED
    BY <2>1, <2>2
<1>13. \A q \in Procs : JobSound(proc'[q], lines')
  <2>1. \A q \in Procs : proc'[q] \in {pr, proc[q]}
    BY <1>1 DEF KeepInv, CommandsProper
  <2> QED
    BY <1>10, <1>11, <2>1 DEF SoundInv
<1> QED
  BY <1>1, <1>11, <1>12, <1>13, Zenon DEF SoundInv

LEMMA WitnessSound ==
    ASSUME KeepInv, SoundInv, NEW p \in Procs, WitnessCommand(p)
    PROVE  SoundInv'
<1> DEFINE found == [i \in 1..MaxRecords |-> {r \in disk[i] : r.sth # {}}]
           stored == inOrder(found)
           cosigned(r, name) == attachWitness(r, cosign(Some(r.sth), witnessId(name), name))
<1>1. PICK name \in Names :
         /\ Begin(p, [i \in 1..Len(stored) |-> cosigned(stored[i], name)], <<>>)
         /\ UNCHANGED <<lines, log, checkpoint, disk, earned>>
  BY Zenon DEF WitnessCommand, loadSome, logVars
<1> DEFINE t == [i \in 1..Len(stored) |-> cosigned(stored[i], name)]
<1>2. \A i \in 1..MaxRecords : found[i] \subseteq disk[i]
  OBVIOUS
<1> HIDE DEF found
<1>3. /\ Len(stored) \in Nat
      /\ \A k \in 1..Len(stored) : /\ stored[k].core.record_id \in 1..MaxRecords
                                   /\ stored[k] \in found[stored[k].core.record_id]
  BY <1>2, LoadedSome DEF KeepInv
<1>4. \A k \in 1..Len(stored) : Sound(stored[k], lines)
  BY <1>2, <1>3 DEF SoundInv
<1> HIDE DEF stored
<1>5. ASSUME NEW k \in 1..Len(stored) PROVE Sound(t[k], lines)
  <2>1. PICK i \in 1..Len(lines), size \in Nat \ {0} : Whole(stored[k], lines[i], size)
    BY <1>4 DEF Sound
  <2>2. t[k] = attachWitness(stored[k], cosign(Some(stored[k].sth), witnessId(name), name))
    OBVIOUS
  <2> HIDE DEF t
  <2>3. Whole(t[k], lines[i], size)
    BY <2>1, <2>2, CosignedWhole
  <2> QED
    BY <2>3 DEF Sound
<1>6. t = [i \in 1..Len(stored) |-> t[i]]
  BY Zenon
<1>7. proc' = [proc EXCEPT ![p] = Continue(t, <<>>)]
  BY <1>1 DEF Begin
<1> HIDE DEF t
<1>8. Len(t) = Len(stored)
  BY <1>3, <1>6, ListedMap
<1>9. JobSound(Continue(t, <<>>), lines)
  BY <1>5, <1>8, EmptyListed, ContinueSound
<1> QED
  BY <1>1, <1>7, <1>9, SoundSteps DEF SoundInv

LEMMA SubmitSound ==
    ASSUME KeepInv, SoundInv, NEW p \in Procs, SubmitCommand(p)
    PROVE  SoundInv'
<1>1. PICK order \in Orders, h \in checkpoint :
         /\ proc' = [proc EXCEPT ![p] = Job("attach", <<>>, <<>>, {anchorHead(h, order)})]
         /\ UNCHANGED <<lines, checkpoint, disk>>
  BY Zenon DEF SubmitCommand, logVars
<1> DEFINE a == anchorHead(h, order)
           pr == Job("attach", <<>>, <<>>, {a})
<1>2. AnchorSized(a)
  BY DEF SoundInv, HeadSized, anchorHead, AnchorSized
<1> HIDE DEF a
<1>3. pr = [cmd |-> "attach", todo |-> <<>>, queue |-> <<>>, anchor |-> {a}]
  BY DEF Job
<1> HIDE DEF pr
<1>4. JobSound(pr, lines)
  BY <1>2, <1>3, EmptyListed DEF JobSound
<1> QED
  BY <1>1, <1>4, SoundSteps DEF SoundInv, pr, a

LEMMA UpgradeSound ==
    ASSUME KeepInv, SoundInv, NEW p \in Procs, UpgradeCommand(p)
    PROVE  SoundInv'
<1>1. /\ proc' = [proc EXCEPT ![p] = Continue(<<>>, storedAnchors)]
      /\ UNCHANGED <<lines, checkpoint, disk>>
  BY DEF UpgradeCommand, Begin, logVars
<1>2. \A k \in 1..Len(storedAnchors) :
         \E i \in 1..MaxRecords : \E r \in disk[i] : storedAnchors[k] \in r.anchor
  BY AnchorsLoaded DEF KeepInv
<1>3. \A k \in 1..Len(storedAnchors) : AnchorSized(storedAnchors[k])
  BY <1>2 DEF SoundInv, Sound, Whole
<1>4. JobSound(Continue(<<>>, storedAnchors), lines)
  BY <1>3, EmptyListed, ContinueSound
<1> QED
  BY <1>1, <1>4, SoundSteps DEF SoundInv

LEMMA NextSound ==
    ASSUME KeepInv, SoundInv, NEW p \in Procs, UpgradeNext(p)
    PROVE  SoundInv'
<1> DEFINE rest == Tail(proc[p].queue)
           fresh(uris) == upgradeProof(Head(proc[p].queue), uris)
<1>1. proc[p].cmd = "ask" /\ UNCHANGED <<lines, checkpoint, disk>>
  BY DEF UpgradeNext, logVars
<1>2. PICK uris \in SUBSET Calendars :
         proc' = [proc EXCEPT ![p] = IF Head(proc[p].queue).heights # {} \/ fresh(uris).heights = {}
                                     THEN Continue(<<>>, rest)
                                     ELSE Job("attach", <<>>, rest, {fresh(uris)})]
  BY Zenon DEF UpgradeNext
<1>3. /\ proc[p].queue # <<>> /\ Listed(proc[p].queue)
      /\ \A k \in 1..Len(proc[p].queue) : AnchorSized(proc[p].queue[k])
  BY <1>1 DEF KeepInv, CommandsProper, CommandProper, SoundInv, JobSound
<1>4. /\ Len(proc[p].queue) \in Nat /\ Len(proc[p].queue) > 0
      /\ Head(proc[p].queue) = proc[p].queue[1] /\ Len(rest) = Len(proc[p].queue) - 1
      /\ \A i \in 1..(Len(proc[p].queue) - 1) : rest[i] = proc[p].queue[i + 1]
  BY <1>3, ListedTail
<1>5. \A k \in 1..Len(rest) : AnchorSized(rest[k])
  <2> TAKE k \in 1..Len(rest)
  <2>1. k + 1 \in 1..Len(proc[p].queue) /\ rest[k] = proc[p].queue[k + 1]
    BY <1>4
  <2> QED
    BY <1>3, <2>1
<1>6. AnchorSized(Head(proc[p].queue))
  BY <1>3, <1>4
<1> HIDE DEF rest
<1>7. CASE proc' = [proc EXCEPT ![p] = Continue(<<>>, rest)]
  <2>1. JobSound(Continue(<<>>, rest), lines)
    BY <1>5, EmptyListed, ContinueSound
  <2> QED
    BY <1>1, <1>7, <2>1, SoundSteps DEF SoundInv
<1>8. CASE proc' = [proc EXCEPT ![p] = Job("attach", <<>>, rest, {fresh(uris)})]
  <2> DEFINE a == fresh(uris)
             old == Head(proc[p].queue)
             pr == Job("attach", <<>>, rest, {a})
  <2>1. \E proof, heights : a = [old EXCEPT !.proof = proof, !.heights = heights]
    <3> HIDE DEF old
    <3> QED
      BY Zenon DEF upgradeProof, old
  <2>2. AnchorSized(old)
    BY <1>6
  <2> HIDE DEF a, old
  <2>3. AnchorSized(a)
    BY <2>1, <2>2 DEF AnchorSized
  <2>4. pr = [cmd |-> "attach", todo |-> <<>>, queue |-> rest, anchor |-> {a}]
    BY DEF Job
  <2> HIDE DEF pr
  <2>5. JobSound(pr, lines)
    BY <1>5, <2>3, <2>4, EmptyListed DEF JobSound
  <2> QED
    BY <1>1, <1>8, <2>5, SoundSteps DEF SoundInv, pr, a
<1> HIDE DEF fresh
<1> QED
  BY <1>2, <1>7, <1>8

(* buildSTH() keeps the head of the receipt in hand. *)
LEMMA CheckpointSound ==
    ASSUME KeepInv, SoundInv, NEW p \in Procs, Checkpoint(p)
    PROVE  SoundInv'
<1> DEFINE old == proc[p]
           x == Head(old.todo)
           pr == Job("save", old.todo, old.queue, {})
<1>1. /\ old.cmd = "head" /\ checkpoint' = x.sth /\ UNCHANGED <<lines, disk>>
      /\ proc' = [proc EXCEPT ![p] = pr]
  BY DEF Checkpoint
<1>2. Listed(old.todo) /\ old.todo # <<>>
  BY <1>1 DEF KeepInv, CommandsProper, CommandProper
<1>3. Len(old.todo) \in Nat /\ Len(old.todo) > 0 /\ x = old.todo[1]
  BY <1>2, ListedTail
<1>4. JobSound(old, lines)
  BY DEF SoundInv
<1>5. pr = [cmd |-> "save", todo |-> old.todo, queue |-> old.queue, anchor |-> {}]
  BY DEF Job
<1> HIDE DEF pr, x, old
<1>6. Sound(x, lines)
  BY <1>3, <1>4 DEF JobSound
<1>7. PICK i \in 1..Len(lines), size \in Nat \ {0} : Whole(x, lines[i], size)
  BY <1>6 DEF Sound
<1>8. \A h \in checkpoint' : HeadSized(h)
  BY <1>1, <1>7 DEF Whole, SignedHead, HeadSized
<1>9. JobSound(pr, lines)
  BY <1>4, <1>5 DEF JobSound
<1> QED
  BY <1>1, <1>8, <1>9, HeadSteps DEF SoundInv

LEMMA ReattachSound ==
    ASSUME KeepInv, SoundInv, NEW p \in Procs, Reattach(p)
    PROVE  SoundInv'
<1> DEFINE a == Some(proc[p].anchor)
           found == [i \in 1..MaxRecords |-> {r \in disk[i] : covered(r, a)}]
           touched == inOrder(found)
<1>1. proc[p].cmd = "attach" /\ UNCHANGED <<lines, checkpoint, disk>>
  BY DEF Reattach, logVars
<1>2. AnchorSized(a) /\ \A k \in 1..Len(proc[p].queue) : AnchorSized(proc[p].queue[k])
  BY <1>1 DEF KeepInv, CommandsProper, CommandProper, SoundInv, JobSound, Some
<1>3. \A i \in 1..MaxRecords : found[i] \subseteq disk[i]
  OBVIOUS
<1> HIDE DEF found
<1>4. /\ Len(touched) \in Nat
      /\ \A k \in 1..Len(touched) : /\ touched[k].core.record_id \in 1..MaxRecords
                                    /\ touched[k] \in found[touched[k].core.record_id]
  BY <1>3, LoadedSome DEF KeepInv
<1>5. \A k \in 1..Len(touched) : Sound(touched[k], lines)
  BY <1>3, <1>4 DEF SoundInv
<1> HIDE DEF touched, a
<1>6. PICK q, to : /\ to \in 0..Len(touched) /\ q \in {proc[p].queue, <<>>}
                   /\ proc' = [proc EXCEPT ![p] =
                                 Continue([i \in 1..to |-> attachAnchor(touched[i], a)], q)]
  <2>1. a = Some(proc[p].anchor)
    BY DEF a
  <2>2. touched = LoadedFor(a)
    BY Zenon DEF touched, found, LoadedFor
  <2>3. Len(touched) \in Nat
    BY <1>4
  <2>4. WrittenUpTo(p, a, touched)
    BY <2>1, <2>2, <2>3, Reattached
  <2> QED
    BY <2>4 DEF WrittenUpTo
<1> DEFINE t == [i \in 1..to |-> attachAnchor(touched[i], a)]
<1>7. \A k \in 1..Len(q) : AnchorSized(q[k])
  BY <1>2, <1>6, EmptyListed
<1>8. to \in Nat /\ \A k \in 1..to : k \in 1..Len(touched)
  BY <1>4, <1>6
<1>9. ASSUME NEW k \in 1..to PROVE Sound(t[k], lines)
  <2>1. PICK i \in 1..Len(lines), size \in Nat \ {0} : Whole(touched[k], lines[i], size)
    BY <1>5, <1>8 DEF Sound
  <2>2. t[k] = attachAnchor(touched[k], a)
    OBVIOUS
  <2> HIDE DEF t
  <2>3. Whole(t[k], lines[i], size)
    BY <1>2, <2>1, <2>2, AnchoredWhole
  <2> QED
    BY <2>3 DEF Sound
<1>10. t = [i \in 1..to |-> t[i]]
  BY Zenon
<1>11. proc' = [proc EXCEPT ![p] = Continue(t, q)]
  BY <1>6
<1> HIDE DEF t
<1>12. Len(t) = to
  BY <1>8, <1>10, ListedMap
<1>13. JobSound(Continue(t, q), lines)
  BY <1>7, <1>9, <1>12, ContinueSound
<1> QED
  BY <1>1, <1>11, <1>13, SoundSteps DEF SoundInv

LEMMA TruncateSound ==
    ASSUME KeepInv, SoundInv, NEW p \in Procs, Truncate(p)
    PROVE  SoundInv'
<1> DEFINE old == proc[p]
           id == Head(old.todo).core.record_id
           pr == Job("write", old.todo, old.queue, {})
<1>1. /\ UNCHANGED <<lines, checkpoint>> /\ proc' = [proc EXCEPT ![p] = pr]
      /\ disk' = [disk EXCEPT ![id] = {}]
  BY DEF Truncate, logVars
<1>2. JobSound(old, lines)
  BY DEF SoundInv
<1>3. pr = [cmd |-> "write", todo |-> old.todo, queue |-> old.queue, anchor |-> {}]
  BY DEF Job
<1> HIDE DEF pr, old, id
<1>4. JobSound(pr, lines)
  BY <1>2, <1>3 DEF JobSound
<1>5. \A i \in 1..MaxRecords : disk'[i] \in {{}, disk[i]}
  BY <1>1 DEF KeepInv, FilesProper
<1>6. \A i \in 1..MaxRecords : \A r \in disk'[i] : Sound(r, lines)
  BY <1>5 DEF SoundInv
<1> QED
  BY <1>1, <1>4, <1>6, SoundSteps

LEMMA FillSound ==
    ASSUME KeepInv, SoundInv, NEW p \in Procs, Fill(p)
    PROVE  SoundInv'
<1> DEFINE old == proc[p]
           x == Head(old.todo)
           id == x.core.record_id
           t == Tail(old.todo)
<1>1. /\ old.cmd = "write" /\ UNCHANGED <<lines, checkpoint>>
      /\ proc' = [proc EXCEPT ![p] = Continue(t, old.queue)] /\ disk' = [disk EXCEPT ![id] = {x}]
  BY DEF Fill, logVars
<1>2. Listed(old.todo) /\ old.todo # <<>>
  BY <1>1 DEF KeepInv, CommandsProper, CommandProper
<1>3. /\ Len(old.todo) \in Nat /\ Len(old.todo) > 0 /\ Len(t) = Len(old.todo) - 1
      /\ x = old.todo[1] /\ \A i \in 1..(Len(old.todo) - 1) : t[i] = old.todo[i + 1]
  BY <1>2, ListedTail
<1>4. JobSound(old, lines)
  BY DEF SoundInv
<1> HIDE DEF old, x, t, id
<1>5. Sound(x, lines)
  BY <1>3, <1>4 DEF JobSound
<1>6. ASSUME NEW k \in 1..Len(t) PROVE Sound(t[k], lines)
  <2>1. k + 1 \in 1..Len(old.todo) /\ t[k] = old.todo[k + 1]
    BY <1>3
  <2> QED
    BY <1>4, <2>1 DEF JobSound
<1>7. JobSound(Continue(t, old.queue), lines)
  BY <1>4, <1>6, ContinueSound DEF JobSound
<1>8. \A i \in 1..MaxRecords : disk'[i] \in {{x}, disk[i]}
  BY <1>1 DEF KeepInv, FilesProper
<1>9. \A i \in 1..MaxRecords : \A r \in disk'[i] : Sound(r, lines)
  BY <1>5, <1>8 DEF SoundInv
<1> QED
  BY <1>1, <1>7, <1>9, SoundSteps

LEMMA KilledSound ==
    ASSUME KeepInv, SoundInv, NEW p \in Procs, Killed(p)
    PROVE  SoundInv'
<1>1. /\ proc' = [proc EXCEPT ![p] = Idle] /\ checkpoint' \in {checkpoint, {}}
      /\ UNCHANGED <<lines, disk>>
  BY DEF Killed
<1>2. \A h \in checkpoint' : HeadSized(h)
  BY <1>1 DEF SoundInv
<1> QED
  BY <1>1, <1>2, IdleSound, HeadSteps DEF SoundInv

LEMMA SealSound ==
    ASSUME KeepInv, SoundInv, NEW p \in Procs, SealCommand(p)
    PROVE  SoundInv'
<1> DEFINE pr == Job("seal", <<>>, <<>>, {})
<1>1. proc' = [proc EXCEPT ![p] = pr] /\ UNCHANGED <<lines, checkpoint, disk>>
  BY DEF SealCommand
<1>2. JobSound(pr, lines)
  BY EmptyListed DEF JobSound, Job
<1> HIDE DEF pr
<1> QED
  BY <1>1, <1>2, SoundSteps DEF SoundInv

LEMMA StillSound == ASSUME SoundInv, UNCHANGED <<lines, checkpoint, disk, proc>> PROVE SoundInv'
  BY DEF SoundInv

LEMMA SoundInit == CInit => SoundInv
  BY IdleSound, EmptyListed DEF CInit, WInit, SoundInv

(* Every readable file, and every receipt a command is about to write, is  *)
(* a record of the log with co-signatures of its own head, the keys of all *)
(* who signed, and anchors (attachWitness, attachAnchor, saveReceipt).     *)
THEOREM SoundInvariance == Spec => []SoundInv
<1>1. KeepInv /\ SoundInv /\ [Next]_vars => SoundInv'
  <2> SUFFICES ASSUME KeepInv, SoundInv, [Next]_vars PROVE SoundInv'
    OBVIOUS
  <2>1. CASE UNCHANGED wvars \/ Start \/ \E c \in Calendars : Mine(c)
    <3>1. UNCHANGED <<lines, checkpoint, disk, proc>>
      BY <2>1 DEF wvars, logVars, Start, Mine
    <3> QED
      BY <3>1, StillSound
  <2>2. CASE SealChange
    <3>1. \A c : Given(eventOf(c))
      BY DEF Given, eventOf
    <3> QED
      BY <2>2, <3>1, ConsoleAssumption, RecordSound DEF SealChange
  <2>3. CASE Kill
    BY <2>3, ConsoleAssumption, KilledSound DEF Kill
  <2>4. ASSUME NEW p \in Procs, Command(p) PROVE SoundInv'
    BY <2>4, SealSound, WitnessSound, SubmitSound, UpgradeSound DEF Command
  <2>5. ASSUME NEW p \in Procs, RecordCommand(p) PROVE SoundInv'
    <3>1. \A e \in Events : Given(e)
      BY EventsAssumption DEF Given
    <3>2. PICK event \in Events : Record(p, event, FALSE)
      BY <2>5 DEF RecordCommand
    <3> QED
      BY <3>1, <3>2, RecordSound
  <2>6. ASSUME NEW p \in Procs, Step(p) PROVE SoundInv'
    <3>1. CASE Crash(p)
      BY <3>1, KilledSound DEF Crash
    <3> QED
      BY <2>5, <2>6, <3>1, CheckpointSound, NextSound, ReattachSound, TruncateSound, FillSound DEF Step
  <2>7. CASE Checkpoint(Ui) \/ Truncate(Ui) \/ Fill(Ui)
    BY <2>7, ConsoleAssumption, CheckpointSound, TruncateSound, FillSound
  <2> QED
    BY <2>1, <2>2, <2>3, <2>4, <2>6, <2>7 DEF Next, vars
<1> QED
  BY <1>1, SoundInit, KeepInvariance, PTL DEF Spec

-----------------------------------------------------------------------------
(* What a receipt has to pass. *)
Signed(r) ==
    r.signature.key_id \in DOMAIN r.key_directory
    /\ hybridVerify(<<r.core, r.binding_hash>>, r.signature, r.key_directory[r.signature.key_id])

LEMMA Accepted ==
    ASSUME NEW r, NEW options, NEW a,
           validateReceiptV2Shape(r), r.core = r.binding_hash, Signed(r),
           verifyInclusionDomain(r) = domain("pass"),
           a = verifyAttestationDomain(r, options), a.status # "fail",
           verifyEnclaveDomain(r, options, a).status # "fail",
           ~options.requireHardware,
           options.witnessThreshold > 0 =>
              verifyWitnessesDomain(r, options.witnessThreshold) = domain("pass")
    PROVE  verifyReceiptV2(r, options).ok
<1> DEFINE binding == domain(IF r.core = r.binding_hash THEN "pass" ELSE "fail")
           signature == domain(IF Signed(r) THEN "pass" ELSE "fail")
           inclusion == verifyInclusionDomain(r)
           witnesses == verifyWitnessesDomain(r, options.witnessThreshold)
           attestation == verifyAttestationDomain(r, options)
           enclave == verifyEnclaveDomain(r, options, attestation)
           anchor == verifyAnchorDomain(r, options)
           checks == [binding |-> binding, signature |-> signature, inclusion |-> inclusion,
                      witnesses |-> witnesses, attestation |-> attestation, enclave |-> enclave,
                      anchor |-> anchor]
           none == [d \in DOMAIN checks |->
                      domain(IF d \in {"binding", "signature"} THEN "fail" ELSE "absent")]
           good == /\ checks.binding.status = "pass" /\ checks.signature.status = "pass"
                   /\ checks.inclusion.status \in {"pass", "absent"}
                   /\ checks.enclave.status # "fail" /\ checks.attestation.status # "fail"
                   /\ options.requireHardware => checks.attestation.status = "pass"
                   /\ options.witnessThreshold > 0 => checks.witnesses.status = "pass"
           v == verifyReceiptV2(r, options)
<1>1. v = IF ~validateReceiptV2Shape(r) THEN [ok |-> FALSE, checks |-> none]
          ELSE [checks |-> checks, ok |-> good]
  BY Zenon DEF verifyReceiptV2, Signed
<1>2. binding.status = "pass" /\ signature.status = "pass" /\ inclusion.status = "pass"
  BY Says
<1>3. options.witnessThreshold > 0 => witnesses.status = "pass"
  BY Says
<1>4. attestation = a /\ enclave.status # "fail" /\ attestation.status # "fail"
  BY Zenon
<1> HIDE DEF binding, signature, inclusion, witnesses, enclave, anchor, attestation
<1>5. /\ checks.binding = binding /\ checks.signature = signature
      /\ checks.inclusion = inclusion /\ checks.witnesses = witnesses
      /\ checks.attestation = attestation /\ checks.enclave = enclave
  OBVIOUS
<1> HIDE DEF checks, none
<1>6. good = TRUE
  BY <1>2, <1>3, <1>4, <1>5
<1> HIDE DEF good, v
<1>7. v = [checks |-> checks, ok |-> TRUE]
  BY <1>1, <1>6, Zenon
<1>8. v.ok = TRUE
  BY <1>7
<1> QED
  BY <1>8 DEF v

(* All co-signatures of a whole receipt count. *)
LEMMA AllCount ==
    ASSUME NEW r, NEW core, NEW size, Whole(r, core, size)
    PROVE  countWitnesses(r) = Len(Some(r.sth).witnesses) /\ Len(Some(r.sth).witnesses) \in Nat
<1>1. PICK sth : r.sth = {sth} /\ SignedHead(sth, size) /\ Directory(r.key_directory, sth)
  BY DEF Whole
<1> DEFINE n == Len(sth.witnesses)
           valid(w) == /\ w.external /\ w.id \in DOMAIN r.key_directory
                       /\ hybridVerify(sthCore(sth), w, r.key_directory[w.id])
<1>2. Some(r.sth) = sth /\ r.sth # {}
  BY <1>1, OneOf
<1>3. n \in Nat
  <2>1. Listed(sth.witnesses)
    BY <1>1 DEF SignedHead
  <2> QED
    BY <2>1, ListedAppend
<1>4. countWitnesses(r) = Cardinality({i \in 1..n : valid(sth.witnesses[i])})
  BY <1>2, Zenon DEF countWitnesses
<1>5. ASSUME NEW i \in 1..n PROVE valid(sth.witnesses[i])
  <2>1. PICK name \in Names : sth.witnesses[i] = cosign(sth, witnessId(name), name).witness
    BY <1>1 DEF SignedHead
  <2> DEFINE w == sth.witnesses[i]
  <2>2. w.external = TRUE /\ w.id = witnessId(name) /\ w.by = name /\ w.over = sthCore(sth)
    BY <2>1 DEF cosign
  <2>3. w.id \in DOMAIN r.key_directory
    BY <1>1 DEF Directory
  <2>4. r.key_directory[w.id] = name
    BY <1>1, <2>2, <2>3 DEF Directory
  <2> QED
    BY <2>2, <2>3, <2>4 DEF hybridVerify
<1>6. {i \in 1..n : valid(sth.witnesses[i])} = 1..n
  <2> HIDE DEF valid, n
  <2> QED
    BY <1>5
<1>7. Cardinality(1..n) = n
  <2> HIDE DEF n
  <2>1. CASE n = 0
    <3>1. 1..n = {}
      BY <2>1
    <3> QED
      BY <2>1, <3>1, FS_EmptySet
  <2>2. CASE n # 0
    BY <1>3, <2>2, FS_Interval
  <2> QED
    BY <2>1, <2>2
<1> QED
  BY <1>2, <1>3, <1>4, <1>6, <1>7

(* A receipt has its quote, its place in the log and its decision. *)
LEMMA WholeShape ==
    ASSUME NEW r, NEW core, NEW id, NEW size \in Nat \ {0}, Whole(r, core, size), Leaf(core, id)
    PROVE  validateReceiptV2Shape(r)
<1>1. PICK sth : /\ r.sth = {sth} /\ SignedHead(sth, size) /\ Directory(r.key_directory, sth)
                 /\ r.inclusion = {Inclusion(core, size, sth.root_hash)}
  BY DEF Whole
<1>2. PICK e : core = changeCore(plane, id, e, {DEFAULT_POLICY})
  BY DEF Leaf
<1>3. /\ core.schema = "cool.change.v2" /\ core.runtime = plane.runtime
      /\ DOMAIN core.commitments = {"change.before", "change.after"}
      /\ core.commitments["change.before"] = commit(id, "change.before", e.before)
      /\ core.commitments["change.after"] = commit(id, "change.after", {e.after})
  <2>1. CoreOf(core, id, e)
    BY <1>2, CoreParts
  <2> QED
    BY <2>1 DEF CoreOf
<1>4. r.core = core /\ r.attestation = plane.attestation /\ \A a \in r.anchor : AnchorSized(a)
  BY DEF Whole
<1>5. runtimeShape(r.core.runtime)
  BY <1>3, <1>4, PlaneParts DEF runtimeShape, TEE_VENDORS, MODES
<1>6. \A f \in DOMAIN core.commitments : core.commitments[f].hash # {} <=> core.commitments[f].salt # {}
  <2>1. \A n, f, value : commit(n, f, value).hash # {} <=> commit(n, f, value).salt # {}
    BY DEF commit
  <2> QED
    BY <1>3, <2>1
<1>7. Inclusion(core, size, sth.root_hash).tree_size = size /\ sth.tree_size = size
  BY <1>1 DEF Inclusion, SignedHead
<1>8. \A inc \in r.inclusion : inc.tree_size >= 1
  BY <1>1, <1>7
<1>9. \A s \in r.sth : s.tree_size >= 1
  BY <1>1, <1>7
<1>10. \A a \in r.anchor : a.tree_size >= 1
  BY <1>4 DEF AnchorSized
<1>11. r.attestation.mode \in MODES
  BY <1>4, PlaneParts DEF MODES
<1>12. DOMAIN r.key_directory # {}
  BY <1>1 DEF Directory
<1>13. r.inclusion # {} /\ r.sth # {}
  BY <1>1
<1>14. r.core.schema \in {"cool.evidence.v1", "cool.change.v2"}
  BY <1>3, <1>4
<1> QED
  BY <1>4, <1>5, <1>6, <1>8, <1>9, <1>10, <1>11, <1>12, <1>13, <1>14, Zenon DEF validateReceiptV2Shape

(* A whole receipt verifies, with every witness it lists, whether or not   *)
(* the measurement is pinned.                                              *)
LEMMA WholeVerifies ==
    ASSUME NEW r, NEW core, NEW size \in Nat \ {0}, Whole(r, core, size), NEW id, Leaf(core, id),
           NEW n \in Nat, n <= Len(Some(r.sth).witnesses),
           NEW o, o.quoteVerifier = {}, o.expectedMeasurement \in {{}, {"m"}},
           o.requireHardware = FALSE, o.witnessThreshold = n
    PROVE  verifyReceiptV2(r, o).ok
<1>1. PICK sth : /\ r.sth = {sth} /\ SignedHead(sth, size) /\ Directory(r.key_directory, sth)
                 /\ r.inclusion = {Inclusion(core, size, sth.root_hash)}
  BY DEF Whole
<1>2. /\ r.core = core /\ r.binding_hash = core
      /\ r.signature = signed("K-record", "record", <<core, core>>)
      /\ r.attestation = plane.attestation
  BY DEF Whole
<1>3. /\ o.quoteVerifier = {} /\ o.requireHardware = FALSE /\ o.witnessThreshold = n
      /\ o.expectedMeasurement = {} \/ o.expectedMeasurement = {"m"}
  OBVIOUS
<1>4. PICK q : /\ plane.attestation.quote = {q} /\ plane.runtime.tee_quote = {q}
               /\ q.root = "cool-sim-root" /\ q.raw = {} /\ q.body.measurement = "m"
               /\ q.body.report_data = enclaveReportData("K-record")
               /\ \E s : q.signature = {s} /\ s = signed("simroot", "sim-root", q.body)
  BY PlaneParts
<1>5. /\ {"sim-root", "record", "log"} \subseteq DOMAIN r.key_directory
      /\ r.key_directory["sim-root"] = "simroot" /\ r.key_directory["record"] = "K-record"
      /\ r.key_directory["log"] = "K-log"
  BY <1>1 DEF Directory
<1>6. r.core.runtime.tee_quote = {q} /\ r.core.runtime.enclave_measurement = {"m"}
  <2>1. PICK e : core = changeCore(plane, id, e, {DEFAULT_POLICY})
    BY DEF Leaf
  <2>2. core.runtime = plane.runtime
    BY <2>1 DEF changeCore
  <2> QED
    BY <1>2, <1>4, <2>2, PlaneParts
<1>7. validateReceiptV2Shape(r)
  BY WholeShape
<1>8. Signed(r)
  BY <1>2, <1>5 DEF Signed, hybridVerify, signed
<1>9. verifyInclusionDomain(r) = domain("pass")
  <2> DEFINE inc == Inclusion(core, size, sth.root_hash)
  <2>1. Some(r.inclusion) = inc /\ Some(r.sth) = sth /\ r.inclusion # {} /\ r.sth # {}
    BY <1>1, OneOf
  <2>2. /\ inc.tree_size = sth.tree_size /\ inc.leaf_index < sth.tree_size
        /\ inc.audit_path = <<r.binding_hash, inc.leaf_index, sth.root_hash>>
    BY <1>1, <1>2 DEF Inclusion, SignedHead
  <2>3. /\ sth.signature.key_id \in DOMAIN r.key_directory
        /\ hybridVerify(sthCore(sth), sth.signature, r.key_directory[sth.signature.key_id])
    <3>1. sth.signature = signed("K-log", "log", sthCore(sth))
      BY <1>1 DEF SignedHead
    <3> QED
      BY <1>5, <3>1 DEF hybridVerify, signed
  <2> HIDE DEF inc
  <2> QED
    BY <2>1, <2>2, <2>3, Zenon DEF verifyInclusionDomain
<1>10. Some(r.attestation.quote) = q /\ r.attestation.quote # {}
  BY <1>2, <1>4, OneOf
<1>11. verifyAttestationDomain(r, o) = domain("simulated")
  <2>1. checkQuoteStructure(q)
    BY <1>4 DEF checkQuoteStructure
  <2>2. simulatedQuoteVerifier(r.key_directory, q)
    BY <1>4, <1>5 DEF simulatedQuoteVerifier, hybridVerify, signed
  <2> QED
    BY <1>3, <1>4, <1>10, <2>1, <2>2, Zenon DEF verifyAttestationDomain
<1>12. verifyEnclaveDomain(r, o, domain("simulated")) = domain("simulated")
  <2>1. r.signature.key_id = "record"
    BY <1>2 DEF signed
  <2>2. /\ r.core.runtime.tee_quote = {q} /\ r.core.runtime.tee_quote # {}
        /\ r.core.runtime.enclave_measurement = {q.body.measurement}
    BY <1>4, <1>6
  <2>3. /\ r.signature.key_id \in DOMAIN r.key_directory
        /\ q.body.report_data = enclaveReportData(r.key_directory[r.signature.key_id])
    BY <1>4, <1>5, <2>1
  <2>4. (IF o.expectedMeasurement # {} THEN o.expectedMeasurement
         ELSE r.attestation.expected_measurement) = {q.body.measurement}
    BY <1>2, <1>3, <1>4, PlaneParts
  <2>5. domain("simulated").status = "simulated"
    BY Says
  <2>6. ~o.requireHardware
    BY <1>3
  <2> QED
    BY <1>10, <2>2, <2>3, <2>4, <2>5, <2>6, Zenon DEF verifyEnclaveDomain
<1>13. o.witnessThreshold > 0 => verifyWitnessesDomain(r, o.witnessThreshold) = domain("pass")
  <2>1. countWitnesses(r) = Len(Some(r.sth).witnesses) /\ Len(Some(r.sth).witnesses) \in Nat
    BY AllCount
  <2>2. n > 0 => countWitnesses(r) >= (IF n > 1 THEN n ELSE 1)
    BY <2>1
  <2>3. r.sth # {}
    BY <1>1
  <2> QED
    BY <1>3, <2>2, <2>3, Zenon DEF verifyWitnessesDomain
<1>14. domain("simulated").status # "fail"
  BY Says
<1>15. r.core = r.binding_hash /\ ~o.requireHardware
  BY <1>2, <1>3
<1> QED
  BY <1>7, <1>8, <1>9, <1>11, <1>12, <1>13, <1>14, <1>15, Accepted

(* Adding up what is the same for all receipts gives the same. *)
LEMMA SumsAlike ==
    ASSUME NEW S, \A r \in S : countWitnesses(r) = Len(Some(r.sth).witnesses)
    PROVE  MapThenSumSet(countWitnesses, S) = MapThenSumSet(LAMBDA r : Len(Some(r.sth).witnesses), S)
<1> DEFINE one(s) == CHOOSE x \in s : TRUE
           f(it, s) == IF s = {} THEN 0 ELSE countWitnesses(one(s)) + it[s \ {one(s)}]
           g(it, s) == IF s = {} THEN 0 ELSE Len(Some(one(s).sth).witnesses) + it[s \ {one(s)}]
           P(it) == it = [s \in SUBSET S |-> f(it, s)]
           Q(it) == it = [s \in SUBSET S |-> g(it, s)]
<1>1. ASSUME NEW it PROVE P(it) <=> Q(it)
  <2>1. ASSUME NEW s \in SUBSET S PROVE f(it, s) = g(it, s)
    <3>1. s # {} => one(s) \in S
      OBVIOUS
    <3>2. s # {} => countWitnesses(one(s)) = Len(Some(one(s).sth).witnesses)
      BY <3>1, Zenon
    <3> QED
      BY <3>2, Zenon
  <2>2. [s \in SUBSET S |-> f(it, s)] = [s \in SUBSET S |-> g(it, s)]
    <3> HIDE DEF f, g
    <3> QED
      BY <2>1, Zenon
  <2> HIDE DEF f, g
  <2> QED
    BY <2>2
<1>2. MapThenSumSet(countWitnesses, S) = (CHOOSE it : P(it))[S]
  BY Zenon DEF MapThenSumSet, MapThenFoldSet
<1>3. MapThenSumSet(LAMBDA r : Len(Some(r.sth).witnesses), S) = (CHOOSE it : Q(it))[S]
  BY Zenon DEF MapThenSumSet, MapThenFoldSet
<1> HIDE DEF P, Q
<1>4. (CHOOSE it : P(it)) = (CHOOSE it : Q(it))
  BY <1>1, Zenon
<1> QED
  BY <1>2, <1>3, <1>4, Zenon

-----------------------------------------------------------------------------
(* loadReceipts() returns all that is in the files; the last receipt is of *)
(* the last record that has a file.                                        *)
LEMMA LoadedAll ==
    ASSUME FilesProper, NEW s, s = loadReceipts
    PROVE  /\ Len(s) \in Nat
           /\ \A k \in 1..Len(s) : /\ s[k].core.record_id \in 1..MaxRecords
                                   /\ s[k] \in disk[s[k].core.record_id]
           /\ \A i \in 1..MaxRecords : \A r \in disk[i] : \E k \in 1..Len(s) : s[k] = r
           /\ Len(s) # 0 => \A i \in (s[Len(s)].core.record_id + 1)..MaxRecords : disk[i] = {}
           /\ ToSet(s) = UNION {disk[i] : i \in 1..MaxRecords}
<1> DEFINE S == UNION {disk[i] : i \in 1..MaxRecords}
           seqs == [i \in 1..MaxRecords |-> SetToSeq(disk[i])]
<1>0. MaxRecords \in Nat
  BY WorkspaceAssumption
<1>1. s = inOrder(disk)
  BY DEF loadReceipts
<1>2. /\ Len(s) \in Nat /\ Listed(s)
      /\ \A k \in 1..Len(s) : /\ s[k].core.record_id \in 1..MaxRecords
                              /\ s[k] \in disk[s[k].core.record_id]
  BY <1>1, LoadedSome
<1>3. \A i \in 1..MaxRecords : /\ SetToSeq(disk[i]) \in Seq(disk[i])
                               /\ disk[i] = {} => SetToSeq(disk[i]) = <<>>
                               /\ \A x \in disk[i] : Len(SetToSeq(disk[i])) = 1 /\ SetToSeq(disk[i])[1] = x
  <2> SUFFICES ASSUME NEW i \in 1..MaxRecords
               PROVE  /\ SetToSeq(disk[i]) \in Seq(disk[i])
                      /\ disk[i] = {} => SetToSeq(disk[i]) = <<>>
                      /\ \A x \in disk[i] : Len(SetToSeq(disk[i])) = 1 /\ SetToSeq(disk[i])[1] = x
    OBVIOUS
  <2>1. \A r \in disk[i] : disk[i] = {r}
    BY DEF FilesProper
  <2> QED
    BY <2>1, SetToSeqOfOne
<1>4. seqs \in [1..MaxRecords -> Seq(S)]
  <2>1. \A i \in 1..MaxRecords : SetToSeq(disk[i]) \in Seq(S)
    <3> SUFFICES ASSUME NEW i \in 1..MaxRecords PROVE SetToSeq(disk[i]) \in Seq(S)
      OBVIOUS
    <3>1. SetToSeq(disk[i]) \in Seq(disk[i]) /\ disk[i] \subseteq S
      BY <1>3
    <3> HIDE DEF S
    <3> QED
      BY <3>1
  <2> HIDE DEF S
  <2> QED
    BY <2>1
<1>5. s = FlattenSeq(seqs)
  BY <1>1 DEF inOrder
<1>6. \A i \in 1..MaxRecords : seqs[i] = SetToSeq(disk[i])
  OBVIOUS
<1> HIDE DEF S, seqs
<1>7. /\ \A i \in 1..MaxRecords : \A j \in 1..Len(seqs[i]) : \E k \in 1..Len(s) : s[k] = seqs[i][j]
      /\ s # <<>> => \E i \in 1..MaxRecords :
            /\ seqs[i] # <<>> /\ s[Len(s)] = seqs[i][Len(seqs[i])]
            /\ \A j \in (i + 1)..MaxRecords : seqs[j] = <<>>
  <2>1. Gathers(FlattenSeq(seqs), seqs, MaxRecords)
    BY <1>0, <1>4, FlattenedAll
  <2>2. Gathers(s, seqs, MaxRecords)
    BY <1>5, <2>1
  <2> QED
    BY <2>2 DEF Gathers
<1>8. ASSUME NEW i \in 1..MaxRecords, NEW r \in disk[i] PROVE \E k \in 1..Len(s) : s[k] = r
  <2>1. Len(seqs[i]) = 1 /\ seqs[i][1] = r
    BY <1>3, <1>6
  <2>2. 1 \in 1..Len(seqs[i])
    BY <2>1
  <2> QED
    BY <1>7, <2>1, <2>2
<1>9. ASSUME Len(s) # 0, NEW j \in (s[Len(s)].core.record_id + 1)..MaxRecords PROVE disk[j] = {}
  <2>1. s # <<>>
    BY <1>9, EmptySeq
  <2>2. PICK i \in 1..MaxRecords :
            /\ seqs[i] # <<>> /\ s[Len(s)] = seqs[i][Len(seqs[i])]
            /\ \A k \in (i + 1)..MaxRecords : seqs[k] = <<>>
    BY <1>7, <2>1
  <2>3. PICK r \in disk[i] : TRUE
    BY <1>3, <1>6, <2>2
  <2>4. s[Len(s)] = r /\ r.core.record_id = i
    BY <1>3, <1>6, <2>2, <2>3 DEF FilesProper
  <2>5. j \in (i + 1)..MaxRecords /\ j \in 1..MaxRecords
    BY <1>0, <2>4
  <2>6. SetToSeq(disk[j]) = <<>>
    BY <1>6, <2>2, <2>5
  <2>7. \A x \in disk[j] : Len(SetToSeq(disk[j])) = 1
    BY <1>3, <2>5
  <2>8. Len(SetToSeq(disk[j])) = 0
    BY <2>6
  <2> QED
    BY <2>7, <2>8
<1>10. ToSet(s) = S
  <2>1. ToSet(s) = {s[k] : k \in 1..Len(s)}
    <3>1. DOMAIN s = 1..Len(s)
      BY <1>2 DEF Listed
    <3> QED
      BY <3>1 DEF ToSet
  <2>2. \A k \in 1..Len(s) : s[k] \in S
    BY <1>2 DEF S
  <2>3. \A x \in S : \E k \in 1..Len(s) : s[k] = x
    BY <1>8 DEF S
  <2> QED
    BY <2>1, <2>2, <2>3
<1> QED
  BY <1>2, <1>8, <1>9, <1>10 DEF S

(* A file is the whole receipt of its record. *)
LEMMA FileWhole ==
    ASSUME FilesProper, SoundInv, NEW i \in 1..MaxRecords, NEW r \in disk[i]
    PROVE  /\ i \in Nat \ {0} /\ i \in 1..Len(lines) /\ disk[i] = {r}
           /\ \E size \in Nat \ {0} : Whole(r, lines[i], size)
           /\ Leaf(lines[i], i) /\ r.core = lines[i] /\ r.core.record_id = i
<1>1. r.core.record_id = i /\ disk[i] = {r} /\ MaxRecords \in Nat
  BY WorkspaceAssumption DEF FilesProper
<1>2. PICK j \in 1..Len(lines), size \in Nat \ {0} : Whole(r, lines[j], size)
  BY DEF SoundInv, Sound
<1>3. Leaf(lines[j], j) /\ r.core = lines[j]
  BY <1>2 DEF SoundInv, Whole
<1>4. j = i
  <2>1. PICK e : lines[j] = changeCore(plane, j, e, {DEFAULT_POLICY})
    BY <1>3 DEF Leaf
  <2>2. lines[j].record_id = j
    BY <2>1 DEF changeCore
  <2> QED
    BY <1>1, <1>3, <2>2
<1> QED
  BY <1>1, <1>2, <1>3, <1>4

LEMMA PinnedOptions ==
    /\ \A o \in {Options0, pinned(Options0)} :
          /\ o.quoteVerifier = {} /\ o.expectedMeasurement \in {{}, {"m"}}
          /\ o.requireHardware = FALSE /\ o.witnessThreshold = 0
    /\ \A n : \A o \in {[pinned(Options0) EXCEPT !.witnessThreshold = n]} :
          /\ o.quoteVerifier = {} /\ o.expectedMeasurement \in {{}, {"m"}}
          /\ o.requireHardware = FALSE /\ o.witnessThreshold = n
  BY PlaneParts DEF Options0, pinned

(* ... and it verifies, whatever number of its witnesses is asked for. *)
LEMMA FileVerifies ==
    ASSUME FilesProper, SoundInv, NEW i \in 1..MaxRecords, NEW r \in disk[i]
    PROVE  /\ verifyReceiptV2(r, Options0).ok /\ verifyReceiptV2(r, pinned(Options0)).ok
           /\ \A sth \in r.sth : verifyReceiptV2(r,
                 [pinned(Options0) EXCEPT !.witnessThreshold = Len(sth.witnesses)]).ok
           /\ countWitnesses(r) = Len(Some(r.sth).witnesses)
<1>1. Leaf(lines[i], i)
  BY FileWhole
<1>2. PICK size \in Nat \ {0} : Whole(r, lines[i], size)
  BY FileWhole
<1>3. countWitnesses(r) = Len(Some(r.sth).witnesses) /\ Len(Some(r.sth).witnesses) \in Nat
  BY <1>2, AllCount
<1>5. ASSUME NEW o \in {Options0, pinned(Options0)} PROVE verifyReceiptV2(r, o).ok
  <2>1. 0 \in Nat /\ 0 <= Len(Some(r.sth).witnesses)
    BY <1>3
  <2>2. /\ o.quoteVerifier = {} /\ o.expectedMeasurement \in {{}, {"m"}}
        /\ o.requireHardware = FALSE /\ o.witnessThreshold = 0
    BY PinnedOptions
  <2> QED
    BY <1>1, <1>2, <2>1, <2>2, WholeVerifies
<1>4. ASSUME NEW sth \in r.sth
      PROVE  verifyReceiptV2(r, [pinned(Options0) EXCEPT !.witnessThreshold = Len(sth.witnesses)]).ok
  <2>1. r.sth = {sth}
    BY <1>2 DEF Whole
  <2>2. Some(r.sth) = sth
    BY <2>1, OneOf
  <2>3. PICK n \in Nat : n = Len(sth.witnesses) /\ n <= Len(Some(r.sth).witnesses)
    BY <1>3, <2>2
  <2>4. PICK o : o = [pinned(Options0) EXCEPT !.witnessThreshold = n]
    OBVIOUS
  <2>5. /\ o.quoteVerifier = {} /\ o.expectedMeasurement \in {{}, {"m"}}
        /\ o.requireHardware = FALSE /\ o.witnessThreshold = n
    BY <2>4, PinnedOptions
  <2>6. verifyReceiptV2(r, o).ok
    BY <1>1, <1>2, <2>3, <2>5, WholeVerifies
  <2> QED
    BY <2>3, <2>4, <2>6
<1> QED
  BY <1>3, <1>4, <1>5

(* The clauses that every record of a change counts for. *)
LEMMA FileCounts ==
    ASSUME FilesProper, SoundInv, NEW i \in 1..MaxRecords, NEW r \in disk[i],
           NEW clause \in {"dpdp-8", "iso-42001-9", "soc2-cc7"}
    PROVE  counts(clause, r)
<1>1. Leaf(lines[i], i) /\ r.core = lines[i] /\ \E size : Whole(r, lines[i], size)
  BY FileWhole
<1>2. PICK e, core : core = changeCore(plane, i, e, {DEFAULT_POLICY}) /\ r.core = core
  BY <1>1 DEF Leaf
<1>3. CoreOf(core, i, e)
  BY <1>2, CoreParts
<1>4. r.core.runtime.tee_quote # {}
  BY <1>2, <1>3, PlaneParts, ZenonT(60) DEF CoreOf
<1>5. \E c \in r.core.change : c.approval # {}
  BY <1>2, <1>3 DEF CoreOf
<1>6. r.inclusion # {}
  BY <1>1 DEF Whole
<1> QED
  BY <1>4, <1>5, <1>6 DEF counts

(* A pack of the files is complete. *)
LEMMA PackComplete ==
    ASSUME FilesProper, SoundInv, NEW pack, pack = packBuild,
           NEW verdict, verdict = verifyAuditPack(pack, Options0)
    PROVE  /\ packVerify(verdict) = (IF pack.records = {} THEN 1 ELSE 0)
           /\ \A clause \in {"dpdp-8", "iso-42001-9", "soc2-cc7"} :
                 verdict.obligations[clause] = Cardinality(pack.records)
           /\ verdict.witnesses = MapThenSumSet(LAMBDA r : Len(Some(r.sth).witnesses), pack.records)
<1>1. PICK all : all = ToSet(loadReceipts)
  OBVIOUS
<1>2. all = UNION {disk[i] : i \in 1..MaxRecords}
  BY <1>1, LoadedAll
<1>3. \A r \in all : \E i \in 1..MaxRecords : r \in disk[i]
  BY <1>2
<1>4. pack.records = all
  <2>1. PICK cov : cov = coverage(all)
    OBVIOUS
  <2>2. pack = [records |-> all, obligations |-> cov]
    BY <1>1, <2>1, Zenon DEF packBuild, buildAuditPack
  <2> QED
    BY <2>2
<1> DEFINE verified == {r \in all : verifyReceiptV2(r, Options0).ok}
<1>5. verified = all
  BY <1>3, FileVerifies
<1>6. PICK ok, sum, cov : /\ ok = (verified = all /\ all # {})
                          /\ sum = MapThenSumSet(countWitnesses, all) /\ cov = coverage(all)
  OBVIOUS
<1> HIDE DEF verified
<1>7. verdict = [ok |-> ok, witnesses |-> sum, obligations |-> cov]
  BY <1>4, <1>6, Zenon DEF verifyAuditPack, verified
<1>8. verdict.ok = ok /\ verdict.witnesses = sum /\ verdict.obligations = cov
  BY <1>7
<1>9. packVerify(verdict) = (IF all = {} THEN 1 ELSE 0)
  <2>1. ok <=> all # {}
    BY <1>5, <1>6
  <2> QED
    BY <1>8, <2>1 DEF packVerify
<1>10. ASSUME NEW clause \in {"dpdp-8", "iso-42001-9", "soc2-cc7"}
       PROVE  verdict.obligations[clause] = Cardinality(all)
  <2>1. {r \in all : counts(clause, r)} = all
    BY <1>3, FileCounts
  <2>2. clause \in OBLIGATIONS
    BY DEF OBLIGATIONS
  <2>3. coverage(all)[clause] = Cardinality({r \in all : counts(clause, r)})
    BY <2>2 DEF coverage
  <2> QED
    BY <1>6, <1>8, <2>1, <2>3
<1>11. sum = MapThenSumSet(LAMBDA r : Len(Some(r.sth).witnesses), all)
  <2>1. \A r \in all : countWitnesses(r) = Len(Some(r.sth).witnesses)
    BY <1>3, FileVerifies
  <2> QED
    BY <1>6, <2>1, SumsAlike
<1> QED
  BY <1>4, <1>8, <1>9, <1>10, <1>11

(* What disclose() returns for the receipt of a record passes --check.     *)
LEMMA DisclosedChecks ==
    ASSUME FilesProper, SoundInv, NEW i \in 1..MaxRecords, NEW r \in disk[i],
           NEW f, NEW v, NEW d \in disclose(r, f, v)
    PROVE  d.record_id = i /\ discloseCheck(d) = 0
<1>1. /\ \E size : Whole(r, lines[i], size)
      /\ Leaf(lines[i], i) /\ r.core = lines[i] /\ r.core.record_id = i /\ disk[i] = {r}
  BY FileWhole
<1>2. PICK e : CoreOf(r.core, i, e)
  BY <1>1, CoreParts DEF Leaf
<1>3. PICK c \in fieldOf(r, f) :
        /\ c.hash = {saltedCommit(Some(c.salt), v)}
        /\ d = [record_id |-> r.core.record_id, binding_hash |-> r.binding_hash, field |-> f,
                value |-> v, salt |-> Some(c.salt)]
  BY Zenon DEF disclose
<1>4. PICK X : c = commit(i, f, X) /\ f \in DOMAIN r.core.commitments
  BY <1>2 DEF fieldOf, CoreOf
<1>5. c.salt = {Some(c.salt)}
  <2>1. c.hash = {saltedCommit(<<i, f>>, x) : x \in X} /\ c.salt = {<<i, f>> : x \in X}
    BY <1>4 DEF commit
  <2>2. X # {}
    BY <1>3, <2>1
  <2>3. c.salt = {<<i, f>>}
    BY <2>1, <2>2
  <2> QED
    BY <2>3, OneOf
<1>6. /\ d.record_id = r.core.record_id /\ d.binding_hash = r.binding_hash
      /\ d.field = f /\ d.value = v /\ d.salt = Some(c.salt)
  <2>1. PICK id, b, s : id = r.core.record_id /\ b = r.binding_hash /\ s = Some(c.salt)
    OBVIOUS
  <2>2. d = [record_id |-> id, binding_hash |-> b, field |-> f, value |-> v, salt |-> s]
    BY <1>3, <2>1, Zenon
  <2> QED
    BY <2>1, <2>2
<1>7. verifyDisclosure(r, d)
  <2>1. c \in fieldOf(r, d.field) /\ c.salt = {d.salt} /\ c.hash = {saltedCommit(d.salt, d.value)}
    BY <1>3, <1>5, <1>6, Zenon
  <2> QED
    BY <1>6, <2>1, Zenon DEF verifyDisclosure
<1>8. r \in {x \in ToSet(loadReceipts) : x.core.record_id = d.record_id}
  <2>1. r \in ToSet(loadReceipts)
    BY LoadedAll
  <2> QED
    BY <1>6, <2>1
<1> QED
  BY <1>1, <1>6, <1>7, <1>8, Zenon DEF discloseCheck

(* cool disclose of a record with a file works on that file.               *)
LEMMA FileDisclosed ==
    ASSUME FilesProper, NEW i \in 1..MaxRecords, NEW r \in disk[i], NEW f, NEW v
    PROVE  discloseCommand(i, f, v) = disclose(r, f, v)
<1>1. PICK s : s = loadReceipts
  OBVIOUS
<1>2. /\ Len(s) \in Nat
      /\ \A k \in 1..Len(s) : s[k].core.record_id \in 1..MaxRecords
                              /\ s[k] \in disk[s[k].core.record_id]
      /\ \E k \in 1..Len(s) : s[k] = r
  BY <1>1, LoadedAll
<1>3. disk[i] = {r} /\ r.core.record_id = i /\ i # LAST
  BY DEF FilesProper, LAST
<1> DEFINE entry == {s[k] : k \in {k \in 1..Len(s) :
                        IF i = LAST THEN k = Len(s) ELSE s[k].core.record_id = i}}
<1>4. entry = {r}
  BY <1>2, <1>3
<1>5. discloseCommand(i, f, v) = UNION {disclose(x, f, v) : x \in entry}
  BY <1>1, Zenon DEF discloseCommand
<1> HIDE DEF entry
<1> QED
  BY <1>4, <1>5

(* A value can be disclosed and checked exactly if it was committed to.    *)
LEMMA DisclosedExactly ==
    ASSUME FilesProper, SoundInv, NEW i \in 1..MaxRecords, NEW r \in disk[i],
           NEW f \in DOMAIN r.core.commitments, NEW v
    PROVE  (\E d \in discloseCommand(i, f, v) : discloseCheck(d) = 0)
              <=> saltedCommit(<<i, f>>, v) \in r.core.commitments[f].hash
<1>1. Leaf(lines[i], i) /\ r.core = lines[i]
  BY FileWhole
<1>2. PICK e : CoreOf(r.core, i, e) /\ Given(e)
  BY <1>1, CoreParts DEF Leaf
<1>3. PICK c, X : /\ c = r.core.commitments[f] /\ c = commit(i, f, X)
                  /\ \A x, y \in X : x = y
  BY <1>2 DEF CoreOf, Given
<1>4. c.hash = {saltedCommit(<<i, f>>, x) : x \in X} /\ c.salt = {<<i, f>> : x \in X}
  BY <1>3 DEF commit
<1>5. fieldOf(r, f) = IF c.hash # {} THEN {c} ELSE {}
  BY <1>3 DEF fieldOf
<1>6. ASSUME saltedCommit(<<i, f>>, v) \in c.hash
      PROVE  \E d \in disclose(r, f, v) : TRUE
  <2>1. PICK x : X = {x} /\ saltedCommit(<<i, f>>, v) = saltedCommit(<<i, f>>, x)
    BY <1>3, <1>4, <1>6
  <2>2. c.hash = {saltedCommit(<<i, f>>, v)} /\ c.salt = {<<i, f>>}
    BY <1>4, <2>1
  <2>3. Some(c.salt) = <<i, f>>
    BY <2>2, OneOf
  <2>4. c \in fieldOf(r, f) /\ c.hash = {saltedCommit(Some(c.salt), v)}
    BY <1>5, <2>2, <2>3
  <2> QED
    BY <2>4, Zenon DEF disclose
<1>7. ASSUME NEW d \in disclose(r, f, v)
      PROVE  saltedCommit(<<i, f>>, v) \in c.hash
  <2>1. c \in fieldOf(r, f) /\ c.hash = {saltedCommit(Some(c.salt), v)}
    BY <1>5 DEF disclose
  <2>2. X # {}
    BY <1>4, <2>1
  <2>3. c.salt = {<<i, f>>}
    BY <1>4, <2>2
  <2>4. Some(c.salt) = <<i, f>>
    BY <2>3, OneOf
  <2> QED
    BY <2>1, <2>4
<1>8. \A d \in disclose(r, f, v) : discloseCheck(d) = 0
  BY DisclosedChecks
<1>9. discloseCommand(i, f, v) = disclose(r, f, v)
  BY FileDisclosed
<1> QED
  BY <1>3, <1>6, <1>7, <1>8, <1>9, Zenon

(* What is disclosed of the last record is about the last one that has a file. *)
LEMMA LastDisclosed ==
    ASSUME FilesProper, SoundInv, NEW f, NEW v, NEW d \in discloseCommand(LAST, f, v)
    PROVE  discloseCheck(d) = 0 /\ \A i \in (d.record_id + 1)..MaxRecords : disk[i] = {}
<1>1. PICK s : s = loadReceipts
  OBVIOUS
<1>2. /\ Len(s) \in Nat
      /\ \A k \in 1..Len(s) : s[k].core.record_id \in 1..MaxRecords
                              /\ s[k] \in disk[s[k].core.record_id]
      /\ Len(s) # 0 => \A i \in (s[Len(s)].core.record_id + 1)..MaxRecords : disk[i] = {}
  BY <1>1, LoadedAll
<1> DEFINE entry == {s[k] : k \in {k \in 1..Len(s) :
                        IF LAST = LAST THEN k = Len(s) ELSE s[k].core.record_id = LAST}}
<1>3. discloseCommand(LAST, f, v) = UNION {disclose(x, f, v) : x \in entry}
  BY <1>1, Zenon DEF discloseCommand
<1>4. \A x \in entry : Len(s) \in 1..Len(s) /\ x = s[Len(s)]
  OBVIOUS
<1> HIDE DEF entry
<1>5. PICK r : r = s[Len(s)] /\ Len(s) \in 1..Len(s) /\ d \in disclose(r, f, v)
  BY <1>3, <1>4
<1>6. PICK i \in 1..MaxRecords : i = r.core.record_id /\ r \in disk[i]
  BY <1>2, <1>5
<1>7. d.record_id = i /\ discloseCheck(d) = 0
  BY <1>5, <1>6, DisclosedChecks
<1> QED
  BY <1>2, <1>5, <1>6, <1>7

(* Whatever commands have rewritten, on however many branches of the log,  *)
(* a file that can be read is the record that was sealed, verifies with    *)
(* every witness it lists under the measurement of the machine, discloses  *)
(* what was committed to and nothing else, and a pack of the files is      *)
(* complete: for any number of processes, records, witnesses, calendars,   *)
(* crashes and commands (saveReceipt(), attachWitness(), attachAnchor()).  *)
THEOREM ReceiptsStayValidHolds == Spec => []ReceiptsStayValid
<1>1. FilesProper /\ SoundInv => ReceiptsStayValid
  <2> SUFFICES ASSUME FilesProper, SoundInv PROVE ReceiptsStayValid
    OBVIOUS
  <2>1. verifyAll(Options0) = 0
    BY FileVerifies DEF verifyAll
  <2>2. \A pack \in {packBuild} : \A verdict \in {verifyAuditPack(pack, Options0)} :
           /\ packVerify(verdict) = (IF pack.records = {} THEN 1 ELSE 0)
           /\ \A clause \in {"dpdp-8", "iso-42001-9", "soc2-cc7"} :
                 verdict.obligations[clause] = Cardinality(pack.records)
           /\ verdict.witnesses = MapThenSumSet(LAMBDA r : Len(Some(r.sth).witnesses), pack.records)
    <3> TAKE pack \in {packBuild}
    <3> TAKE verdict \in {verifyAuditPack(pack, Options0)}
    <3>1. pack = packBuild /\ verdict = verifyAuditPack(pack, Options0)
      OBVIOUS
    <3> QED
      BY <3>1, PackComplete
  <2>3. ASSUME NEW i \in 1..MaxRecords, NEW r \in disk[i]
        PROVE  /\ r.core = lines[i]
               /\ \A sth \in r.sth :
                     verifyReceiptV2(r, [pinned(Options0) EXCEPT
                                           !.witnessThreshold = Len(sth.witnesses)]).ok
               /\ \A f \in DOMAIN r.core.commitments, e \in Events :
                     (\E d \in discloseCommand(i, f, e.after) : discloseCheck(d) = 0)
                         <=> saltedCommit(<<i, f>>, e.after) \in r.core.commitments[f].hash
    BY FileWhole, FileVerifies, DisclosedExactly
  <2>4. \A e \in Events : \A d \in discloseCommand(LAST, "change.after", e.after) :
          discloseCheck(d) = 0 /\ \A i \in (d.record_id + 1)..MaxRecords : disk[i] = {}
    BY LastDisclosed
  <2> QED
    BY <2>1, <2>2, <2>3, <2>4, Zenon DEF ReceiptsStayValid
<1> QED
  BY <1>1, KeepInvariance, SoundInvariance, PTL DEF KeepInv
=============================================================================
