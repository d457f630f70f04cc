---------------------------- MODULE RealtimeProofs ----------------------------
(***************************************************************************)
(* Proofs about Blocks, for any number of members, messages, changes and   *)
(* failures of Redis, and about Presence, for any number of sockets,       *)
(* encounters and notices and any length of the queue; and, from these     *)
(* and the proofs about the client's parts, about Realtime, which has all  *)
(* of them side by side.                                                   *)
(***************************************************************************)
EXTENDS Realtime, ClientProofs, DuelClientProofs, FiniteSetTheorems, TLAPS

-----------------------------------------------------------------------------
(* Blocks: who had blocked the sender before his message was taken up is on the list the  *)
(* message is sent with.                                                                  *)
(*                                                                                        *)
(* The argument follows the version.  A list read under a version that is still the       *)
(* present one lacks only members whose block has not yet moved the version, and no       *)
(* message counts on these; so what is stored in time lacks only members whose change is  *)
(* still under way, and their change deletes the list before it ends.                     *)

RelayRecord == [phase : {"idle", "cache", "version", "rows", "compare", "store", "send"},
          before : Nat, at : Nat, ids : SUBSET Members, sure : SUBSET Members, raced : BOOLEAN]

StateTyped ==
  /\ blocks \subseteq Members /\ unheard \subseteq Members /\ raced \in BOOLEAN /\ version \in Nat
  /\ cached \in (SUBSET Members) \union {Uncached}
  /\ change \in [Members -> {"idle", "announce", "finish"}]
  /\ relay \in [Relays -> RelayRecord]

Counted(m) == \E r \in Relays : m \in relay[r].sure

(* A message counts only on blocks that are in force. *)
SureIsBlocked == \A r \in Relays : relay[r].sure \subseteq blocks

(* A list in the cache lacks no block but those whose change is still under way.          *)
CacheLacksNone ==
  cached # Uncached /\ ~raced =>
    \A m \in blocks \ (unheard \union cached) : change[m] # "idle" /\ ~Counted(m)

(* A list that is about to be stored lacks no block but those that have not yet moved the *)
(* version.                                                                               *)
UpToDate(r) == relay[r].before = version
ReadLacksNone ==
  \A r \in Relays :
    /\ relay[r].before <= version
    /\ relay[r].phase = "store" => relay[r].at = relay[r].before
    /\ relay[r].phase \in {"compare", "store"} /\ UpToDate(r) =>
         \A m \in blocks \ (unheard \union relay[r].ids) : change[m] = "announce" /\ ~Counted(m)

(* A list from the table has everyone the message counts on. *)
RowsSuffice ==
  \A r \in Relays : relay[r].phase \in {"compare", "store"} => relay[r].sure \subseteq relay[r].ids

BlocksInv == StateTyped /\ SureIsBlocked /\ CacheLacksNone /\ ReadLacksNone /\ RowsSuffice /\ BlockedHearNothing

-----------------------------------------------------------------------------
LEMMA UncachedIsNoList == Uncached \notin SUBSET Members
  BY BlocksAssumption DEF Uncached

LEMMA BlocksInitially == BlocksInit => BlocksInv
<1> SUFFICES ASSUME BlocksInit PROVE BlocksInv
  OBVIOUS
<1>1. StateTyped
  <2>1. Silent \in RelayRecord
    BY DEF Silent, RelayRecord
  <2>2. raced \in BOOLEAN
    BY Zenon DEF BlocksInit
  <2> QED
    BY <2>1, <2>2 DEF BlocksInit, StateTyped
<1> QED
  BY <1>1 DEF BlocksInit, BlocksInv, SureIsBlocked, CacheLacksNone, ReadLacksNone, RowsSuffice, BlockedHearNothing,
              Silent, Counted, UpToDate

-----------------------------------------------------------------------------
(* Steps of the members.                                                                  *)
LEMMA BlockKeeps ==
  ASSUME BlocksInv, NEW m \in Members, Block(m)
  PROVE  BlocksInv'
<1> USE DEF BlocksInv
<1>1. /\ blocks' = blocks \union {m} /\ change' = [change EXCEPT ![m] = "announce"]
      /\ UNCHANGED <<version, cached, relay, raced, unheard>> /\ change[m] = "idle"
  BY DEF Block
<1>2. change'[m] = "announce" /\ \A n \in Members \ {m} : change'[n] = change[n]
  BY <1>1 DEF StateTyped
<1>3. StateTyped' /\ SureIsBlocked' /\ RowsSuffice' /\ BlockedHearNothing'
  BY <1>1 DEF StateTyped, SureIsBlocked, RowsSuffice, BlockedHearNothing
<1>4. m \notin blocks => ~Counted(m)
  BY DEF SureIsBlocked, Counted
<1>5. CacheLacksNone'
  BY <1>1, <1>2, <1>4 DEF CacheLacksNone, Counted, StateTyped
<1>6. ReadLacksNone'
  BY <1>1, <1>2, <1>4 DEF ReadLacksNone, UpToDate, Counted, StateTyped
<1> QED
  BY <1>3, <1>5, <1>6

LEMMA UnblockKeeps ==
  ASSUME BlocksInv, NEW m \in Members, Unblock(m)
  PROVE  BlocksInv'
<1> USE DEF BlocksInv
<1>1. /\ blocks' = blocks \ {m} /\ change' = [change EXCEPT ![m] = "announce"]
      /\ UNCHANGED <<version, cached, raced, unheard>>
  BY DEF Unblock
<1>2. change'[m] = "announce" /\ \A n \in Members \ {m} : change'[n] = change[n]
  BY <1>1 DEF StateTyped
<1>3. \A r \in Relays : /\ relay'[r].sure = relay[r].sure \ {m} /\ relay'[r].ids = relay[r].ids
                        /\ relay'[r].phase = relay[r].phase /\ relay'[r].before = relay[r].before
                        /\ relay'[r].at = relay[r].at /\ relay'[r].raced = relay[r].raced
                        /\ relay'[r] \in RelayRecord
  BY DEF Unblock, StateTyped, RelayRecord
<1>4. \A n \in Members : Counted(n)' => Counted(n)
  BY <1>3 DEF Counted
<1>5. StateTyped'
  <2>1. relay' \in [Relays -> RelayRecord]
    BY <1>3 DEF Unblock
  <2> QED
    BY <1>1, <2>1 DEF StateTyped
<1>6. SureIsBlocked' /\ RowsSuffice' /\ BlockedHearNothing'
  BY <1>1, <1>3 DEF SureIsBlocked, RowsSuffice, BlockedHearNothing
<1>7. CacheLacksNone'
  BY <1>1, <1>2, <1>4 DEF CacheLacksNone, StateTyped
<1>8. ReadLacksNone'
  BY <1>1, <1>2, <1>3, <1>4 DEF ReadLacksNone, UpToDate, StateTyped
<1> QED
  BY <1>5, <1>6, <1>7, <1>8

LEMMA AnnounceKeeps ==
  ASSUME BlocksInv, NEW m \in Members, AnnounceFirst(m) \/ AnnounceSecond(m) \/ AnnounceFails(m)
  PROVE  BlocksInv'
<1> USE DEF BlocksInv
<1>0. UNCHANGED <<blocks, relay>> /\ \A n \in Members : Counted(n)' <=> Counted(n)
  BY DEF AnnounceFirst, AnnounceSecond, AnnounceFails, Counted
<1>1. SureIsBlocked' /\ RowsSuffice'
  BY <1>0 DEF SureIsBlocked, RowsSuffice
<1>2. CASE AnnounceFirst(m)
  <2>1. /\ version' = version + 1 /\ UNCHANGED <<cached, raced, unheard>>
        /\ change' = [change EXCEPT ![m] = "finish"]
    BY <1>2 DEF AnnounceFirst, Announce, Order
  <2>2. change'[m] = "finish" /\ \A n \in Members \ {m} : change'[n] = change[n]
    BY <2>1 DEF StateTyped
  <2>3. StateTyped' /\ BlockedHearNothing'
    BY <1>0, <2>1 DEF StateTyped, BlockedHearNothing
  <2>4. CacheLacksNone'
    BY <1>0, <2>1, <2>2 DEF CacheLacksNone, StateTyped
  <2>5. ReadLacksNone'
    <3>1. \A r \in Relays : relay[r].before \in Nat /\ version \in Nat
      BY DEF StateTyped, RelayRecord
    <3> QED
      BY <1>0, <2>1, <3>1 DEF ReadLacksNone, UpToDate
  <2> QED
    BY <1>1, <2>3, <2>4, <2>5
<1>3. CASE AnnounceSecond(m)
  <2>1. /\ cached' = Uncached /\ raced' = FALSE /\ UNCHANGED <<version, unheard>>
        /\ change' = [change EXCEPT ![m] = "idle"] /\ change[m] = "finish"
    BY <1>3 DEF AnnounceSecond, Announce, Order
  <2>2. change'[m] = "idle" /\ \A n \in Members \ {m} : change'[n] = change[n]
    BY <2>1 DEF StateTyped
  <2>3. StateTyped'
    <3>1. raced' \in BOOLEAN
      BY <2>1, Zenon
    <3> QED
      BY <1>0, <2>1, <3>1 DEF StateTyped
  <2>5. BlockedHearNothing' /\ CacheLacksNone'
    BY <1>0, <2>1 DEF BlockedHearNothing, CacheLacksNone
  <2>4. ReadLacksNone'
    BY <1>0, <2>1, <2>2 DEF ReadLacksNone, UpToDate, StateTyped
  <2> QED
    BY <1>1, <2>3, <2>4, <2>5
<1>4. CASE AnnounceFails(m)
  <2>1. /\ unheard' = unheard \union {m} /\ UNCHANGED <<version, cached, raced>>
        /\ change' = [change EXCEPT ![m] = "idle"]
    BY <1>4 DEF AnnounceFails
  <2>2. change'[m] = "idle" /\ \A n \in Members \ {m} : change'[n] = change[n]
    BY <2>1 DEF StateTyped
  <2>3. StateTyped' /\ BlockedHearNothing'
    BY <1>0, <2>1 DEF StateTyped, BlockedHearNothing
  <2>4. CacheLacksNone' /\ ReadLacksNone'
    BY <1>0, <2>1, <2>2 DEF CacheLacksNone, ReadLacksNone, UpToDate, StateTyped
  <2> QED
    BY <1>1, <2>3, <2>4
<1> QED
  BY <1>2, <1>3, <1>4

-----------------------------------------------------------------------------
(* Steps of a message: when the blocks and their changes stay, and it counts on no one it *)
(* did not count on before, only what it then holds is to be shown.                       *)
LEMMA OneRelayMoves ==
  ASSUME BlocksInv, NEW r \in Relays, NEW q \in RelayRecord,
         relay' = [relay EXCEPT ![r] = q],
         UNCHANGED <<blocks, version, cached, change, raced, unheard>>,
         q.sure \subseteq relay[r].sure \/ q.sure = InForce,
         q.before <= version,
         q.phase = "store" => q.at = q.before,
         q.phase \in {"compare", "store"} => q.sure \subseteq q.ids,
         q.phase \in {"compare", "store"} /\ q.before = version =>
            \A m \in blocks \ (unheard \union q.ids) : change[m] = "announce" /\ ~Counted(m),
         q.phase \in {"compare", "store"} => q.sure \subseteq relay[r].sure,
         q.phase = "send" /\ ~q.raced => q.sure \ unheard \subseteq q.ids
  PROVE  BlocksInv'
<1> USE DEF BlocksInv
<1>1. relay'[r] = q /\ (\A o \in Relays \ {r} : relay'[o] = relay[o]) /\ relay' \in [Relays -> RelayRecord]
  BY DEF StateTyped
<1>2. \A m \in Members : Counted(m)' => Counted(m) \/ (m \in blocks /\ change[m] = "idle")
  BY <1>1 DEF Counted, InForce
<1>3. StateTyped'
  BY <1>1 DEF StateTyped
<1>4. SureIsBlocked'
  BY <1>1 DEF SureIsBlocked, InForce
<1>5. CacheLacksNone'
  BY <1>2 DEF CacheLacksNone, StateTyped
<1>6. ReadLacksNone'
  <2> SUFFICES ASSUME NEW o \in Relays
               PROVE  /\ relay'[o].before <= version
                      /\ relay'[o].phase = "store" => relay'[o].at = relay'[o].before
                      /\ relay'[o].phase \in {"compare", "store"} /\ relay'[o].before = version =>
                           \A m \in blocks \ (unheard \union relay'[o].ids) : change[m] = "announce" /\ ~Counted(m)'
    BY DEF ReadLacksNone, UpToDate
  <2>1. CASE o = r
    BY <2>1, <1>1, <1>2 DEF StateTyped
  <2>2. CASE o # r
    BY <2>2, <1>1, <1>2 DEF ReadLacksNone, UpToDate, StateTyped
  <2> QED
    BY <2>1, <2>2
<1>7. RowsSuffice' /\ BlockedHearNothing'
  BY <1>1 DEF RowsSuffice, BlockedHearNothing
<1> QED
  BY <1>3, <1>4, <1>5, <1>6, <1>7

(* Of a list that came from the cache.                                                    *)
LEMMA CacheReadKeeps ==
  ASSUME BlocksInv, NEW r \in Relays, ReadCache(r)
  PROVE  BlocksInv'
<1> USE DEF BlocksInv
<1>1. relay[r] \in RelayRecord /\ UNCHANGED <<blocks, version, cached, change, raced, unheard>> /\ relay[r].before <= version
  BY DEF ReadCache, StateTyped, ReadLacksNone
<1>2. CASE cached # Uncached /\ relay' = [relay EXCEPT ![r].phase = "send", ![r].ids = cached, ![r].raced = raced]
  <2>1. PICK q \in RelayRecord : /\ relay' = [relay EXCEPT ![r] = q]
                           /\ q.phase = "send" /\ q.ids = cached /\ q.raced = raced
                           /\ q.sure = relay[r].sure /\ q.before = relay[r].before
    <3> DEFINE q == [relay[r] EXCEPT !.phase = "send", !.ids = cached, !.raced = raced]
    <3>1. cached \in SUBSET Members /\ raced \in BOOLEAN
      BY <1>2 DEF StateTyped
    <3>2. q \in RelayRecord /\ q.phase = "send" /\ q.ids = cached /\ q.raced = raced
                     /\ q.sure = relay[r].sure /\ q.before = relay[r].before
      BY <1>1, <3>1 DEF RelayRecord
    <3>3. relay' = [relay EXCEPT ![r] = q]
      BY <1>2
    <3> HIDE DEF q
    <3> QED
      BY <3>2, <3>3
  <2>2. ~raced => relay[r].sure \ unheard \subseteq cached
    BY <1>2, <1>1 DEF CacheLacksNone, SureIsBlocked, Counted
  <2> QED
    BY <1>1, <2>1, <2>2, OneRelayMoves
<1>3. ASSUME NEW f \in {"version", "rows"}, relay' = [relay EXCEPT ![r].phase = f]
      PROVE  BlocksInv'
  <2> DEFINE q == [relay[r] EXCEPT !.phase = f]
  <2>1. q \in RelayRecord /\ q.phase = f /\ q.sure = relay[r].sure /\ q.before = relay[r].before
    BY <1>1, <1>3 DEF RelayRecord
  <2>2. relay' = [relay EXCEPT ![r] = q]
    BY <1>3
  <2> HIDE DEF q
  <2> QED
    BY <1>1, <2>1, <2>2, OneRelayMoves
<1> QED
  BY <1>2, <1>3 DEF ReadCache

(* Of a list that comes from the table.                                                   *)
LEMMA TableReadKeeps ==
  ASSUME BlocksInv, NEW r \in Relays, Hear(r) \/ ReadVersion(r) \/ ReadRows(r) \/ Compare(r) \/ Send(r)
  PROVE  BlocksInv'
<1> USE DEF BlocksInv
<1>1. /\ relay[r] \in RelayRecord /\ UNCHANGED <<blocks, version, cached, change, raced, unheard>>
      /\ relay[r].before <= version /\ relay[r].before \in Nat /\ version \in Nat
      /\ blocks \subseteq Members /\ relay[r].sure \subseteq blocks
  BY DEF Hear, ReadVersion, ReadRows, Compare, Send, StateTyped, ReadLacksNone, SureIsBlocked, RelayRecord
<1>2. ASSUME NEW q \in RelayRecord, relay' = [relay EXCEPT ![r] = q], q.phase \in {"cache", "idle", "rows"},
             q.sure \subseteq relay[r].sure \/ q.sure = InForce, q.before \in {0, version, relay[r].before}
      PROVE  BlocksInv'
  <2>1. q.before <= version /\ q.phase # "store" /\ q.phase # "send" /\ q.phase # "compare"
    BY <1>1, <1>2
  <2> QED
    BY <1>1, <1>2, <2>1, OneRelayMoves
<1>6. CASE Hear(r)
  <2> DEFINE q == [Silent EXCEPT !.phase = "cache", !.sure = InForce]
  <2>1. q \in RelayRecord /\ q.phase = "cache" /\ q.sure = InForce /\ q.before = 0
    BY <1>1 DEF Silent, RelayRecord, InForce
  <2>2. relay' = [relay EXCEPT ![r] = q]
    BY <1>6 DEF Hear
  <2> HIDE DEF q
  <2> QED
    BY <1>2, <2>1, <2>2
<1>7. CASE Send(r)
  <2>1. Silent \in RelayRecord /\ Silent.phase = "idle" /\ Silent.sure = {} /\ Silent.before = 0
    BY DEF Silent, RelayRecord
  <2>2. relay' = [relay EXCEPT ![r] = Silent]
    BY <1>7 DEF Send
  <2> QED
    BY <1>2, <2>1, <2>2
<1>3. CASE ReadVersion(r)
  <2>1. CASE relay' = [relay EXCEPT ![r].phase = "rows", ![r].before = version]
    <3> DEFINE q == [relay[r] EXCEPT !.phase = "rows", !.before = version]
    <3>1. q \in RelayRecord /\ q.phase = "rows" /\ q.sure = relay[r].sure /\ q.before = version
      BY <1>1 DEF RelayRecord
    <3>2. relay' = [relay EXCEPT ![r] = q]
      BY <2>1
    <3> HIDE DEF q
    <3> QED
      BY <1>2, <3>1, <3>2
  <2>2. CASE relay' = [relay EXCEPT ![r].phase = "rows"]
    <3> DEFINE q == [relay[r] EXCEPT !.phase = "rows"]
    <3>1. q \in RelayRecord /\ q.phase = "rows" /\ q.sure = relay[r].sure /\ q.before = relay[r].before
      BY <1>1 DEF RelayRecord
    <3>2. relay' = [relay EXCEPT ![r] = q]
      BY <2>2
    <3> HIDE DEF q
    <3> QED
      BY <1>2, <3>1, <3>2
  <2> QED
    BY <1>3, <2>1, <2>2 DEF ReadVersion
<1>4. CASE ReadRows(r)
  <2> DEFINE q == [relay[r] EXCEPT !.phase = "compare", !.ids = blocks]
  <2>1. q \in RelayRecord /\ q.phase = "compare" /\ q.sure = relay[r].sure /\ q.before = relay[r].before /\ q.ids = blocks
    BY <1>1 DEF RelayRecord
  <2>2. relay' = [relay EXCEPT ![r] = q]
    BY <1>4 DEF ReadRows
  <2> HIDE DEF q
  <2> QED
    BY <1>1, <2>1, <2>2, OneRelayMoves
<1>5. CASE Compare(r)
  <2>1. relay[r].phase = "compare" /\ relay[r].sure \subseteq relay[r].ids
    BY <1>5 DEF Compare, RowsSuffice
  <2>2. PICK q \in RelayRecord : /\ relay' = [relay EXCEPT ![r] = q]
                           /\ q.sure = relay[r].sure /\ q.before = relay[r].before /\ q.ids = relay[r].ids
                           /\ \/ q.phase = "send"
                              \/ q.phase = "store" /\ q.at = version /\ q.before = version
    <3>1. CASE relay' = [relay EXCEPT ![r].phase = IF SameVersion(r) THEN "store" ELSE "send", ![r].at = version]
      <4> DEFINE f == IF SameVersion(r) THEN "store" ELSE "send"
                 q == [relay[r] EXCEPT !.phase = f, !.at = version]
      <4>0. f = "send" \/ (f = "store" /\ relay[r].before = version)
        BY DEF SameVersion
      <4> HIDE DEF f
      <4>1. q \in RelayRecord /\ q.sure = relay[r].sure /\ q.before = relay[r].before /\ q.ids = relay[r].ids
            /\ q.at = version /\ q.phase = f
        BY <1>1, <4>0 DEF RelayRecord
      <4>2. relay' = [relay EXCEPT ![r] = q]
        BY <3>1 DEF f
      <4> HIDE DEF q
      <4> QED
        BY <4>0, <4>1, <4>2
    <3>2. CASE relay' = [relay EXCEPT ![r].phase = "send"]
      <4> DEFINE q == [relay[r] EXCEPT !.phase = "send"]
      <4>1. q \in RelayRecord /\ q.sure = relay[r].sure /\ q.before = relay[r].before /\ q.ids = relay[r].ids
            /\ q.phase = "send"
        BY <1>1 DEF RelayRecord
      <4>2. relay' = [relay EXCEPT ![r] = q]
        BY <3>2
      <4> HIDE DEF q
      <4> QED
        BY <4>1, <4>2
    <3> QED
      BY <1>5, <3>1, <3>2 DEF Compare
  <2>3. relay[r].before = version =>
          \A m \in blocks \ (unheard \union relay[r].ids) : change[m] = "announce" /\ ~Counted(m)
    BY <2>1 DEF ReadLacksNone, UpToDate
  <2> QED
    BY <1>1, <2>1, <2>2, <2>3, OneRelayMoves
<1> QED
  BY <1>3, <1>4, <1>5, <1>6, <1>7

(* A list that is stored while the version is the one compared lacks no one; one stored   *)
(* too late is known to be.                                                               *)
LEMMA StoreKeeps ==
  ASSUME BlocksInv, NEW r \in Relays, Store(r)
  PROVE  BlocksInv'
<1> USE DEF BlocksInv
<1>1. /\ relay[r] \in RelayRecord /\ relay[r].phase = "store" /\ relay[r].sure \subseteq relay[r].ids
      /\ relay[r].at = relay[r].before /\ relay[r].before <= version /\ UNCHANGED <<blocks, version, change, unheard>>
  BY DEF Store, StateTyped, RowsSuffice, ReadLacksNone
<1> DEFINE q == [relay[r] EXCEPT !.phase = "send"]
<1>2. /\ q \in RelayRecord /\ q.phase = "send" /\ q.sure = relay[r].sure /\ q.before = relay[r].before
      /\ q.ids = relay[r].ids
  BY <1>1 DEF RelayRecord
<1>3. relay' = [relay EXCEPT ![r] = q]
  BY DEF Store
<1> HIDE DEF q
<1>4. relay'[r] = q /\ (\A o \in Relays \ {r} : relay'[o] = relay[o]) /\ relay' \in [Relays -> RelayRecord]
  BY <1>2, <1>3 DEF StateTyped
<1>5. \A m \in Members : Counted(m)' <=> Counted(m)
  BY <1>2, <1>4 DEF Counted
<1>6. \/ cached' = relay[r].ids /\ raced' = (version # relay[r].at)
      \/ UNCHANGED <<cached, raced>>
  BY DEF Store
<1>7. StateTyped'
  <2>1. cached' \in (SUBSET Members) \union {Uncached} /\ raced' \in BOOLEAN
    BY <1>1, <1>6 DEF StateTyped, RelayRecord
  <2> QED
    BY <1>1, <1>4, <2>1 DEF StateTyped
<1>8. SureIsBlocked' /\ RowsSuffice' /\ BlockedHearNothing'
  BY <1>1, <1>2, <1>4 DEF SureIsBlocked, RowsSuffice, BlockedHearNothing
<1>9. CacheLacksNone'
  <2>1. CASE cached' = relay[r].ids /\ raced' = (version # relay[r].at)
    <3> SUFFICES ASSUME version = relay[r].at,
                        NEW m \in blocks \ (unheard \union relay[r].ids)
                 PROVE  change[m] # "idle" /\ ~Counted(m)'
      BY <1>1, <2>1 DEF CacheLacksNone
    <3>1. change[m] = "announce" /\ ~Counted(m)
      BY <1>1 DEF ReadLacksNone, UpToDate
    <3> QED
      BY <3>1, <1>5 DEF StateTyped
  <2>2. CASE UNCHANGED <<cached, raced>>
    BY <2>2, <1>1, <1>5 DEF CacheLacksNone, StateTyped
  <2> QED
    BY <1>6, <2>1, <2>2
<1>10. ReadLacksNone'
  <2> SUFFICES ASSUME NEW o \in Relays
               PROVE  /\ relay'[o].before <= version
                      /\ relay'[o].phase = "store" => relay'[o].at = relay'[o].before
                      /\ relay'[o].phase \in {"compare", "store"} /\ relay'[o].before = version =>
                           \A m \in blocks \ (unheard \union relay'[o].ids) : change[m] = "announce" /\ ~Counted(m)'
    BY <1>1 DEF ReadLacksNone, UpToDate
  <2>1. CASE o = r
    BY <2>1, <1>1, <1>2, <1>4
  <2>2. CASE o # r
    BY <2>2, <1>4, <1>5 DEF ReadLacksNone, UpToDate, StateTyped
  <2> QED
    BY <2>1, <2>2
<1> QED
  BY <1>7, <1>8, <1>9, <1>10

LEMMA BlocksInductive == BlocksInv /\ [BlocksNext]_blocksVars => BlocksInv'
<1> SUFFICES ASSUME BlocksInv, [BlocksNext]_blocksVars PROVE BlocksInv'
  OBVIOUS
<1>1. CASE CacheLapses
  <2>1. cached' = Uncached /\ raced' = FALSE /\ UNCHANGED <<blocks, version, change, relay, unheard>>
    BY <1>1 DEF CacheLapses
  <2>2. StateTyped'
    <3>1. raced' \in BOOLEAN
      BY <2>1, Zenon
    <3> QED
      BY <2>1, <3>1 DEF BlocksInv, StateTyped
  <2> QED
    BY <2>1, <2>2 DEF BlocksInv, SureIsBlocked, CacheLacksNone, ReadLacksNone, RowsSuffice, BlockedHearNothing,
                      UpToDate, Counted
<1>2. CASE UNCHANGED blocksVars
  BY <1>2 DEF blocksVars, BlocksInv, StateTyped, SureIsBlocked, CacheLacksNone, ReadLacksNone, RowsSuffice,
              BlockedHearNothing, UpToDate, Counted
<1> QED
  BY <1>1, <1>2, BlockKeeps, UnblockKeeps, AnnounceKeeps, CacheReadKeeps, TableReadKeeps, StoreKeeps DEF BlocksNext

-----------------------------------------------------------------------------
(* Who had blocked the sender before his message was taken up does not hear it, however   *)
(* blocks, messages and their cache interleave (getBlockedBy and handleChatMessage).      *)
THEOREM BlocksHold == BlocksSpec => []BlockedHearNothing
<1>1. BlocksInv => BlockedHearNothing
  BY DEF BlocksInv
<1> QED
  BY <1>1, BlocksInitially, BlocksInductive, PTL DEF BlocksSpec

-----------------------------------------------------------------------------
(* Types of Blocks.  The version stays within the changes of the bound, because each change *)
(* is paid for before it is announced: the changes left, those to be announced and those    *)
(* that have moved the version are never more than there were.                              *)
Announcing == {m \in Members : change[m] = "announce"}
VersionPaidFor ==
  /\ changes \in 0..MaxChanges /\ outages \in 0..MaxOutages /\ IsFiniteSet(Announcing)
  /\ version + Cardinality(Announcing) + changes <= MaxChanges
  /\ \A r \in Relays : relay[r].before <= MaxChanges /\ relay[r].at <= MaxChanges

LEMMA VersionWithin == BlocksInv /\ VersionPaidFor => version \in 0..MaxChanges
<1> SUFFICES ASSUME BlocksInv, VersionPaidFor PROVE version \in 0..MaxChanges
  OBVIOUS
<1>1. Cardinality(Announcing) \in Nat
  BY FS_CardinalityType DEF VersionPaidFor
<1>2. version \in Nat /\ MaxChanges \in Nat /\ changes \in Nat
  BY BlocksAssumption DEF BlocksInv, StateTyped, VersionPaidFor
<1>3. version + Cardinality(Announcing) + changes <= MaxChanges
  BY DEF VersionPaidFor
<1> QED
  BY <1>1, <1>2, <1>3

LEMMA PaidInitially == BlocksInit => VersionPaidFor
<1> SUFFICES ASSUME BlocksInit PROVE VersionPaidFor
  OBVIOUS
<1>1. Announcing = {}
  BY DEF BlocksInit, Announcing
<1>2. IsFiniteSet(Announcing) /\ Cardinality(Announcing) = 0
  BY <1>1, FS_EmptySet
<1>3. \A r \in Relays : relay[r].before = 0 /\ relay[r].at = 0
  BY DEF BlocksInit, Silent
<1> QED
  BY <1>2, <1>3, BlocksAssumption DEF BlocksInit, VersionPaidFor

(* A change that is begun is paid for.                                                      *)
LEMMA ChangePaid ==
  ASSUME BlocksInv, VersionPaidFor, NEW m \in Members, Block(m) \/ Unblock(m) PROVE VersionPaidFor'
<1>1. /\ change[m] = "idle" /\ change' = [change EXCEPT ![m] = "announce"]
      /\ changes > 0 /\ changes' = changes - 1 /\ version' = version /\ outages' = outages
  BY DEF Block, Unblock
<1>2. change \in [Members -> {"idle", "announce", "finish"}] /\ relay \in [Relays -> RelayRecord]
      /\ version \in Nat
  BY DEF BlocksInv, StateTyped
<1>3. Announcing' = Announcing \union {m} /\ m \notin Announcing
  BY <1>1, <1>2 DEF Announcing
<1>4. IsFiniteSet(Announcing') /\ Cardinality(Announcing') = Cardinality(Announcing) + 1
  BY <1>3, FS_AddElement DEF VersionPaidFor
<1>5. Cardinality(Announcing) \in Nat
  BY FS_CardinalityType DEF VersionPaidFor
<1>6. version' + Cardinality(Announcing') + changes' <= MaxChanges
  BY <1>1, <1>2, <1>4, <1>5, BlocksAssumption DEF VersionPaidFor
<1>7. \A r \in Relays : relay'[r].before = relay[r].before /\ relay'[r].at = relay[r].at
  BY <1>2 DEF Block, Unblock, RelayRecord
<1>8. changes' \in 0..MaxChanges /\ outages' \in 0..MaxOutages
  BY <1>1, BlocksAssumption DEF VersionPaidFor
<1> QED
  BY <1>4, <1>6, <1>7, <1>8 DEF VersionPaidFor

(* What moves the version is no more to be announced, and what is given up is neither.      *)
LEMMA AnnouncementPaid ==
  ASSUME BlocksInv, VersionPaidFor, NEW m \in Members, AnnounceFirst(m) \/ AnnounceSecond(m) \/ AnnounceFails(m)
  PROVE  VersionPaidFor'
<1>1. change \in [Members -> {"idle", "announce", "finish"}] /\ version \in Nat
  BY DEF BlocksInv, StateTyped
<1>2. changes' = changes /\ relay' = relay
  BY DEF AnnounceFirst, AnnounceSecond, AnnounceFails
<1>3. outages' \in 0..MaxOutages
  BY BlocksAssumption DEF AnnounceFirst, AnnounceSecond, AnnounceFails, RedisFails, VersionPaidFor
<1>4. Cardinality(Announcing) \in Nat /\ IsFiniteSet(Announcing)
  BY FS_CardinalityType DEF VersionPaidFor
<1>5. Announcing' = Announcing \ {m}
  BY <1>1 DEF AnnounceFirst, AnnounceSecond, AnnounceFails, Announcing
<1>6. /\ IsFiniteSet(Announcing')
      /\ Cardinality(Announcing') = IF m \in Announcing THEN Cardinality(Announcing) - 1 ELSE Cardinality(Announcing)
  BY <1>4, <1>5, FS_RemoveElement
<1>7. version' + Cardinality(Announcing') <= version + Cardinality(Announcing)
  <2>1. CASE AnnounceFirst(m)
    <3>1. m \in Announcing /\ version' = version + 1
      BY <2>1 DEF AnnounceFirst, Announcing, Announce, Order
    <3> QED
      BY <3>1, <1>1, <1>4, <1>6
  <2>2. CASE AnnounceSecond(m) \/ AnnounceFails(m)
    <3>1. version' = version
      BY <2>2 DEF AnnounceSecond, AnnounceFails, Announce, Order
    <3> QED
      BY <3>1, <1>1, <1>4, <1>6
  <2> QED
    BY <2>1, <2>2
<1>8. Cardinality(Announcing') \in Nat /\ version' \in Nat
  <2>1. version' \in {version, version + 1}
    BY DEF AnnounceFirst, AnnounceSecond, AnnounceFails, Announce, Order
  <2> QED
    BY <2>1, <1>1, <1>6, FS_CardinalityType
<1>9. version' + Cardinality(Announcing') + changes' <= MaxChanges
  BY <1>1, <1>2, <1>4, <1>7, <1>8, BlocksAssumption DEF VersionPaidFor
<1> QED
  BY <1>2, <1>3, <1>6, <1>9 DEF VersionPaidFor

(* A message reads the version and changes nothing of it.                                   *)
LEMMA MessagePaid ==
  ASSUME BlocksInv, VersionPaidFor, NEW r \in Relays,
         \/ Hear(r) \/ ReadCache(r) \/ ReadVersion(r) \/ ReadRows(r)
         \/ Compare(r) \/ Store(r) \/ Send(r)
  PROVE  VersionPaidFor'
<1>1. relay \in [Relays -> RelayRecord] /\ version \in 0..MaxChanges
  BY VersionWithin DEF BlocksInv, StateTyped
<1>2. changes' = changes /\ version' = version /\ change' = change
  BY DEF Hear, ReadCache, ReadVersion, ReadRows, Compare, Store, Send
<1>3. outages' \in 0..MaxOutages
  BY BlocksAssumption DEF Hear, ReadCache, ReadVersion, ReadRows, Compare, Store, Send, RedisFails, VersionPaidFor
<1>4. \A q \in Relays \ {r} : relay'[q] = relay[q]
  BY <1>1 DEF Hear, ReadCache, ReadVersion, ReadRows, Compare, Store, Send
<1>5. /\ relay'[r].before \in {0, version, relay[r].before}
      /\ relay'[r].at \in {0, version, relay[r].at}
  <2>1. CASE Hear(r) \/ Send(r)
    <3> DEFINE heard == [Silent EXCEPT !.phase = "cache", !.sure = InForce]
    <3>1. heard.before = 0 /\ heard.at = 0 /\ Silent.before = 0 /\ Silent.at = 0
      BY DEF Silent
    <3> HIDE DEF heard
    <3>2. relay' = [relay EXCEPT ![r] = heard] \/ relay' = [relay EXCEPT ![r] = Silent]
      BY <2>1 DEF Hear, Send, heard
    <3>3. relay'[r] \in {heard, Silent}
      BY <1>1, <3>2
    <3> QED
      BY <3>1, <3>3
  <2>2. CASE ReadCache(r)
    BY <1>1, <2>2 DEF ReadCache, RelayRecord
  <2>3. CASE ReadVersion(r) \/ ReadRows(r) \/ Store(r)
    BY <1>1, <2>3 DEF ReadVersion, ReadRows, Store, RelayRecord
  <2>4. CASE Compare(r)
    BY <1>1, <2>4 DEF Compare, RelayRecord
  <2> QED
    BY <2>1, <2>2, <2>3, <2>4
<1>6. relay[r].before <= MaxChanges /\ relay[r].at <= MaxChanges
  BY DEF VersionPaidFor
<1>7. relay'[r].before <= MaxChanges /\ relay'[r].at <= MaxChanges
  BY <1>1, <1>5, <1>6, BlocksAssumption
<1>8. Announcing' = Announcing
  BY <1>2 DEF Announcing
<1> QED
  BY <1>2, <1>3, <1>4, <1>7, <1>8 DEF VersionPaidFor

(* Nothing the sender's blocks are made of leaves its type, and the version, the changes    *)
(* and the failures stay within their bounds.                                               *)
THEOREM BlocksStayTyped == BlocksSpec => []BlocksTypeOK
<1>1. BlocksInv /\ VersionPaidFor /\ [BlocksNext]_blocksVars => VersionPaidFor'
  <2> SUFFICES ASSUME BlocksInv, VersionPaidFor, [BlocksNext]_blocksVars PROVE VersionPaidFor'
    OBVIOUS
  <2>1. CASE CacheLapses \/ UNCHANGED blocksVars
    BY <2>1 DEF CacheLapses, blocksVars, VersionPaidFor, Announcing
  <2> QED
    BY <2>1, ChangePaid, AnnouncementPaid, MessagePaid DEF BlocksNext
<1>2. BlocksInv /\ VersionPaidFor => BlocksTypeOK
  <2> SUFFICES ASSUME BlocksInv, VersionPaidFor PROVE BlocksTypeOK
    OBVIOUS
  <2>1. version \in 0..MaxChanges /\ changes \in 0..MaxChanges /\ outages \in 0..MaxOutages
    BY VersionWithin DEF VersionPaidFor
  <2>2. \A r \in Relays : /\ relay[r] \in RelayRecord
                          /\ relay[r].before \in 0..MaxChanges /\ relay[r].at \in 0..MaxChanges
    BY BlocksAssumption DEF BlocksInv, StateTyped, VersionPaidFor, RelayRecord
  <2>3. relay \in [Relays -> [phase : {"idle", "cache", "version", "rows", "compare", "store", "send"},
                              before : 0..MaxChanges, at : 0..MaxChanges, ids : SUBSET Members,
                              sure : SUBSET Members, raced : BOOLEAN]]
    <3>1. relay = [r \in Relays |-> relay[r]]
      BY DEF BlocksInv, StateTyped
    <3>2. \A r \in Relays : relay[r] \in [phase : {"idle", "cache", "version", "rows", "compare", "store", "send"},
                              before : 0..MaxChanges, at : 0..MaxChanges, ids : SUBSET Members,
                              sure : SUBSET Members, raced : BOOLEAN]
      BY <2>2 DEF RelayRecord
    <3> QED
      BY <3>1, <3>2
  <2> QED
    BY <2>1, <2>3 DEF BlocksInv, StateTyped, BlocksTypeOK
<1> QED
  BY <1>1, <1>2, PaidInitially, BlocksInitially, BlocksInductive, PTL DEF BlocksSpec

-----------------------------------------------------------------------------
(* Presence.  Who has sent a position was connected; who is connected after the user's      *)
(* sockets were disconnected is a straggler; a notice is in one place, which may be one of  *)
(* the connections it was drained for; and an idle handler has nobody left to tell.         *)
SocketRecords == [phase : {"away", "shaking", "open", "dead", "left", "gone"},
                  replay : SUBSET Notices, saw : Sockets \union {Nobody}]
NoticeRecords == [phase : {"new", "looked", "told", "sent"}, to : Sockets \union {Nobody}]
MeetingRecords == [phase : {"idle", "claim", "look", "tell"}, with : SUBSET Opponents]
PresenceTyped ==
  /\ leaving \in {"no", "hidden", "settle", "disconnect", "purge", "failed", "done"}
  /\ blind \in BOOLEAN /\ straggler \in BOOLEAN
  /\ geo \in {"none", "fresh", "stale"} /\ meta \in Sockets \union {Nobody} /\ newest \in Sockets \union {Nobody}
  /\ sock \in [Sockets -> SocketRecords]
  /\ queue \in Seq(Notices) /\ excused \subseteq Notices
  /\ notice \in [Notices -> NoticeRecords]
  /\ meeting \in [Sockets -> MeetingRecords]
SocketsFit ==
  /\ \A s \in Sockets : sock[s].phase \in {"away", "shaking"} => newest # s
  /\ leaving \in {"purge", "done"} /\ ~straggler => \A s \in Sockets : ~Connected(s)
Queued(n) == n \in Range(queue)
Told(n) == notice[n].phase = "told"
OnItsWay(n) == notice[n].phase \in {"new", "looked"}
Drained(n, s) == n \in sock[s].replay
NoticesApart ==
  /\ \A s \in Sockets : sock[s].phase \in {"away", "shaking"} => sock[s].replay = {}
  /\ \A n \in Notices :
       /\ Queued(n) \/ Told(n) \/ n \in excused \/ OnItsWay(n) \/ \E s \in Sockets : Drained(n, s)
       /\ Queued(n) => ~Told(n) /\ n \notin excused /\ ~OnItsWay(n)
       /\ n \in excused => ~Told(n) /\ ~OnItsWay(n)
       /\ \A s \in Sockets : Drained(n, s) =>
            /\ ~Queued(n) /\ ~Told(n) /\ n \notin excused /\ ~OnItsWay(n)
            /\ \A t \in Sockets : Drained(n, t) => t = s
MeetingsFit == (\A s \in Sockets : meeting[s].phase = "idle" => meeting[s].with = {}) /\ CooldownMeansNotice
PresenceInv == PresenceTyped /\ SocketsFit /\ MapShowsWhoIsThere /\ NoticesApart /\ MeetingsFit

LEMMA RangeOf ==
  ASSUME NEW S, NEW q \in Seq(S)
  PROVE  Range(q) \subseteq S /\ \A i \in 1..Len(q) : q[i] \in Range(q)
<1>1. DOMAIN q = 1..Len(q) /\ \A i \in 1..Len(q) : q[i] \in S
      OBVIOUS
<1>2. Range(q) = {q[i] : i \in 1..Len(q)}
      BY <1>1 DEF Range
<1> QED BY <1>1, <1>2

LEMMA InRange ==
  ASSUME NEW S, NEW q \in Seq(S), NEW x \in Range(q)
  PROVE  \E i \in 1..Len(q) : q[i] = x
<1>1. DOMAIN q = 1..Len(q)
      OBVIOUS
<1> QED BY <1>1, Zenon DEF Range

LEMMA EmptyIsQueue == <<>> \in Seq(Notices) /\ Range(<<>>) = {}
<1>1. <<>> \in Seq(Notices) /\ DOMAIN <<>> = {}
      OBVIOUS
<1> QED BY <1>1 DEF Range

(* A queue that grows by one and is cut at its limit holds nothing new but the newcomer.     *)
LEMMA TrimHolds ==
  ASSUME NEW q \in Seq(Notices), NEW n \in Notices
  PROVE  /\ Trimmed(Append(q, n)) \in Seq(Notices)
         /\ Range(Trimmed(Append(q, n))) \subseteq Range(q) \union {n}
         /\ n \in Range(Trimmed(Append(q, n)))
<1> DEFINE a == Append(q, n)
<1>1. /\ a \in Seq(Notices) /\ Len(a) = Len(q) + 1 /\ a[Len(a)] = n /\ Len(q) \in Nat
      /\ \A i \in 1..Len(q) : a[i] = q[i]
      OBVIOUS
<1>2. Range(a) \subseteq Range(q) \union {n}
  <2> SUFFICES ASSUME NEW x \in Range(a) PROVE x \in Range(q) \union {n}
      OBVIOUS
  <2>1. PICK i \in 1..Len(a) : a[i] = x
        BY <1>1, InRange
  <2>2. CASE i \in 1..Len(q)
        BY <1>1, <2>1, <2>2, RangeOf
  <2>3. CASE i \notin 1..Len(q)
        BY <1>1, <2>1, <2>3
  <2> QED BY <2>2, <2>3
<1>3. n \in Range(a)
  <2>1. Len(a) \in 1..Len(a)
        BY <1>1
  <2> HIDE DEF a
  <2>2. a[Len(a)] \in Range(a)
        BY <1>1, <2>1, RangeOf
  <2> QED BY <1>1, <2>2
<1> HIDE DEF a
<1>4. CASE Len(a) > QueueMax
  <2>1. QueueMax \in Nat \ {0}
        BY PresenceAssumption
  <2> DEFINE b == Tail(a)
  <2>2. /\ b \in Seq(Notices) /\ Len(b) = Len(a) - 1
        /\ \A i \in 1..Len(b) : b[i] = a[i + 1] /\ i + 1 \in 1..Len(a)
        BY <1>1, <1>4, <2>1
  <2>3. Len(b) \in 1..Len(b)
        BY <1>1, <1>4, <2>1, <2>2
  <2> HIDE DEF b
  <2>4. b[Len(b)] = n
        BY <1>1, <2>2, <2>3
  <2>5. n \in Range(b)
        BY <2>2, <2>3, <2>4, RangeOf
  <2>6. Range(b) \subseteq Range(a)
    <3> SUFFICES ASSUME NEW x \in Range(b) PROVE x \in Range(a)
        OBVIOUS
    <3>1. PICK i \in 1..Len(b) : b[i] = x
          BY <2>2, InRange
    <3> QED BY <1>1, <2>2, <3>1, RangeOf
  <2>7. Trimmed(a) = b
        BY <1>4 DEF Trimmed, b
  <2> QED BY <1>2, <2>2, <2>5, <2>6, <2>7 DEF a
<1>5. CASE ~(Len(a) > QueueMax)
  <2>1. Trimmed(a) = a
        BY <1>5 DEF Trimmed
  <2> QED BY <1>1, <1>2, <1>3, <2>1 DEF a
<1> QED BY <1>4, <1>5

LEMMA TypedAtFirst == PresenceInit => PresenceInv
<1> SUFFICES ASSUME PresenceInit PROVE PresenceInv
    OBVIOUS
<1>1. PresenceTyped
  <2>1. sock \in [Sockets -> SocketRecords]
        BY DEF PresenceInit, Offline, SocketRecords
  <2>2. notice \in [Notices -> NoticeRecords]
        BY DEF PresenceInit, NoticeRecords
  <2>3. meeting \in [Sockets -> MeetingRecords]
        BY DEF PresenceInit, MeetingRecords
  <2>4. queue \in Seq(Notices) /\ excused \subseteq Notices
        BY EmptyIsQueue DEF PresenceInit
  <2>5. leaving = "no" /\ blind = FALSE /\ straggler = FALSE /\ geo = "none" /\ meta = Nobody /\ newest = Nobody
        BY DEF PresenceInit
  <2> QED BY <2>1, <2>2, <2>3, <2>4, <2>5 DEF PresenceTyped
<1>2. SocketsFit /\ MapShowsWhoIsThere
      BY PresenceAssumption DEF PresenceInit, SocketsFit, MapShowsWhoIsThere, GoneLeavesNoTrace, NewerSocketStays
<1>3. NoticesApart
      BY DEF PresenceInit, NoticesApart, Offline, Queued, Told, OnItsWay, Drained, Range
<1>4. MeetingsFit
      BY DEF PresenceInit, MeetingsFit, CooldownMeansNotice
<1> QED BY <1>1, <1>2, <1>3, <1>4 DEF PresenceInv

(* The values keep their shapes. *)
LEMMA TypesKept ==
  ASSUME PresenceTyped, PresenceNext
  PROVE  PresenceTyped'
<1> USE DEF PresenceTyped, person, whereabouts, notices, encounters
<1> Range(queue) \subseteq Notices
    BY RangeOf
<1>1. ASSUME NEW s \in Sockets, Handshake(s) PROVE PresenceTyped'
      BY <1>1 DEF Handshake, Moves, SocketRecords
<1>2. ASSUME NEW s \in Sockets, Connect(s) PROVE PresenceTyped'
  <2>2. sock' \in [Sockets -> SocketRecords]
        BY <1>2 DEF Connect, Moves, SocketRecords
  <2>3. queue' \in Seq(Notices) /\ excused' \subseteq Notices
        BY <1>2, EmptyIsQueue DEF Connect
  <2>4. straggler' \in BOOLEAN
        BY <1>2 DEF Connect
  <2> QED BY <1>2, <2>2, <2>3, <2>4 DEF Connect
<1>3. ASSUME NEW s \in Sockets, Replay(s) PROVE PresenceTyped'
  <2>1. sock' \in [Sockets -> SocketRecords]
        BY <1>3 DEF Replay, SocketRecords
  <2>2. notice' \in [Notices -> NoticeRecords]
        BY <1>3 DEF Replay, NoticeRecords
  <2>3. excused' \subseteq Notices
        BY <1>3 DEF Replay, SocketRecords
  <2> QED BY <1>3, <2>1, <2>2, <2>3 DEF Replay, AfterReplay
<1>4. ASSUME NEW s \in Sockets, NetworkBreaks(s) PROVE PresenceTyped'
      BY <1>4 DEF NetworkBreaks, Moves, SocketRecords
<1>5. ASSUME NEW s \in Sockets, Disconnect(s) PROVE PresenceTyped'
      BY <1>5, ZenonT(60) DEF Disconnect, SocketRecords
<1>6. ASSUME NEW s \in Sockets, AfterDisconnect(s) PROVE PresenceTyped'
  <2>1. sock' \in [Sockets -> SocketRecords]
        BY <1>6 DEF AfterDisconnect, Moves, SocketRecords
  <2>2. blind' \in BOOLEAN
        BY <1>6 DEF AfterDisconnect
  <2> QED BY <1>6, <2>1, <2>2 DEF AfterDisconnect
<1>7. ASSUME NEW s \in Sockets, UpdateLocation(s) PROVE PresenceTyped'
  <2>1. meeting' \in [Sockets -> MeetingRecords]
        BY <1>7 DEF UpdateLocation, MeetingRecords
  <2> QED BY <1>7, <2>1 DEF UpdateLocation
<1>8. ASSUME NEW s \in Sockets, ClaimEncounters(s) PROVE PresenceTyped'
  <2>1. meeting' \in [Sockets -> MeetingRecords]
        BY <1>8 DEF ClaimEncounters, MeetingRecords
  <2> QED BY <1>8, <2>1 DEF ClaimEncounters
<1>9. ASSUME NEW s \in Sockets, ClaimFails(s) \/ LookUp(s) \/ LookUpFails(s) \/ TellEncounters(s) PROVE PresenceTyped'
  <2>1. meeting' \in [Sockets -> MeetingRecords]
    <3>1. CASE ClaimFails(s) \/ TellEncounters(s)
      <4>1. meeting' = [meeting EXCEPT ![s] = [phase |-> "idle", with |-> {}]]
            BY <3>1 DEF ClaimFails, TellEncounters
      <4> QED BY <4>1 DEF MeetingRecords
    <3>2. CASE LookUp(s)
          BY <3>2 DEF LookUp, MeetingRecords
    <3>3. CASE LookUpFails(s)
          BY <3>3 DEF LookUpFails, GoesOn, MeetingRecords
    <3> QED BY <1>9, <3>1, <3>2, <3>3
  <2> QED BY <1>9, <2>1 DEF ClaimFails, LookUp, LookUpFails, TellEncounters
<1>10. ASSUME NEW o \in Opponents, CooldownLapses(o) PROVE PresenceTyped'
      BY <1>10 DEF CooldownLapses
<1>11. ASSUME NEW n \in Notices, Notify(n) PROVE PresenceTyped'
      BY <1>11 DEF Notify, NoticeRecords
<1>12. ASSUME NEW n \in Notices, Deliver(n) PROVE PresenceTyped'
  <2>1. notice' \in [Notices -> NoticeRecords]
    <3>1. notice' = [notice EXCEPT ![n].phase = "told"] \/ notice' = [notice EXCEPT ![n].phase = "sent"]
          BY <1>12 DEF Deliver
    <3> QED BY <3>1, ZenonT(60) DEF NoticeRecords
  <2>2. queue' \in Seq(Notices)
        BY <1>12, TrimHolds DEF Deliver
  <2>3. excused' \subseteq Notices
        BY <1>12 DEF Deliver
  <2> QED BY <1>12, <2>1, <2>2, <2>3 DEF Deliver
<1>13. ASSUME NEW n \in Notices, NotifyFails(n) PROVE PresenceTyped'
      BY <1>13 DEF NotifyFails, NoticeRecords
<1>14. ASSUME QueueLapses \/ MetaLapses \/ PruneRead \/ PruneRemove PROVE PresenceTyped'
  <2>1. excused' \subseteq Notices /\ queue' \in Seq(Notices)
        BY <1>14, EmptyIsQueue DEF QueueLapses, MetaLapses, PruneRead, PruneRemove
  <2>2. blind' \in BOOLEAN
        BY <1>14 DEF QueueLapses, MetaLapses, PruneRead, PruneRemove
  <2> QED BY <1>14, <2>1, <2>2 DEF QueueLapses, MetaLapses, PruneRead, PruneRemove
<1>15. ASSUME Hide \/ DeleteRow \/ SettleDuels PROVE PresenceTyped'
      BY <1>15 DEF Hide, GeoRemove, DeleteRow, SettleDuels, After
<1>16. ASSUME DisconnectUser PROVE PresenceTyped'
      BY <1>16 DEF DisconnectUser, After, SocketRecords
<1>17. ASSUME PurgeKeys PROVE PresenceTyped'
  <2>1. excused' \subseteq Notices /\ queue' \in Seq(Notices)
        BY <1>17, EmptyIsQueue DEF PurgeKeys
  <2> QED BY <1>17, <2>1 DEF PurgeKeys, GeoRemove, After
<1>18. ASSUME Restart PROVE PresenceTyped'
  <2>1. sock' \in [Sockets -> SocketRecords]
        BY <1>18 DEF Restart, Offline, SocketRecords
  <2>2. notice' \in [Notices -> NoticeRecords]
        BY <1>18 DEF Restart, NoticeRecords
  <2>3. meeting' \in [Sockets -> MeetingRecords]
        BY <1>18 DEF Restart, MeetingRecords
  <2>4. excused' \subseteq Notices
    <3>1. \A s \in Sockets : sock[s].replay \subseteq Notices
          BY DEF SocketRecords
    <3>2. UNION {sock[s].replay : s \in Sockets} \subseteq Notices
          BY <3>1
    <3> QED BY <1>18, <3>2 DEF Restart
  <2> QED BY <1>18, <2>1, <2>2, <2>3, <2>4 DEF Restart
<1> QED BY <1>1, <1>2, <1>3, <1>4, <1>5, <1>6, <1>7, <1>8, <1>9, <1>10, <1>11, <1>12, <1>13, <1>14,
        <1>15, <1>16, <1>17, <1>18 DEF PresenceNext

(* The map.  Who moves last is connected or was, so a socket that has just come is not he;   *)
(* and who disconnects removes an entry that is not his only when it was made in between.     *)
MapFits == SocketsFit /\ MapShowsWhoIsThere
LEMMA MapKept ==
  ASSUME PresenceTyped, MapFits, PresenceNext
  PROVE  MapFits'
<1> USE DEF MapFits, SocketsFit, MapShowsWhoIsThere, GoneLeavesNoTrace, NewerSocketStays, Connected,
            person, whereabouts, notices, encounters
<1> Nobody \notin Sockets
    BY PresenceAssumption
<1>0. ASSUME UNCHANGED <<sock, geo, meta, newest, blind, leaving, straggler>> PROVE MapFits'
      BY <1>0
<1>1. ASSUME NEW s \in Sockets, Handshake(s) \/ Connect(s) \/ Replay(s) \/ NetworkBreaks(s) \/ Disconnect(s)
      PROVE  MapFits'
  <2>1. /\ UNCHANGED <<geo, meta, newest, blind, leaving>>
        /\ \A t \in Sockets \ {s} : sock'[t].phase = sock[t].phase
        BY <1>1 DEF Handshake, Connect, Replay, NetworkBreaks, Disconnect, Moves, PresenceTyped, SocketRecords
  <2>2. straggler' \in BOOLEAN /\ (straggler => straggler')
        BY <1>1 DEF Handshake, Connect, Replay, NetworkBreaks, Disconnect, PresenceTyped
  <2>3. CASE Handshake(s)
    <3>1. sock[s].phase = "away" /\ sock'[s].phase = "shaking"
          BY <2>3 DEF Handshake, Moves, PresenceTyped, SocketRecords
    <3> QED BY <2>1, <2>2, <3>1 DEF PresenceTyped
  <2>4. CASE Connect(s)
    <3>1. sock[s].phase = "shaking" /\ (leaving \in {"purge", "done"} => straggler')
          BY <2>4 DEF Connect
    <3>2. sock'[s].phase = "open"
          BY <2>4 DEF Connect, Moves, PresenceTyped, SocketRecords
    <3> QED BY <2>1, <2>2, <3>1, <3>2 DEF PresenceTyped
  <2>5. CASE Replay(s)
    <3>1. sock'[s].phase = sock[s].phase
          BY <2>5 DEF Replay, PresenceTyped, SocketRecords
    <3> QED BY <2>1, <2>2, <3>1 DEF PresenceTyped
  <2>6. CASE NetworkBreaks(s)
    <3>1. sock[s].phase = "open" /\ sock'[s].phase = "dead"
          BY <2>6 DEF NetworkBreaks, Moves, PresenceTyped, SocketRecords
    <3> QED BY <2>1, <2>2, <3>1 DEF PresenceTyped
  <2>7. CASE Disconnect(s)
    <3>1. Connected(s) /\ sock'[s].phase = "left"
          BY <2>7 DEF Disconnect, PresenceTyped, SocketRecords
    <3> QED BY <2>1, <2>2, <3>1 DEF PresenceTyped
  <2> QED BY <1>1, <2>3, <2>4, <2>5, <2>6, <2>7
<1>2. ASSUME NEW s \in Sockets, AfterDisconnect(s) PROVE MapFits'
  <2>1. /\ sock[s].phase = "left" /\ sock'[s].phase = "gone"
        /\ \A t \in Sockets \ {s} : sock'[t].phase = sock[t].phase
        /\ UNCHANGED <<newest, leaving, straggler>>
        BY <1>2 DEF AfterDisconnect, Moves, PresenceTyped, SocketRecords
  <2>2. CASE UNCHANGED <<geo, meta, blind>>
        BY <2>1, <2>2 DEF PresenceTyped
  <2>3. CASE OwnMeta(s) /\ geo' = "none" /\ meta' = Nobody /\ blind' = (blind \/ (sock[s].saw # meta /\ meta # Nobody))
    <3>1. sock[s].saw \in {s, Nobody}
          BY <2>3 DEF OwnMeta
    <3>2. (blind => blind') /\ (sock[s].saw # meta /\ meta # Nobody => blind')
          BY <2>3
    <3>3. NewerSocketStays'
      <4> SUFFICES ASSUME newest' # Nobody, Connected(newest)', ~blind' PROVE FALSE
          BY DEF NewerSocketStays
      <4>1. newest # s /\ newest \in Sockets /\ Connected(newest)
            BY <2>1 DEF PresenceTyped
      <4>2. meta = newest
            BY <2>1, <3>2, <4>1
      <4> QED BY <3>1, <3>2, <4>1, <4>2
    <3>4. GoneLeavesNoTrace'
          BY <2>3
    <3>5. SocketsFit'
          BY <2>1 DEF PresenceTyped
    <3> QED BY <3>3, <3>4, <3>5
  <2> QED BY <1>2, <2>2, <2>3 DEF AfterDisconnect
<1>3. ASSUME NEW s \in Sockets, UpdateLocation(s) PROVE MapFits'
  <2>1. /\ sock[s].phase = "open" /\ geo' = "fresh" /\ meta' = s /\ newest' = s
        /\ UNCHANGED <<sock, leaving, straggler>>
        BY <1>3 DEF UpdateLocation
  <2> QED BY <2>1
<1>4. ASSUME NEW s \in Sockets, ClaimEncounters(s) \/ ClaimFails(s) \/ LookUp(s) \/ LookUpFails(s) \/ TellEncounters(s)
      PROVE  MapFits'
      BY <1>0, <1>4 DEF ClaimEncounters, ClaimFails, LookUp, LookUpFails, TellEncounters
<1>5. ASSUME NEW o \in Opponents, CooldownLapses(o) PROVE MapFits'
      BY <1>0, <1>5 DEF CooldownLapses
<1>6. ASSUME NEW n \in Notices, Notify(n) \/ Deliver(n) \/ NotifyFails(n) PROVE MapFits'
      BY <1>0, <1>6 DEF Notify, Deliver, NotifyFails
<1>7. ASSUME QueueLapses \/ PruneRead PROVE MapFits'
      BY <1>0, <1>7 DEF QueueLapses, PruneRead
<1>8. ASSUME MetaLapses PROVE MapFits'
      BY <1>8 DEF MetaLapses
<1>9. ASSUME PruneRemove PROVE MapFits'
  <2>1. /\ geo' = "none" /\ (blind \/ geo = "fresh" => blind')
        /\ UNCHANGED <<sock, meta, newest, leaving, straggler>>
        BY <1>9 DEF PruneRemove
  <2> QED BY <2>1
<1>10. ASSUME Hide PROVE MapFits'
      BY <1>10 DEF Hide, GeoRemove
<1>11. ASSUME DeleteRow PROVE MapFits'
      BY <1>11 DEF DeleteRow
<1>12. ASSUME SettleDuels PROVE MapFits'
      BY <1>12 DEF SettleDuels, After
<1>13. ASSUME DisconnectUser PROVE MapFits'
  <2>1. /\ leaving' = "purge" /\ UNCHANGED <<geo, meta, newest, blind, straggler>>
        /\ \A t \in Sockets : sock'[t].phase = IF Connected(t) THEN "left" ELSE sock[t].phase
        BY <1>13 DEF DisconnectUser, After, PresenceTyped, SocketRecords
  <2> QED BY <2>1 DEF PresenceTyped
<1>14. ASSUME PurgeKeys PROVE MapFits'
  <2>1. /\ leaving = "purge" /\ UNCHANGED <<sock, blind, straggler>>
        /\ \/ leaving' = "done" /\ GeoRemove
           \/ leaving' = "failed" /\ UNCHANGED <<geo, meta, newest>>
        BY <1>14 DEF PurgeKeys, After
  <2> QED BY <2>1 DEF GeoRemove
<1>15. ASSUME Restart PROVE MapFits'
  <2>1. /\ \A t \in Sockets : sock'[t].phase = IF sock[t].phase = "away" THEN "away" ELSE "gone"
        /\ UNCHANGED <<geo, meta, newest, blind, straggler>>
        BY <1>15 DEF Restart, Offline, PresenceTyped, SocketRecords
  <2>2. leaving' = "done" => leaving = "done"
        BY <1>15 DEF Restart, PresenceTyped
  <2> QED BY <2>1, <2>2 DEF PresenceTyped
<1> QED BY <1>1, <1>2, <1>3, <1>4, <1>5, <1>6, <1>7, <1>8, <1>9, <1>10, <1>11, <1>12, <1>13, <1>14, <1>15
        DEF PresenceNext

(* The encounters: no key without a notice that is told or about to be. *)
LEMMA MeetingsKept ==
  ASSUME PresenceTyped, MeetingsFit, PresenceNext
  PROVE  MeetingsFit'
<1> USE DEF MeetingsFit, CooldownMeansNotice, person, whereabouts, notices, encounters, PresenceTyped, MeetingRecords
<1>0. ASSUME UNCHANGED <<meeting, cooldown, met, untold>> PROVE MeetingsFit'
      BY <1>0
<1>1. ASSUME NEW s \in Sockets, UpdateLocation(s) PROVE MeetingsFit'
  <2>1. /\ meeting[s].phase = "idle" /\ UNCHANGED <<cooldown, met, untold>>
        /\ \/ UNCHANGED meeting
           \/ \E found \in SUBSET Opponents : meeting' = [meeting EXCEPT ![s] = [phase |-> "claim", with |-> found]]
        BY <1>1 DEF UpdateLocation
  <2>2. CASE UNCHANGED meeting
        BY <1>0, <2>1, <2>2
  <2>3. CASE ~UNCHANGED meeting
    <3>1. PICK found \in SUBSET Opponents : meeting' = [meeting EXCEPT ![s] = [phase |-> "claim", with |-> found]]
          BY <2>1, <2>3
    <3>2. meeting'[s].phase = "claim" /\ \A t \in Sockets \ {s} : meeting'[t] = meeting[t]
          BY <3>1
    <3> QED BY <2>1, <3>2
  <2> QED BY <2>2, <2>3
<1>2. ASSUME NEW s \in Sockets, ClaimEncounters(s) PROVE MeetingsFit'
  <2> DEFINE new == meeting[s].with \ cooldown
  <2>1. /\ cooldown' = cooldown \union new /\ UNCHANGED <<met, untold>> /\ meeting[s].phase = "claim"
        /\ \A t \in Sockets \ {s} : meeting'[t] = meeting[t]
        /\ \/ new = {} /\ meeting'[s].phase = "idle" /\ meeting'[s].with = {}
           \/ new # {} /\ meeting'[s].phase = "look" /\ meeting'[s].with = new
        BY <1>2 DEF ClaimEncounters
  <2> QED BY <2>1
<1>3. ASSUME NEW s \in Sockets, ClaimFails(s) PROVE MeetingsFit'
  <2>1. PICK some \in SUBSET (meeting[s].with \ cooldown) :
          cooldown' = cooldown \union some /\ met' = met /\ untold' = untold \union some
        BY <1>3 DEF ClaimFails
  <2>2. /\ meeting[s].phase = "claim" /\ meeting'[s].phase = "idle" /\ meeting'[s].with = {}
        /\ \A t \in Sockets \ {s} : meeting'[t] = meeting[t]
        BY <1>3 DEF ClaimFails
  <2> QED BY <2>1, <2>2
<1>4. ASSUME NEW s \in Sockets, LookUp(s) \/ LookUpFails(s) PROVE MeetingsFit'
  <2>1. /\ meeting[s].phase = "look" /\ meeting'[s].phase = "tell" /\ meeting'[s].with = meeting[s].with
        /\ UNCHANGED <<cooldown, met, untold>> /\ \A t \in Sockets \ {s} : meeting'[t] = meeting[t]
    <3>1. CASE LookUp(s)
          BY <3>1 DEF LookUp
    <3>2. CASE LookUpFails(s)
          BY <3>2 DEF LookUpFails, GoesOn
    <3> QED BY <1>4, <3>1, <3>2
  <2> QED BY <2>1
<1>5. ASSUME NEW s \in Sockets, TellEncounters(s) PROVE MeetingsFit'
  <2>1. /\ met' \union untold' = met \union untold \union meeting[s].with /\ cooldown' = cooldown
        /\ meeting'[s].phase = "idle" /\ meeting'[s].with = {}
        /\ \A t \in Sockets \ {s} : meeting'[t] = meeting[t]
        BY <1>5 DEF TellEncounters
  <2> QED BY <2>1
<1>6. ASSUME NEW o \in Opponents, CooldownLapses(o) PROVE MeetingsFit'
      BY <1>6 DEF CooldownLapses
<1>7. ASSUME PurgeKeys PROVE MeetingsFit'
      BY <1>7 DEF PurgeKeys
<1>8. ASSUME Restart PROVE MeetingsFit'
  <2>1. /\ \A t \in Sockets : meeting'[t].phase = "idle" /\ meeting'[t].with = {}
        /\ cooldown' = cooldown
        /\ met' = met /\ untold' = untold \union (UNION {meeting[s].with : s \in {t \in Sockets : meeting[t].phase # "claim"}})
        BY <1>8 DEF Restart
  <2> QED BY <2>1
<1>9. ASSUME NEW s \in Sockets, Handshake(s) \/ Connect(s) \/ Replay(s) \/ NetworkBreaks(s) \/ Disconnect(s) \/ AfterDisconnect(s)
      PROVE  MeetingsFit'
      BY <1>0, <1>9 DEF Handshake, Connect, Replay, NetworkBreaks, Disconnect, AfterDisconnect
<1>10. ASSUME NEW n \in Notices, Notify(n) \/ Deliver(n) \/ NotifyFails(n) PROVE MeetingsFit'
      BY <1>0, <1>10 DEF Notify, Deliver, NotifyFails
<1>11. ASSUME QueueLapses \/ MetaLapses \/ PruneRead \/ PruneRemove \/ Hide \/ DeleteRow \/ SettleDuels \/ DisconnectUser
       PROVE  MeetingsFit'
      BY <1>0, <1>11 DEF QueueLapses, MetaLapses, PruneRead, PruneRemove, Hide, DeleteRow, SettleDuels, DisconnectUser
<1> QED BY <1>1, <1>2, <1>3, <1>4, <1>5, <1>6, <1>7, <1>8, <1>9, <1>10, <1>11 DEF PresenceNext

(* The notices.  What is drained belongs to the one connection it was drained for, and a     *)
(* connection has nothing drained before it is made.                                          *)
LEMMA NoticesKept ==
  ASSUME PresenceTyped, NoticesApart, PresenceNext
  PROVE  NoticesApart'
<1> USE DEF person, whereabouts, notices, encounters
<1>0. ASSUME UNCHANGED <<queue, notice, excused>>,
             \A t \in Sockets : /\ sock'[t].replay = sock[t].replay
                                /\ sock'[t].phase \in {"away", "shaking"} => sock[t].phase \in {"away", "shaking"}
      PROVE  NoticesApart'
      BY <1>0 DEF NoticesApart, Queued, Told, OnItsWay, Drained
<1>1. ASSUME NEW s \in Sockets, Handshake(s) \/ NetworkBreaks(s) \/ Disconnect(s) \/ AfterDisconnect(s)
      PROVE  NoticesApart'
  <2>1. UNCHANGED <<queue, notice, excused>>
        BY <1>1 DEF Handshake, NetworkBreaks, Disconnect, AfterDisconnect
  <2>2. \A t \in Sockets : /\ sock'[t].replay = sock[t].replay
                           /\ sock'[t].phase \in {"away", "shaking"} => sock[t].phase \in {"away", "shaking"}
    <3>1. CASE Handshake(s) \/ NetworkBreaks(s)
          BY <3>1 DEF Handshake, NetworkBreaks, Moves, PresenceTyped, SocketRecords
    <3>2. CASE Disconnect(s)
          BY <3>2 DEF Disconnect, PresenceTyped, SocketRecords
    <3>3. CASE AfterDisconnect(s)
          BY <3>3 DEF AfterDisconnect, Moves, PresenceTyped, SocketRecords
    <3> QED BY <1>1, <3>1, <3>2, <3>3
  <2> QED BY <1>0, <2>1, <2>2
<1>2. ASSUME NEW s \in Sockets, Connect(s) PROVE NoticesApart'
  <2>1. /\ sock[s].phase = "shaking" /\ notice' = notice
        /\ \/ queue' = <<>> /\ excused' = excused /\ sock' = [sock EXCEPT ![s].phase = "open", ![s].replay = Range(queue)]
           \/ queue' = queue /\ excused' = excused /\ Moves(s, "open")
           \/ queue' = <<>> /\ excused' = excused \union Range(queue) /\ Moves(s, "open")
        BY <1>2 DEF Connect
  <2>2. sock[s].replay = {}
        BY <2>1 DEF NoticesApart
  <2>3. /\ sock'[s].phase = "open"
        /\ \A t \in Sockets \ {s} : sock'[t].replay = sock[t].replay /\ sock'[t].phase = sock[t].phase
        BY <2>1 DEF Moves, PresenceTyped, SocketRecords
  <2>4. CASE queue' = <<>> /\ excused' = excused /\ sock' = [sock EXCEPT ![s].phase = "open", ![s].replay = Range(queue)]
    <3>1. sock'[s].replay = Range(queue) /\ Range(queue') = {}
          BY <2>4, EmptyIsQueue DEF PresenceTyped, SocketRecords
    <3>2. \A n \in Notices : /\ Drained(n, s)' <=> Queued(n)
                             /\ ~Queued(n)' /\ ~Drained(n, s)
                             /\ \A t \in Sockets \ {s} : Drained(n, t)' <=> Drained(n, t)
          BY <2>2, <2>3, <3>1 DEF Queued, Drained
    <3>3. \A n \in Notices : (Told(n)' <=> Told(n)) /\ (OnItsWay(n)' <=> OnItsWay(n))
          BY <2>1 DEF Told, OnItsWay
    <3>4. \A t \in Sockets : sock'[t].phase \in {"away", "shaking"} => sock'[t].replay = {}
          BY <2>3 DEF NoticesApart
    <3>5. excused' = excused
          BY <2>4
    <3> QED BY <3>2, <3>3, <3>4, <3>5 DEF NoticesApart
  <2>5. CASE queue' = queue /\ excused' = excused /\ Moves(s, "open")
    <3>1. sock'[s].replay = sock[s].replay
          BY <2>5 DEF Moves, PresenceTyped, SocketRecords
    <3> QED BY <1>0, <2>1, <2>3, <2>5, <3>1
  <2>6. CASE queue' = <<>> /\ excused' = excused \union Range(queue) /\ Moves(s, "open")
    <3>1. sock'[s].replay = sock[s].replay /\ Range(queue') = {}
          BY <2>6, EmptyIsQueue DEF Moves, PresenceTyped, SocketRecords
    <3> QED BY <2>1, <2>3, <2>6, <3>1 DEF NoticesApart, Queued, Told, OnItsWay, Drained
  <2> QED BY <2>1, <2>4, <2>5, <2>6
<1>3. ASSUME NEW s \in Sockets, Replay(s) PROVE NoticesApart'
  <2>1. /\ queue' = queue /\ sock'[s].replay = {}
        /\ \A t \in Sockets : sock'[t].phase = sock[t].phase /\ (t # s => sock'[t].replay = sock[t].replay)
        BY <1>3 DEF Replay, AfterReplay, PresenceTyped, SocketRecords
  <2>2. /\ notice' = [n \in Notices |-> IF n \in sock[s].replay /\ sock[s].phase = "open"
                                         THEN [notice[n] EXCEPT !.phase = "told"] ELSE notice[n]]
        /\ excused' = IF sock[s].phase = "open" THEN excused ELSE excused \union sock[s].replay
        BY <1>3 DEF Replay
  <2>3. CASE sock[s].phase = "open"
    <3>1. \A n \in Notices : notice'[n].phase = IF n \in sock[s].replay THEN "told" ELSE notice[n].phase
          BY <2>2, <2>3 DEF PresenceTyped, NoticeRecords
    <3>2. excused' = excused
          BY <2>2, <2>3
    <3> QED BY <2>1, <3>1, <3>2 DEF NoticesApart, Queued, Told, OnItsWay, Drained
  <2>4. CASE sock[s].phase # "open"
    <3>1. \A n \in Notices : notice'[n].phase = notice[n].phase
          BY <2>2, <2>4
    <3>2. excused' = excused \union sock[s].replay
          BY <2>2, <2>4
    <3> QED BY <2>1, <3>1, <3>2 DEF NoticesApart, Queued, Told, OnItsWay, Drained
  <2> QED BY <2>3, <2>4
<1>4. ASSUME NEW n \in Notices, Notify(n) PROVE NoticesApart'
  <2>1. /\ UNCHANGED <<sock, queue, excused>> /\ notice[n].phase = "new" /\ notice'[n].phase = "looked"
        /\ \A m \in Notices \ {n} : notice'[m] = notice[m]
        BY <1>4 DEF Notify, PresenceTyped
  <2> QED BY <2>1 DEF NoticesApart, Queued, Told, OnItsWay, Drained
<1>5. ASSUME NEW n \in Notices, Deliver(n) PROVE NoticesApart'
  <2>1. /\ sock' = sock /\ notice[n].phase = "looked"
        BY <1>5 DEF Deliver
  <2>2. CASE notice[n].to # Nobody /\ Connected(notice[n].to) /\ sock[notice[n].to].phase = "open"
    <3>1. UNCHANGED <<excused, queue>> /\ notice' = [notice EXCEPT ![n].phase = "told"]
          BY <1>5, <2>2 DEF Deliver
    <3>2. notice'[n].phase = "told" /\ \A m \in Notices \ {n} : notice'[m] = notice[m]
          BY <3>1 DEF PresenceTyped, NoticeRecords
    <3> QED BY <2>1, <3>1, <3>2 DEF NoticesApart, Queued, Told, OnItsWay, Drained
  <2>3. CASE notice[n].to # Nobody /\ Connected(notice[n].to) /\ sock[notice[n].to].phase # "open"
    <3>1. queue' = queue /\ excused' = excused \union {n} /\ notice' = [notice EXCEPT ![n].phase = "sent"]
          BY <1>5, <2>3 DEF Deliver
    <3>2. notice'[n].phase = "sent" /\ \A m \in Notices \ {n} : notice'[m] = notice[m]
          BY <3>1 DEF PresenceTyped, NoticeRecords
    <3> QED BY <2>1, <3>1, <3>2 DEF NoticesApart, Queued, Told, OnItsWay, Drained
  <2>4. CASE ~(notice[n].to # Nobody /\ Connected(notice[n].to))
    <3>1. /\ notice' = [notice EXCEPT ![n].phase = "sent"] /\ queue' = Trimmed(Append(queue, n))
          /\ excused' = excused \union (Range(queue) \ Range(queue'))
          BY <1>5, <2>4 DEF Deliver
    <3>2. notice'[n].phase = "sent" /\ \A m \in Notices \ {n} : notice'[m] = notice[m]
          BY <3>1 DEF PresenceTyped, NoticeRecords
    <3>3. Range(queue') \subseteq Range(queue) \union {n} /\ n \in Range(queue')
          BY <3>1, TrimHolds DEF PresenceTyped
    <3> QED BY <2>1, <3>1, <3>2, <3>3 DEF NoticesApart, Queued, Told, OnItsWay, Drained
  <2> QED BY <2>2, <2>3, <2>4
<1>6. ASSUME NEW n \in Notices, NotifyFails(n) PROVE NoticesApart'
  <2>1. /\ UNCHANGED <<sock, queue>> /\ notice[n].phase \in {"new", "looked"} /\ notice'[n].phase = "sent"
        /\ excused' = excused \union {n} /\ \A m \in Notices \ {n} : notice'[m] = notice[m]
        BY <1>6 DEF NotifyFails, PresenceTyped, NoticeRecords
  <2> QED BY <2>1 DEF NoticesApart, Queued, Told, OnItsWay, Drained
<1>7. ASSUME QueueLapses \/ PurgeKeys PROVE NoticesApart'
  <2>1. CASE queue' = <<>> /\ excused' = excused \union Range(queue) /\ sock' = sock /\ notice' = notice
    <3>1. Range(queue') = {}
          BY <2>1, EmptyIsQueue
    <3> QED BY <2>1, <3>1 DEF NoticesApart, Queued, Told, OnItsWay, Drained
  <2>2. CASE UNCHANGED <<sock, notice, queue, excused>>
        BY <1>0, <2>2
  <2> QED BY <1>7, <2>1, <2>2 DEF QueueLapses, PurgeKeys
<1>8. ASSUME DisconnectUser PROVE NoticesApart'
  <2>1. UNCHANGED <<queue, notice, excused>>
        BY <1>8 DEF DisconnectUser
  <2>2. \A t \in Sockets : /\ sock'[t].replay = sock[t].replay
                           /\ sock'[t].phase \in {"away", "shaking"} => sock[t].phase \in {"away", "shaking"}
        BY <1>8 DEF DisconnectUser, PresenceTyped, SocketRecords
  <2> QED BY <1>0, <2>1, <2>2
<1>9. ASSUME Restart PROVE NoticesApart'
  <2>1. \A t \in Sockets : sock'[t].replay = {}
        BY <1>9 DEF Restart, Offline, PresenceTyped, SocketRecords
  <2>2. \A n \in Notices : notice'[n].phase = IF notice[n].phase = "looked" THEN "sent" ELSE notice[n].phase
        BY <1>9 DEF Restart, PresenceTyped, NoticeRecords
  <2>3. queue' = queue
        BY <1>9 DEF Restart
  <2>4. excused' = excused \union (UNION {sock[s].replay : s \in Sockets}) \union {n \in Notices : notice[n].phase = "looked"}
        BY <1>9 DEF Restart
  <2>5. \A n \in Notices : n \in excused' <=>
           n \in excused \/ (\E s \in Sockets : Drained(n, s)) \/ notice[n].phase = "looked"
        BY <2>4 DEF Drained
  <2> QED BY <2>1, <2>2, <2>3, <2>5 DEF NoticesApart, Queued, Told, OnItsWay, Drained
<1>10. ASSUME NEW s \in Sockets,
              \/ UpdateLocation(s) \/ ClaimEncounters(s) \/ ClaimFails(s) \/ LookUp(s) \/ LookUpFails(s)
              \/ TellEncounters(s)
       PROVE  NoticesApart'
      BY <1>0, <1>10 DEF UpdateLocation, ClaimEncounters, ClaimFails, LookUp, LookUpFails, TellEncounters
<1>11. ASSUME NEW o \in Opponents, CooldownLapses(o) PROVE NoticesApart'
      BY <1>0, <1>11 DEF CooldownLapses
<1>12. ASSUME MetaLapses \/ PruneRead \/ PruneRemove \/ Hide \/ DeleteRow \/ SettleDuels PROVE NoticesApart'
      BY <1>0, <1>12 DEF MetaLapses, PruneRead, PruneRemove, Hide, DeleteRow, SettleDuels
<1> QED BY <1>1, <1>2, <1>3, <1>4, <1>5, <1>6, <1>7, <1>8, <1>9, <1>10, <1>11, <1>12 DEF PresenceNext

(* A notice is in exactly one place. *)
LEMMA AccountedFor == PresenceTyped /\ NoticesApart => EveryNoticeAccountedFor
<1> SUFFICES ASSUME PresenceTyped, NoticesApart, NEW n \in Notices
             PROVE  LET places == {p \in {"queue", "told", "excused", "way"} :
                                     CASE p = "queue" -> n \in Range(queue)
                                       [] p = "told" -> notice[n].phase = "told"
                                       [] p = "excused" -> n \in excused
                                       [] p = "way" -> notice[n].phase \in {"new", "looked"}}
                    IN  Cardinality(places) + Cardinality({s \in Sockets : n \in sock[s].replay}) = 1
    BY DEF EveryNoticeAccountedFor
<1> DEFINE places == {p \in {"queue", "told", "excused", "way"} :
                        CASE p = "queue" -> n \in Range(queue)
                          [] p = "told" -> notice[n].phase = "told"
                          [] p = "excused" -> n \in excused
                          [] p = "way" -> notice[n].phase \in {"new", "looked"}}
           drained == {s \in Sockets : n \in sock[s].replay}
<1>1. /\ "queue" \in places <=> Queued(n)
      /\ "told" \in places <=> Told(n)
      /\ "excused" \in places <=> n \in excused
      /\ "way" \in places <=> OnItsWay(n)
      /\ \A p \in places : p \in {"queue", "told", "excused", "way"}
      BY DEF Queued, Told, OnItsWay
<1>2. \A s : s \in drained <=> s \in Sockets /\ Drained(n, s)
      BY DEF Drained
<1>3. ~(Told(n) /\ OnItsWay(n))
      BY DEF Told, OnItsWay
<1> SUFFICES Cardinality(places) + Cardinality(drained) = 1
    OBVIOUS
<1> HIDE DEF places, drained
<1>4. CASE \E s \in Sockets : Drained(n, s)
  <2>1. PICK s \in Sockets : Drained(n, s)
        BY <1>4
  <2>2. drained = {s}
        BY <1>2, <2>1 DEF NoticesApart
  <2>3. places = {}
        BY <1>1, <2>1 DEF NoticesApart
  <2>4. Cardinality({s}) = 1 /\ Cardinality({}) = 0
        BY FS_Singleton, FS_EmptySet
  <2> QED BY <2>2, <2>3, <2>4
<1>5. CASE ~\E s \in Sockets : Drained(n, s)
  <2>1. drained = {}
        BY <1>2, <1>5
  <2>2. \E p : places = {p}
    <3>1. Queued(n) \/ Told(n) \/ n \in excused \/ OnItsWay(n)
          BY <1>5 DEF NoticesApart
    <3>2. CASE Queued(n)
      <4>1. places = {"queue"}
            BY <1>1, <3>2 DEF NoticesApart
      <4> QED BY <4>1
    <3>3. CASE n \in excused
      <4>1. places = {"excused"}
            BY <1>1, <3>3 DEF NoticesApart
      <4> QED BY <4>1
    <3>4. CASE Told(n)
      <4>1. places = {"told"}
            BY <1>1, <1>3, <3>4 DEF NoticesApart
      <4> QED BY <4>1
    <3>5. CASE OnItsWay(n)
      <4>1. places = {"way"}
            BY <1>1, <1>3, <3>5 DEF NoticesApart
      <4> QED BY <4>1
    <3> QED BY <3>1, <3>2, <3>3, <3>4, <3>5
  <2>3. PICK p : places = {p}
        BY <2>2
  <2>4. Cardinality({p}) = 1 /\ Cardinality({}) = 0
        BY FS_Singleton, FS_EmptySet
  <2> QED BY <2>1, <2>3, <2>4
<1> QED BY <1>4, <1>5

LEMMA PresenceKept == PresenceSpec => []PresenceInv
<1>1. PresenceInit => PresenceInv
      BY TypedAtFirst
<1>2. PresenceInv /\ [PresenceNext]_presenceVars => PresenceInv'
  <2> SUFFICES ASSUME PresenceInv, [PresenceNext]_presenceVars PROVE PresenceInv'
      OBVIOUS
  <2>1. CASE PresenceNext
    <3>1. PresenceTyped'
          BY <2>1, TypesKept DEF PresenceInv
    <3>2. SocketsFit' /\ MapShowsWhoIsThere'
          BY <2>1, MapKept DEF PresenceInv, MapFits
    <3>3. NoticesApart'
          BY <2>1, NoticesKept DEF PresenceInv
    <3>4. MeetingsFit'
          BY <2>1, MeetingsKept DEF PresenceInv
    <3> QED BY <3>1, <3>2, <3>3, <3>4 DEF PresenceInv
  <2>2. CASE UNCHANGED presenceVars
        BY <2>2 DEF presenceVars, PresenceInv, PresenceTyped, SocketsFit, MapShowsWhoIsThere, GoneLeavesNoTrace,
                    NewerSocketStays, Connected, NoticesApart, Queued, Told, OnItsWay, Drained, MeetingsFit,
                    CooldownMeansNotice
  <2> QED BY <2>1, <2>2
<1> QED BY <1>1, <1>2, PTL DEF PresenceSpec

(* Nobody is shown who has gone, and nobody taken off the map who still reports: for every    *)
(* number of devices, whatever order handleDisconnect, location:update, the clean-up job and  *)
(* deleteAccount take their steps in (realtime.gateway.ts, geo keys of redis.service.ts).     *)
THEOREM MapIsRight == PresenceSpec => []MapShowsWhoIsThere
<1>1. PresenceInv => MapShowsWhoIsThere
      BY DEF PresenceInv
<1> QED BY <1>1, PresenceKept, PTL

(* A stored notification is drained for one connection and told, or lost for a known reason,  *)
(* and the cooldown of an encounter stands for one the opponent was told of, unless the       *)
(* handler failed or died between taking the key and telling him: for every number of         *)
(* notices and opponents, and every limit of the queue (notifyUser, handleConnection,         *)
(* handleLocationUpdate).                                                                     *)
THEOREM NoticesAreKept == PresenceSpec => []NothingLostSilently
<1>1. PresenceInv => NothingLostSilently
      BY AccountedFor DEF PresenceInv, MeetingsFit, NothingLostSilently
<1> QED BY <1>1, PresenceKept, PTL

-----------------------------------------------------------------------------
(* Types of Presence: beside the shapes above, the queue is no longer than its limit and the  *)
(* troubles are within their bound.                                                           *)
QueueWithin == Len(queue) <= QueueMax
PresenceWithin ==
  /\ scene \in {"notices", "meetings"} /\ account \in BOOLEAN /\ prune \in BOOLEAN
  /\ troubles \in 0..MaxTroubles /\ cooldown \subseteq Opponents /\ met \union untold \subseteq Opponents

(* A queue grows by one at most, and what is over its limit is cut.                           *)
LEMMA QueueStaysWithin ==
  ASSUME PresenceTyped, QueueWithin, PresenceNext
  PROVE  QueueWithin'
<1>1. queue \in Seq(Notices) /\ QueueMax \in Nat \ {0} /\ Len(queue) <= QueueMax
      BY PresenceAssumption DEF PresenceTyped, QueueWithin
<1>2. queue' = queue \/ queue' = <<>> \/ (\E n \in Notices : queue' = Trimmed(Append(queue, n)))
  <2> USE DEF notices
  <2>1. ASSUME NEW s \in Sockets,
               \/ Handshake(s) \/ Connect(s) \/ Replay(s) \/ NetworkBreaks(s) \/ Disconnect(s)
               \/ AfterDisconnect(s) \/ UpdateLocation(s)
        PROVE  queue' = queue \/ queue' = <<>>
        BY <2>1 DEF Handshake, Connect, Replay, AfterReplay, NetworkBreaks, Disconnect, AfterDisconnect, UpdateLocation
  <2>2. ASSUME NEW s \in Sockets,
               ClaimEncounters(s) \/ ClaimFails(s) \/ LookUp(s) \/ LookUpFails(s) \/ TellEncounters(s)
        PROVE  queue' = queue
        BY <2>2 DEF ClaimEncounters, ClaimFails, LookUp, LookUpFails, TellEncounters
  <2>3. ASSUME NEW o \in Opponents, CooldownLapses(o) PROVE queue' = queue
        BY <2>3 DEF CooldownLapses
  <2>4. ASSUME NEW n \in Notices, Notify(n) \/ Deliver(n) \/ NotifyFails(n)
        PROVE  queue' = queue \/ queue' = Trimmed(Append(queue, n))
        BY <2>4 DEF Notify, Deliver, NotifyFails
  <2>5. ASSUME QueueLapses \/ MetaLapses \/ PruneRead \/ PruneRemove \/ Hide \/ DeleteRow
               \/ SettleDuels \/ DisconnectUser \/ PurgeKeys \/ Restart
        PROVE  queue' = queue \/ queue' = <<>>
        BY <2>5 DEF QueueLapses, MetaLapses, PruneRead, PruneRemove, Hide, DeleteRow, SettleDuels,
                    DisconnectUser, PurgeKeys, Restart
  <2> QED BY <2>1, <2>2, <2>3, <2>4, <2>5 DEF PresenceNext
<1>3. ASSUME NEW n \in Notices PROVE Len(Trimmed(Append(queue, n))) <= QueueMax
      BY <1>1 DEF Trimmed
<1>4. Len(<<>>) <= QueueMax
      BY <1>1
<1> QED BY <1>1, <1>2, <1>3, <1>4 DEF QueueWithin

LEMMA PresenceStaysWithin ==
  ASSUME PresenceTyped, PresenceWithin, PresenceNext
  PROVE  PresenceWithin'
<1> USE DEF person, whereabouts, notices, encounters
<1>1. ASSUME NEW s \in Sockets,
             \/ Handshake(s) \/ Connect(s) \/ Replay(s) \/ NetworkBreaks(s) \/ Disconnect(s)
             \/ AfterDisconnect(s) \/ UpdateLocation(s)
      PROVE  /\ UNCHANGED <<scene, account, prune, cooldown, met, untold>>
             /\ UNCHANGED troubles \/ Trouble
      BY <1>1 DEF Handshake, Connect, Replay, NetworkBreaks, Disconnect, AfterDisconnect, UpdateLocation
<1>2. ASSUME NEW s \in Sockets,
             ClaimEncounters(s) \/ ClaimFails(s) \/ LookUp(s) \/ LookUpFails(s) \/ TellEncounters(s)
      PROVE  /\ UNCHANGED <<scene, account, prune>> /\ (UNCHANGED troubles \/ Trouble)
             /\ cooldown' \subseteq Opponents /\ met' \union untold' \subseteq Opponents
  <2>1. meeting[s].with \subseteq Opponents
        BY DEF PresenceTyped, MeetingRecords
  <2> QED BY <1>2, <2>1 DEF PresenceWithin, ClaimEncounters, ClaimFails, LookUp, LookUpFails, TellEncounters
<1>3. ASSUME NEW o \in Opponents, CooldownLapses(o)
      PROVE  /\ UNCHANGED <<scene, account, prune, troubles>>
             /\ cooldown' \subseteq Opponents /\ met' \union untold' \subseteq Opponents
      BY <1>3 DEF PresenceWithin, CooldownLapses
<1>4. ASSUME NEW n \in Notices, Notify(n) \/ Deliver(n) \/ NotifyFails(n)
      PROVE  UNCHANGED <<scene, account, prune, cooldown, met, untold>> /\ (UNCHANGED troubles \/ Trouble)
      BY <1>4 DEF Notify, Deliver, NotifyFails
<1>5. ASSUME QueueLapses \/ MetaLapses \/ PruneRead \/ PruneRemove
      PROVE  /\ UNCHANGED <<scene, account, cooldown, met, untold>> /\ (UNCHANGED troubles \/ Trouble)
             /\ prune' \in {prune, TRUE, FALSE}
      BY <1>5 DEF QueueLapses, MetaLapses, PruneRead, PruneRemove
<1>6. ASSUME Hide \/ DeleteRow \/ SettleDuels \/ DisconnectUser
      PROVE  /\ UNCHANGED <<scene, prune, cooldown, met, untold>> /\ (UNCHANGED troubles \/ Trouble)
             /\ account' \in {account, FALSE}
      BY <1>6 DEF Hide, DeleteRow, SettleDuels, DisconnectUser
<1>7. ASSUME PurgeKeys
      PROVE  /\ UNCHANGED <<scene, account, prune>> /\ (UNCHANGED troubles \/ Trouble)
             /\ cooldown' \in {cooldown, {}} /\ met' \in {met, {}} /\ untold' \in {untold, {}}
      BY <1>7 DEF PurgeKeys
<1>8. ASSUME Restart
      PROVE  /\ UNCHANGED <<scene, account, cooldown>> /\ Trouble
             /\ prune' = FALSE /\ met' \union untold' \subseteq Opponents
  <2>1. \A s \in Sockets : meeting[s].with \subseteq Opponents
        BY DEF PresenceTyped, MeetingRecords
  <2>2. UNION {meeting[s].with : s \in {t \in Sockets : meeting[t].phase # "claim"}} \subseteq Opponents
        BY <2>1
  <2> QED BY <1>8, <2>2 DEF Restart, PresenceWithin
<1>9. Trouble => troubles' \in 0..MaxTroubles
      BY PresenceAssumption DEF Trouble, PresenceWithin
<1> HIDE DEF person, whereabouts, notices, encounters
<1>10. /\ scene' = scene /\ account' \in {account, FALSE} /\ prune' \in {prune, TRUE, FALSE}
       /\ UNCHANGED troubles \/ Trouble
       /\ cooldown' \subseteq Opponents /\ met' \union untold' \subseteq Opponents
  <2>1. cooldown \subseteq Opponents /\ met \union untold \subseteq Opponents
        BY DEF PresenceWithin
  <2> QED BY <2>1, <1>1, <1>2, <1>3, <1>4, <1>5, <1>6, <1>7, <1>8 DEF PresenceNext
<1>11. account' \in BOOLEAN /\ prune' \in BOOLEAN
       BY <1>10 DEF PresenceWithin
<1> QED BY <1>9, <1>10, <1>11 DEF PresenceWithin

(* Sockets, notices and meetings keep their shapes, and the stored notifications never are    *)
(* more than NOTIFICATION_MAX, in every step of the gateway, the jobs and the deletion of an  *)
(* account.                                                                                   *)
THEOREM PresenceStaysTyped == PresenceSpec => []PresenceTypeOK
<1>1. PresenceInit => QueueWithin /\ PresenceWithin
  <2>1. QueueMax \in Nat /\ MaxTroubles \in Nat /\ Len(<<>>) = 0
        BY PresenceAssumption
  <2>2. PresenceInit => QueueWithin
        BY <2>1 DEF PresenceInit, QueueWithin
  <2>3. MaxTroubles \in 0..MaxTroubles
        BY <2>1
  <2>4. PresenceInit => PresenceWithin
        BY <2>3, Zenon DEF PresenceInit, PresenceWithin
  <2> QED BY <2>2, <2>4
<1>2. PresenceInv /\ QueueWithin /\ PresenceWithin /\ [PresenceNext]_presenceVars => QueueWithin' /\ PresenceWithin'
  <2> SUFFICES ASSUME PresenceInv, QueueWithin, PresenceWithin, [PresenceNext]_presenceVars
               PROVE  QueueWithin' /\ PresenceWithin'
      OBVIOUS
  <2>1. CASE PresenceNext
        BY <2>1, QueueStaysWithin, PresenceStaysWithin DEF PresenceInv
  <2>2. CASE UNCHANGED presenceVars
        BY <2>2 DEF presenceVars, QueueWithin, PresenceWithin
  <2> QED BY <2>1, <2>2
<1>3. PresenceInv /\ QueueWithin /\ PresenceWithin => PresenceTypeOK
      BY DEF PresenceInv, PresenceTyped, PresenceWithin, QueueWithin, PresenceTypeOK,
             SocketRecords, NoticeRecords, MeetingRecords
<1> QED BY <1>1, <1>2, <1>3, PresenceKept, PTL DEF PresenceSpec

-----------------------------------------------------------------------------
(* The server's realtime side and the phone together.                                       *)
LEMMA BlocksAsComponent == RealtimeSpec => BlocksSpec
<1>1. RealtimeInit => BlocksInit
  BY DEF RealtimeInit
<1>2. [RealtimeNext]_realtimeVars => [BlocksNext]_blocksVars
  BY DEF RealtimeNext, realtimeVars
<1> QED
  BY <1>1, <1>2, PTL DEF RealtimeSpec, BlocksSpec

LEMMA PresenceAsComponent == RealtimeSpec => PresenceSpec
<1>1. RealtimeInit => PresenceInit
  BY DEF RealtimeInit
<1>2. [RealtimeNext]_realtimeVars => [PresenceNext]_presenceVars
  BY DEF RealtimeNext, realtimeVars
<1> QED
  BY <1>1, <1>2, PTL DEF RealtimeSpec, PresenceSpec

LEMMA ChatAsComponent == RealtimeSpec => ChatSpec
<1>1. RealtimeInit => ChatInit
  BY DEF RealtimeInit
<1>2. [RealtimeNext]_realtimeVars => [ChatNext]_chatVars
  BY DEF RealtimeNext, realtimeVars
<1> QED
  BY <1>1, <1>2, PTL DEF RealtimeSpec, ChatSpec

LEMMA ClientAsComponent == RealtimeSpec => ClientSpec
<1>1. RealtimeInit => ClientInit
  BY DEF RealtimeInit
<1>2. [RealtimeNext]_realtimeVars => [ClientNext]_clientVars
  BY DEF RealtimeNext, realtimeVars
<1> QED
  BY <1>1, <1>2, PTL DEF RealtimeSpec, ClientSpec

LEMMA SignInAsComponent == RealtimeSpec => SignInSpec
<1>1. RealtimeInit => SignInInit
  BY DEF RealtimeInit
<1>2. [RealtimeNext]_realtimeVars => [SignInNext]_signInVars
  BY DEF RealtimeNext, realtimeVars
<1> QED
  BY <1>1, <1>2, PTL DEF RealtimeSpec, SignInSpec

LEMMA LocationAsComponent == RealtimeSpec => LocationSpec
<1>1. RealtimeInit => LocationInit
  BY DEF RealtimeInit
<1>2. [RealtimeNext]_realtimeVars => [LocationNext]_locationVars
  BY DEF RealtimeNext, realtimeVars
<1> QED
  BY <1>1, <1>2, PTL DEF RealtimeSpec, LocationSpec

LEMMA GameScreenAsComponent == RealtimeSpec => GameScreenSpec
<1>1. RealtimeInit => GameScreenInit
  BY DEF RealtimeInit
<1>2. [RealtimeNext]_realtimeVars => [GameScreenNext]_gameVars
  BY DEF RealtimeNext, realtimeVars
<1> QED
  BY <1>1, <1>2, PTL DEF RealtimeSpec, GameScreenSpec

LEMMA MapSheetAsComponent == RealtimeSpec => MapSheetSpec
<1>1. RealtimeInit => MapSheetInit
  BY DEF RealtimeInit
<1>2. [RealtimeNext]_realtimeVars => [MapSheetNext]_mapVars
  BY DEF RealtimeNext, realtimeVars
<1> QED
  BY <1>1, <1>2, PTL DEF RealtimeSpec, MapSheetSpec

LEMMA SeasonAsComponent == RealtimeSpec => SeasonSpec
<1>1. RealtimeInit => SeasonInit
  BY DEF RealtimeInit
<1>2. [RealtimeNext]_realtimeVars => [SeasonNext]_seasonVars
  BY DEF RealtimeNext, realtimeVars
<1> QED
  BY <1>1, <1>2, PTL DEF RealtimeSpec, SeasonSpec

(* A behaviour of the whole is a behaviour of every component: a step is one of the         *)
(* component in focus, and no component writes what another one reads.                      *)
THEOREM RealtimeCompose ==
  RealtimeSpec => /\ BlocksSpec /\ PresenceSpec /\ ChatSpec /\ ClientSpec /\ SignInSpec /\ LocationSpec
                  /\ GameScreenSpec /\ MapSheetSpec /\ SeasonSpec
<1> QED
  BY BlocksAsComponent, PresenceAsComponent, ChatAsComponent, ClientAsComponent, SignInAsComponent, LocationAsComponent,
     GameScreenAsComponent, MapSheetAsComponent, SeasonAsComponent

(* So what was shown of each holds of the whole.                                            *)
THEOREM RealtimeHold ==
  RealtimeSpec => /\ [](BlockedHearNothing /\ MapShowsWhoIsThere /\ NothingLostSilently /\ ShownAsItIs)
                  /\ [](OverlayFollowsDuel /\ SignUpHolds /\ WatcherServesScreens)
                  /\ [](ScreenPlaysTheRound /\ SheetIsOfThisVisit /\ RankingUnderItsNumber)
                  /\ ClosedForAReason
<1>1. BlocksSpec => []BlockedHearNothing
  BY BlocksHold
<1>2. PresenceSpec => []MapShowsWhoIsThere /\ []NothingLostSilently
  BY MapIsRight, NoticesAreKept
<1>3. (ChatSpec => []ShownAsItIs) /\ (SignInSpec => []SignUpHolds)
  BY MessagesShownAsTheyAre, SignUpIsKept
<1>4. ClientSpec => []OverlayFollowsDuel /\ ClosedForAReason
  BY ScreensFollowTheDuel, ScreensCloseForAReason
<1>5. (LocationSpec => []WatcherServesScreens) /\ (GameScreenSpec => []ScreenPlaysTheRound)
  BY WatcherIsOurs, ScreenPlays
<1>6. (MapSheetSpec => []SheetIsOfThisVisit) /\ (SeasonSpec => []RankingUnderItsNumber)
  BY SheetIsOwn, RankingIsOfItsSeason
<1> QED
  BY <1>1, <1>2, <1>3, <1>4, <1>5, <1>6, RealtimeCompose, PTL

Focusable == {"blocks", "presence", "chat", "client", "signin", "location", "game", "map", "season"}

(* And the component that moves keeps its types.                                            *)
THEOREM RealtimeTyped == RealtimeSpec => []RealtimeTypeOK
<1>1. RealtimeSpec => [](focus \in Focusable)
  <2>1. RealtimeInit => focus \in Focusable
    BY DEF RealtimeInit, Focusable
  <2>2. focus \in Focusable /\ [RealtimeNext]_realtimeVars => (focus \in Focusable)'
    BY DEF RealtimeNext, realtimeVars
  <2> QED
    BY <2>1, <2>2, PTL DEF RealtimeSpec
<1>2. /\ focus \in Focusable /\ BlocksTypeOK /\ PresenceTypeOK /\ ChatTypeOK /\ ClientTypeOK /\ SignInTypeOK
      /\ LocationTypeOK /\ GameScreenTypeOK /\ MapSheetTypeOK /\ SeasonTypeOK
      => RealtimeTypeOK
  BY DEF Focusable, RealtimeTypeOK
<1> QED
  BY <1>1, <1>2, RealtimeCompose, BlocksStayTyped, PresenceStaysTyped, ChatStaysTyped, ClientStaysTyped, SignInStaysTyped,
     LocationStaysTyped, GameStaysTyped, MapStaysTyped, SeasonStaysTyped, PTL
=============================================================================
