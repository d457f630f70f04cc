------------------------------- MODULE Blocks -------------------------------
(***************************************************************************)
(* Team chat and blocks (chat/chat.gateway.ts, moderation/moderation.      *)
(* service.ts).  A message of the sender goes to his team except to those  *)
(* who have blocked him; who has is read from a cache in Redis, or from    *)
(* the table and then cached, unless a version counter shows that a block  *)
(* came in between.                                                        *)
(*                                                                         *)
(* Keys and rows of different senders are apart, so there is one sender.   *)
(***************************************************************************)
EXTENDS Integers, FiniteSets

CONSTANTS
  Members,      \* the others of his team
  Relays,       \* messages of the sender being handled
  MaxChanges,   \* blocks and unblocks
  MaxOutages    \* Redis calls that fail

Uncached == {"uncached"}

ASSUME BlocksAssumption ==
  /\ MaxChanges \in Nat /\ MaxOutages \in Nat
  /\ "uncached" \notin Members

VARIABLES
  blocks,      \* rows of user_blocks against the sender
  version,     \* the version key; 0 while it does not exist
  cached,      \* the key of the cached list, or Uncached
  change,      \* block and unblock requests of the members
  relay,       \* messages between two awaits
  changes,     \* changes left
  outages,     \* failures left
  raced,       \* history: the cached list was written after the version had moved on from its comparison
  unheard      \* history: members whose change was not announced in Redis

blocksVars == <<blocks, version, cached, change, relay, changes, outages, raced, unheard>>

(* `before` is the version read first, `ids` the list read.  History: `at` is the version *)
(* when it was compared; `sure` are blocks that were in force when the handling began and *)
(* ever since; `raced`, that the list read from the cache had been written over a version *)
(* that had moved on since its comparison.                                                *)
Silent == [phase |-> "idle", before |-> 0, at |-> 0, ids |-> {}, sure |-> {}, raced |-> FALSE]

BlocksInit ==
  /\ blocks = {} /\ version = 0 /\ cached = Uncached
  /\ change = [m \in Members |-> "idle"]
  /\ relay = [r \in Relays |-> Silent]
  /\ changes = MaxChanges /\ outages = MaxOutages /\ raced = FALSE /\ unheard = {}

RedisFails == outages > 0 /\ outages' = outages - 1

-----------------------------------------------------------------------------
(* block and unblock: the row, then the version, then the list. *)

Block(m) ==
  /\ change[m] = "idle" /\ changes > 0
  /\ blocks' = blocks \union {m}
  /\ change' = [change EXCEPT ![m] = "announce"]
  /\ changes' = changes - 1
  /\ UNCHANGED <<version, cached, relay, outages, raced, unheard>>

Unblock(m) ==
  /\ change[m] = "idle" /\ changes > 0 /\ m \in blocks
  /\ blocks' = blocks \ {m}
  /\ change' = [change EXCEPT ![m] = "announce"]
  /\ changes' = changes - 1
  /\ relay' = [r \in Relays |-> [relay[r] EXCEPT !.sure = @ \ {m}]]
  /\ UNCHANGED <<version, cached, outages, raced, unheard>>

(* The version goes up before the list is deleted, so that a read under way does not      *)
(* cache what it has read.                                                                *)
Order == <<"version", "list">>
Announce(key) ==
  CASE key = "version" -> version' = version + 1 /\ UNCHANGED <<cached, raced>>
    [] key = "list" -> cached' = Uncached /\ raced' = FALSE /\ UNCHANGED version

AnnounceFirst(m) ==
  /\ change[m] = "announce"
  /\ Announce(Order[1])
  /\ change' = [change EXCEPT ![m] = "finish"]
  /\ UNCHANGED <<blocks, relay, changes, outages, unheard>>

AnnounceSecond(m) ==
  /\ change[m] = "finish"
  /\ Announce(Order[2])
  /\ change' = [change EXCEPT ![m] = "idle"]
  /\ UNCHANGED <<blocks, relay, changes, outages, unheard>>

(* A failure of Redis is logged and the request succeeds. *)
AnnounceFails(m) ==
  /\ change[m] \in {"announce", "finish"} /\ RedisFails
  /\ change' = [change EXCEPT ![m] = "idle"]
  /\ unheard' = unheard \union {m}
  /\ UNCHANGED <<blocks, version, cached, relay, changes, raced>>

-----------------------------------------------------------------------------
(* handleChatMessage and getBlockedBy. *)

InForce == {m \in blocks : change[m] = "idle"}

Hear(r) ==
  /\ relay[r].phase = "idle"
  /\ relay' = [relay EXCEPT ![r] = [Silent EXCEPT !.phase = "cache", !.sure = InForce]]
  /\ UNCHANGED <<blocks, version, cached, change, changes, outages, raced, unheard>>

ReadCache(r) ==
  /\ relay[r].phase = "cache"
  /\ \/ /\ cached # Uncached
        /\ relay' = [relay EXCEPT ![r].phase = "send", ![r].ids = cached,
                                  ![r].raced = raced]
        /\ UNCHANGED outages
     \/ /\ cached = Uncached
        /\ relay' = [relay EXCEPT ![r].phase = "version"]
        /\ UNCHANGED outages
     \/ RedisFails /\ relay' = [relay EXCEPT ![r].phase = "rows"]
  /\ UNCHANGED <<blocks, version, cached, change, changes, raced, unheard>>

ReadVersion(r) ==
  /\ relay[r].phase = "version"
  /\ \/ relay' = [relay EXCEPT ![r].phase = "rows", ![r].before = version] /\ UNCHANGED outages
     \/ RedisFails /\ relay' = [relay EXCEPT ![r].phase = "rows"]
  /\ UNCHANGED <<blocks, version, cached, change, changes, raced, unheard>>

ReadRows(r) ==
  /\ relay[r].phase = "rows"
  /\ relay' = [relay EXCEPT ![r].phase = "compare", ![r].ids = blocks]
  /\ UNCHANGED <<blocks, version, cached, change, changes, outages, raced, unheard>>

(* The list is cached only when the version is still the one read before the rows. *)
Unchecked(r) == TRUE
SameVersion(r) == relay[r].before = version
Compare(r) ==
  /\ relay[r].phase = "compare"
  /\ \/ /\ relay' = [relay EXCEPT ![r].phase = IF SameVersion(r) THEN "store" ELSE "send",
                                  ![r].at = version]
        /\ UNCHANGED outages
     \/ RedisFails /\ relay' = [relay EXCEPT ![r].phase = "send"]
  /\ UNCHANGED <<blocks, version, cached, change, changes, raced, unheard>>

(* A second call stores it: the version may have moved since it was compared. *)
Store(r) ==
  /\ relay[r].phase = "store"
  /\ relay' = [relay EXCEPT ![r].phase = "send"]
  /\ \/ /\ cached' = relay[r].ids
        /\ raced' = (version # relay[r].at)
        /\ UNCHANGED outages
     \/ RedisFails /\ UNCHANGED <<cached, raced>>
  /\ UNCHANGED <<blocks, version, change, changes, unheard>>

(* The message goes to everyone in the team's room except those listed. *)
Send(r) ==
  /\ relay[r].phase = "send"
  /\ relay' = [relay EXCEPT ![r] = Silent]
  /\ UNCHANGED <<blocks, version, cached, change, changes, outages, raced, unheard>>

CacheLapses ==
  /\ cached # Uncached
  /\ cached' = Uncached /\ raced' = FALSE
  /\ UNCHANGED <<blocks, version, change, relay, changes, outages, unheard>>

BlocksNext ==
  \/ \E m \in Members : \/ Block(m) \/ Unblock(m)
                        \/ AnnounceFirst(m) \/ AnnounceSecond(m) \/ AnnounceFails(m)
  \/ \E r \in Relays : \/ Hear(r) \/ ReadCache(r) \/ ReadVersion(r) \/ ReadRows(r)
                       \/ Compare(r) \/ Store(r) \/ Send(r)
  \/ CacheLapses

BlocksSpec == BlocksInit /\ [][BlocksNext]_blocksVars

-----------------------------------------------------------------------------
BlocksTypeOK ==
  /\ blocks \subseteq Members /\ unheard \subseteq Members /\ raced \in BOOLEAN
  /\ version \in 0..MaxChanges /\ changes \in 0..MaxChanges /\ outages \in 0..MaxOutages
  /\ cached \in (SUBSET Members) \union {Uncached}
  /\ change \in [Members -> {"idle", "announce", "finish"}]
  /\ relay \in [Relays -> [phase : {"idle", "cache", "version", "rows", "compare", "store", "send"},
                           before : 0..MaxChanges, at : 0..MaxChanges, ids : SUBSET Members, sure : SUBSET Members,
                           raced : BOOLEAN]]

(* Who had blocked the sender before his message was taken up does not get it.  What the  *)
(* version cannot prevent is excepted: a change whose announcement failed, and a list     *)
(* stored in the gap between the comparison and the store, until it is deleted or lapses. *)
BlockedHearNothing ==
  \A r \in Relays :
    relay[r].phase = "send" /\ ~relay[r].raced => relay[r].sure \ unheard \subseteq relay[r].ids
=============================================================================
