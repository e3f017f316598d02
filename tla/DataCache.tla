---- MODULE DataCache ----
(***************************************************************************)
(* The server's cache of the price files: the raw series, the series with  *)
(* indicators and the index of symbols, each loaded by the first request   *)
(* that needs it.  Whoever has changed the files, in this process or       *)
(* another, writes a new generation number; a request compares it, at most *)
(* every ten seconds, with the one the cache was built from, and drops the *)
(* whole cache if they differ.                                             *)
(***************************************************************************)
EXTENDS Integers

CONSTANTS
  Requests,   \* threads of the server that read the cache
  MaxChanges  \* bound: changes of the files

ASSUME CacheAssumption == "free" \notin Requests /\ MaxChanges \in Nat

CacheParts == {"raw", "dataset", "index"}
NoFrame == -1

VARIABLES
  files,       \* changes of the files so far
  generation,  \* the number on file: the changes that it accounts for
  cache,       \* per part the changes that it contains, None if not loaded
  built,       \* the generation the cache was built from, None if empty
  cacheLock,   \* the request that loads, "free"
  request,     \* per request: where it is, the part it wants
  masked       \* parts older than a generation that was noted over theirs

cacheVars == <<files, generation, cache, built, cacheLock, request, masked>>

Empty == [p \in CacheParts |-> NoFrame]

CacheInit ==
  /\ files = 0 /\ generation = 0
  /\ cache = Empty /\ built = NoFrame
  /\ cacheLock = "free"
  /\ request = [r \in Requests |-> [pc |-> "idle", part |-> "raw"]]
  /\ masked = {}

(* A job or a tool writes files, and when it is done a new generation.      *)
WritesFile ==
  /\ files < MaxChanges
  /\ files' = files + 1
  /\ UNCHANGED <<generation, cache, built, cacheLock, request, masked>>

Marks ==
  /\ generation' = files
  /\ UNCHANGED <<files, cache, built, cacheLock, request, masked>>

Drops ==
  /\ cache' = Empty /\ built' = NoFrame
  /\ masked' = {}

(* A job of the server drops the cache itself, and then marks.              *)
Invalidates ==
  /\ cacheLock = "free"
  /\ Drops
  /\ UNCHANGED <<files, generation, cacheLock, request>>

---------------------------------------------------------------------------
To(r, pc) == request' = [request EXCEPT ![r].pc = pc]

(* A request begins, and checks the generation unless that was done within  *)
(* the last ten seconds.                                                    *)
Asks(r) ==
  /\ request[r].pc = "idle"
  /\ \E p \in CacheParts :
       request' = [request EXCEPT ![r] = [pc |-> "asked", part |-> p]]
  /\ \/ /\ cacheLock = "free"
        /\ built # NoFrame /\ built # generation
        /\ Drops
     \/ UNCHANGED <<cache, built, masked>>
  /\ UNCHANGED <<files, generation, cacheLock>>

(* A part that is there is given as it is; otherwise the request loads it   *)
(* when it has the lock and nobody has done so before.                      *)
Finds(r) ==
  /\ request[r].pc = "asked"
  /\ cache[request[r].part] # NoFrame
  /\ To(r, "idle")
  /\ UNCHANGED <<files, generation, cache, built, cacheLock, masked>>

(* Whatever the part, the generation is noted anew.                         *)
StartsAnew(r) ==
  /\ request[r].pc = "asked"
  /\ cacheLock = "free"
  /\ cache[request[r].part] = NoFrame
  /\ cacheLock' = r
  /\ built' = generation
  /\ To(r, "loads")
  /\ UNCHANGED <<files, generation, cache, masked>>

(* The generation is noted before the load: of the first part of the cache, *)
(* and of the series with indicators in any case, whatever the others are.  *)
RequestStarts(r) ==
  /\ request[r].pc = "asked"
  /\ cacheLock = "free"
  /\ cache[request[r].part] = NoFrame
  /\ cacheLock' = r
  /\ built' = IF built = NoFrame \/ request[r].part = "dataset"
              THEN generation ELSE built
  /\ masked' = IF request[r].part = "dataset" /\ built \notin {NoFrame, generation}
               THEN {p \in CacheParts : cache[p] # NoFrame} ELSE masked
  /\ To(r, "loads")
  /\ UNCHANGED <<files, generation, cache>>

Loaded(r) ==
  /\ request[r].pc = "loads"
  /\ cache' = [cache EXCEPT ![request[r].part] = files]
  /\ cacheLock' = "free"
  /\ To(r, "idle")
  /\ UNCHANGED <<files, generation, built, masked>>

(* A load that fails leaves the generation noted.                           *)
LoadFails(r) ==
  /\ request[r].pc = "loads"
  /\ cacheLock' = "free"
  /\ To(r, "idle")
  /\ UNCHANGED <<files, generation, cache, built, masked>>

CacheNext ==
  \/ WritesFile \/ Marks \/ Invalidates
  \/ \E r \in Requests : \/ Asks(r) \/ Finds(r) \/ RequestStarts(r)
                         \/ Loaded(r) \/ LoadFails(r)

CacheSpec == CacheInit /\ [][CacheNext]_cacheVars

---------------------------------------------------------------------------
CacheTypeOK ==
  /\ files \in Nat /\ generation \in Nat
  /\ cache \in [CacheParts -> Nat \cup {NoFrame}]
  /\ built \in Nat \cup {NoFrame}
  /\ cacheLock \in Requests \cup {"free"}
  /\ request \in [Requests -> [pc : {"idle", "asked", "loads"}, part : CacheParts]]
  /\ masked \subseteq CacheParts

(* A part that lacks a change whose generation is on file differs from it   *)
(* in the generation noted, so that the next check drops it: although parts *)
(* are loaded at different times, files change during a load, and a load    *)
(* may fail.  Except for the parts that were there when the series with     *)
(* indicators was loaded over an older generation.                          *)
StaleIsSeen ==
  \A p \in CacheParts \ masked :
    cache[p] # NoFrame /\ cache[p] < generation =>
      built # NoFrame /\ built < generation
====
