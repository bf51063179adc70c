--------------------------- MODULE ZipCacheRouter ---------------------------
(***************************************************************************)
(* The ZipCache tier router of src/zipcache.c: size classification, the    *)
(* PUT routing to the DRAM tree or the large-object (LO) store, the        *)
(* coordinated GET (DRAM -> LO -> SSD), DELETE, run-time thresholds, and   *)
(* the background clock eviction thread.                                   *)
(*                                                                         *)
(* Keys are the 32-bit FNV hashes the router uses as the index of every    *)
(* tree (zipcache_hash_key); the spec accepts collisions, so a key here is  *)
(* a hashed key.  A value is the caller's pointer as the C long the router *)
(* stores, written <<hi, lo>>: hi the upper 32 bits, lo the lower 32 bits  *)
(* read as a signed int; only its sign and equality matter.  The router    *)
(* calls the DRAM base tree's bplus_tree_put and bplus_tree_get directly   *)
(* (not the compressed tree's buffered API).  That tree is not under src/; *)
(* spec section 9 gives it long values with 0 reserved as "deleted"        *)
(* (section 4.G), and zipcache_put refuses a NULL value, so the long a PUT *)
(* stores is never 0.                                                      *)
(***************************************************************************)
EXTENDS Integers, FiniteSets

CONSTANTS
    Keys,             \* hashed keys
    Clients,          \* foreground threads calling the API
    Ptrs,             \* caller value pointers, as <<hi, lo>>
    Sizes,            \* object sizes in bytes offered to zipcache_put
    ThresholdChoices, \* <<tiny_max, medium_max>> pairs offered to set_thresholds
    DramCapacity,     \* cache->dram_capacity in bytes
    FileBytes,        \* size of the device holding the large-object file
    MaxCalls,         \* bound: number of API calls made by all clients
    DiskFaults,       \* whether the device may damage written bytes
    NoEntry,          \* the DRAM tree holds no record for the key
    NullPtr           \* object_pointer {0,0}: the LO index has no descriptor

ASSUME DramCapacity > 0 /\ FileBytes >= 0 /\ MaxCalls \in Nat

ZIPCACHE_TINY_DEFAULT == 128
ZIPCACHE_MEDIUM_DEFAULT == 2048
PAGE_SIZE == 4096

\* ZIPCACHE_TOMBSTONE_MARKER, (long)0xDEADBEEF: high word 0, low word
\* 0xDEADBEEF = -559038737 as a signed int.  As a long it is positive.
TOMBSTONE_MARKER == <<0, -559038737>>

\* The long a base-tree get returns when the key is absent (-1).
NOT_FOUND_LONG == <<-1, -1>>

\* dram_result > 0 for a long <<hi, lo>>.
IsPositive(v) == v[1] > 0 \/ (v[1] = 0 /\ v[2] # 0)

Codes == {"OK", "ERROR", "NOT_FOUND", "INVALID_SIZE", "IO_ERROR", "TOMBSTONE"}

TotalPages == DramCapacity \div PAGE_SIZE + 1

\* eviction.access_bits are calloc'd by zipcache_init and never set by any
\* path of zipcache.c (only the eviction loop writes them, clearing), so
\* every page is cold; EvictCold below computes the scan for that case.

VARIABLES
    tiny_threshold, medium_threshold,
    dram,        \* bt_dram: hashed key -> stored long, or NoEntry
    lo,          \* bt_lo: hashed key -> object_pointer, or NullPtr
    extents,     \* the large-object file: one record per pwrite
    ssd_offset,  \* append cursor of the large-object file
    memory_used, clock_hand,
    ev_pc,       \* eviction thread: "check", "evict", or "exited"
    shutdown_flag, \* cache->shutdown_flag, set by zipcache_destroy
    pc, req, ret,
    calls,       \* API calls made so far (bounded by MaxCalls)
    latest       \* history: the last successful PUT or the last DELETE per key

vars == <<tiny_threshold, medium_threshold, dram, lo, extents, ssd_offset,
          memory_used, clock_hand, ev_pc, shutdown_flag, pc, req, ret, calls, latest>>

Descriptor == [lba : Nat, size : Nat, sum : Ptrs]
Extent == [lba : Nat, len : Nat, data : Ptrs, intact : BOOLEAN]
Longs == Ptrs \cup {TOMBSTONE_MARKER, NOT_FOUND_LONG}
Result == [op : {"none", "put", "get", "delete", "set", "reset"}, key : Keys \cup {NoEntry},
           code : Codes \cup {"NONE"}, val : Longs \cup {NoEntry}]

NoResult == [op |-> "none", key |-> NoEntry, code |-> "NONE", val |-> NoEntry]
Ret(op, k, code, v) == [op |-> op, key |-> k, code |-> code, val |-> v]

TypeOK ==
    /\ tiny_threshold \in Nat /\ medium_threshold \in Nat
    /\ dram \in [Keys -> Longs \cup {NoEntry}]
    /\ lo \in [Keys -> Descriptor \cup {NullPtr}]
    /\ extents \subseteq Extent
    /\ ssd_offset \in 0..FileBytes
    /\ memory_used \in Int
    /\ clock_hand \in 0..TotalPages - 1
    /\ ev_pc \in {"check", "evict", "exited"}
    /\ shutdown_flag \in BOOLEAN
    /\ pc \in [Clients -> {"idle", "routing", "destroying", "destroyed"}]
    /\ ret \in [Clients -> Result]
    /\ calls \in 0..MaxCalls
    /\ latest \in [Keys -> [kind : {"none", "small", "large", "deleted"}, ptr : Ptrs \cup {NoEntry}]]

(***************************************************************************)
(* Pure helpers                                                            *)
(***************************************************************************)

\* zipcache_classify_object
zipcache_classify_object(size) ==
    IF size <= tiny_threshold THEN "TINY"
    ELSE IF size <= medium_threshold THEN "MEDIUM"
    ELSE "LARGE"

\* Fault variant of AlignedSize: rounding down instead of up.
AlignedSizeTruncated(size) == (size \div 4096) * 4096

\* aligned_size = ((size + 4095) / 4096) * 4096
AlignedSize(size) == ((size + 4095) \div 4096) * 4096

\* zipcache_needs_eviction: (double)usage / capacity >= 0.9, that is usage
\* at least 9/10 of the capacity rounded up.
EvictionTriggerBytes == (9 * DramCapacity + 9) \div 10
zipcache_needs_eviction == memory_used >= EvictionTriggerBytes

\* zipcache_read_large_object: pread of size bytes at lba, then the checksum
\* of what came back must equal the descriptor's.  The checksum is modelled
\* by what it decides: the bytes at lba are the payload of the extent written
\* there and they were not damaged since.
zipcache_read_large_object(d) ==
    /\ d.lba + d.size <= ssd_offset
    /\ \E e \in extents : e.lba = d.lba /\ e.intact /\ e.data = d.sum

\* zipcache_coordinated_read: the code and value a GET of k returns.  No
\* router path writes a value into bt_ssd (bplus_tree_ssd_put is only called
\* by DELETE, with data 0, which it refuses), so step 3 always misses.
zipcache_coordinated_read(k) ==
    LET dram_result == IF dram[k] = NoEntry THEN NOT_FOUND_LONG ELSE dram[k]
    IN  CASE IsPositive(dram_result) /\ dram_result = TOMBSTONE_MARKER
               -> [code |-> "TOMBSTONE", val |-> NoEntry]
          [] IsPositive(dram_result)
               -> [code |-> "OK", val |-> dram_result]
          [] lo[k] # NullPtr /\ zipcache_read_large_object(lo[k])
               -> [code |-> "OK", val |-> lo[k].sum]
          [] OTHER
               -> [code |-> "NOT_FOUND", val |-> NoEntry]

\* Fault variants of EvictCold: memory_used is lowered without the
\* ">= page_size" floor (a value below zero stands for the size_t wrap);
\* memory_used is not lowered.
EvictColdNoFloor(hand, mem, target) ==
    LET scans == (target + PAGE_SIZE - 1) \div PAGE_SIZE
    IN  [hand |-> (hand + scans) % TotalPages, mem |-> mem - scans * PAGE_SIZE]
EvictColdKeepsUsage(hand, mem, target) ==
    LET scans == (target + PAGE_SIZE - 1) \div PAGE_SIZE
    IN  [hand |-> (hand + scans) % TotalPages, mem |-> mem]

\* zipcache_evict_cold_pages with every access bit clear, as it always is
\* (the second-chance branch never runs): each scanned page is counted as
\* 4096 evicted bytes, so the loop scans until target_bytes are counted or
\* 2 * total_pages pages are passed, the hand advances once per page modulo
\* total_pages, and each page takes 4096 off memory_used while at least
\* 4096 remain.  Returns the hand and memory_used after the loop.
EvictCold(hand, mem, target) ==
    LET scans == IF target <= 0 THEN 0
                 ELSE LET need == (target + PAGE_SIZE - 1) \div PAGE_SIZE
                      IN IF need < TotalPages * 2 THEN need ELSE TotalPages * 2
        freed == IF scans < mem \div PAGE_SIZE THEN scans ELSE mem \div PAGE_SIZE
    IN  [hand |-> (hand + scans) % TotalPages, mem |-> mem - freed * PAGE_SIZE]

(***************************************************************************)
(* Actions                                                                 *)
(***************************************************************************)

Init ==
    /\ tiny_threshold = ZIPCACHE_TINY_DEFAULT
    /\ medium_threshold = ZIPCACHE_MEDIUM_DEFAULT
    /\ dram = [k \in Keys |-> NoEntry]
    /\ lo = [k \in Keys |-> NullPtr]
    /\ extents = {}
    /\ ssd_offset = 0
    /\ memory_used = 0
    /\ clock_hand = 0
    /\ ev_pc = "check"
    /\ shutdown_flag = FALSE
    /\ pc = [c \in Clients |-> "idle"]
    /\ req = [c \in Clients |-> NoEntry]
    /\ ret = [c \in Clients |-> NoResult]
    /\ calls = 0
    /\ latest = [k \in Keys |-> [kind |-> "none", ptr |-> NoEntry]]

RouterVars == <<tiny_threshold, medium_threshold, dram, lo, extents, ssd_offset, memory_used>>
EvictionVars == <<clock_hand, ev_pc, shutdown_flag>>

\* A client starts an API call.  No call starts once zipcache_destroy has
\* begun: the cache is freed under it (zipcache.h:152).
Call(c) == pc[c] = "idle" /\ ~shutdown_flag /\ calls < MaxCalls /\ calls' = calls + 1

\* zipcache_put, a zero-length value: rejected before anything is read.
zipcache_put_rejected(c, k) ==
    /\ Call(c)
    /\ ret' = [ret EXCEPT ![c] = Ret("put", k, "ERROR", NoEntry)]
    /\ UNCHANGED <<RouterVars, EvictionVars, pc, req, latest>>

\* zipcache_put, step 1: the object is classified with the thresholds read
\* BEFORE cache_lock is taken.
zipcache_put(c, k, p, size) ==
    /\ Call(c)
    /\ size > 0
    /\ pc' = [pc EXCEPT ![c] = "routing"]
    /\ req' = [req EXCEPT ![c] = [key |-> k, ptr |-> p, size |-> size,
                                  type |-> zipcache_classify_object(size)]]
    /\ UNCHANGED <<RouterVars, EvictionVars, ret, latest>>

Routing(c) == pc[c] = "routing"

Done(c, code) ==
    /\ pc' = [pc EXCEPT ![c] = "idle"]
    /\ ret' = [ret EXCEPT ![c] = Ret("put", req[c].key, code, NoEntry)]
    /\ UNCHANGED <<req, calls>>

\* zipcache_invalidate_stale: a TINY or MEDIUM PUT deletes the key's
\* descriptor from bt_lo (the bytes on disk are not reclaimed).
zipcache_invalidate_stale(k, new_type) ==
    IF new_type \in {"TINY", "MEDIUM"} /\ lo[k] # NullPtr
    THEN [lo EXCEPT ![k] = NullPtr]
    ELSE lo

\* zipcache_route_put, TINY/MEDIUM, under cache_lock: bplus_tree_put of the
\* pointer into bt_dram succeeds (it is never the base tree's 0); the
\* statistics grow memory_used by size, with no capacity check; then
\* zipcache_invalidate_stale deletes any LO descriptor of the key.
route_put_dram(c) ==
    LET r == req[c] IN
    /\ Routing(c)
    /\ r.type \in {"TINY", "MEDIUM"}
    /\ dram' = [dram EXCEPT ![r.key] = r.ptr]
    /\ memory_used' = memory_used + r.size
    /\ lo' = zipcache_invalidate_stale(r.key, r.type)
    /\ latest' = [latest EXCEPT ![r.key] = [kind |-> "small", ptr |-> r.ptr]]
    /\ Done(c, "OK")
    /\ UNCHANGED <<tiny_threshold, medium_threshold, extents, ssd_offset, EvictionVars>>

\* Fault variant of route_put_large: the short write is not detected.
route_put_large_unchecked(c) ==
    LET r == req[c]
        aligned == AlignedSize(r.size)
    IN
    /\ Routing(c)
    /\ r.type = "LARGE"
    /\ extents' = extents \cup {[lba |-> ssd_offset, len |-> aligned, data |-> r.ptr, intact |-> TRUE]}
    /\ ssd_offset' = ssd_offset + aligned
    /\ lo' = [lo EXCEPT ![r.key] = [lba |-> ssd_offset, size |-> r.size, sum |-> r.ptr]]
    /\ dram' = [dram EXCEPT ![r.key] = TOMBSTONE_MARKER]
    /\ latest' = [latest EXCEPT ![r.key] = [kind |-> "large", ptr |-> r.ptr]]
    /\ Done(c, "OK")
    /\ UNCHANGED <<tiny_threshold, medium_threshold, memory_used, EvictionVars>>

\* zipcache_route_put, LARGE: zipcache_write_large_object appends the
\* payload, padded to 4 KiB, at ssd_offset and advances it; the descriptor
\* {lba, size, checksum} goes into bt_lo (bplus_tree_lo_put accepts every
\* pointer with size > 0); then the tombstone is put into bt_dram.
route_put_large(c) ==
    LET r == req[c]
        aligned == AlignedSize(r.size)
    IN
    /\ Routing(c)
    /\ r.type = "LARGE"
    /\ ssd_offset + aligned <= FileBytes
    /\ extents' = extents \cup {[lba |-> ssd_offset, len |-> aligned, data |-> r.ptr, intact |-> TRUE]}
    /\ ssd_offset' = ssd_offset + aligned
    /\ lo' = [lo EXCEPT ![r.key] = [lba |-> ssd_offset, size |-> r.size, sum |-> r.ptr]]
    /\ dram' = [dram EXCEPT ![r.key] = TOMBSTONE_MARKER]
    /\ latest' = [latest EXCEPT ![r.key] = [kind |-> "large", ptr |-> r.ptr]]
    /\ Done(c, "OK")
    /\ UNCHANGED <<tiny_threshold, medium_threshold, memory_used, EvictionVars>>

\* zipcache_route_put, LARGE: pwrite past the end of the device writes short
\* and the PUT returns IO_ERROR with nothing indexed.
route_put_large_io_error(c) ==
    LET r == req[c] IN
    /\ Routing(c)
    /\ r.type = "LARGE"
    /\ ssd_offset + AlignedSize(r.size) > FileBytes
    /\ Done(c, "IO_ERROR")
    /\ UNCHANGED <<RouterVars, EvictionVars, latest>>

\* zipcache_get: the coordinated read under cache_lock.
zipcache_get(c, k) ==
    LET r == zipcache_coordinated_read(k) IN
    /\ Call(c)
    /\ ret' = [ret EXCEPT ![c] = Ret("get", k, r.code, r.val)]
    /\ UNCHANGED <<RouterVars, EvictionVars, pc, req, latest>>

\* Fault variant of zipcache_delete: the key is deleted from bt_dram only.
zipcache_delete_dram_only(c, k) ==
    /\ Call(c)
    /\ dram' = [dram EXCEPT ![k] = NoEntry]
    /\ ret' = [ret EXCEPT ![c] = Ret("delete", k, IF dram[k] # NoEntry THEN "OK" ELSE "NOT_FOUND", NoEntry)]
    /\ latest' = [latest EXCEPT ![k] = [kind |-> "deleted", ptr |-> NoEntry]]
    /\ UNCHANGED <<tiny_threshold, medium_threshold, lo, extents, ssd_offset, memory_used,
                   EvictionVars, pc, req>>

\* zipcache_delete: put 0 into bt_dram, bplus_tree_lo_delete, and
\* bplus_tree_ssd_put(0), which always returns -1; OK if any tier deleted.
zipcache_delete(c, k) ==
    /\ Call(c)
    /\ dram' = [dram EXCEPT ![k] = NoEntry]
    /\ lo' = [lo EXCEPT ![k] = NullPtr]
    /\ ret' = [ret EXCEPT ![c] = Ret("delete", k,
                   IF dram[k] # NoEntry \/ lo[k] # NullPtr THEN "OK" ELSE "NOT_FOUND", NoEntry)]
    /\ latest' = [latest EXCEPT ![k] = [kind |-> "deleted", ptr |-> NoEntry]]
    /\ UNCHANGED <<tiny_threshold, medium_threshold, extents, ssd_offset, memory_used,
                   EvictionVars, pc, req>>

\* zipcache_set_thresholds: validated, then written under cache_lock.
zipcache_set_thresholds(c, t) ==
    LET tiny_max == t[1]
        medium_max == t[2]
        valid == tiny_max # 0 /\ tiny_max < medium_max
    IN
    /\ Call(c)
    /\ tiny_threshold' = IF valid THEN tiny_max ELSE tiny_threshold
    /\ medium_threshold' = IF valid THEN medium_max ELSE medium_threshold
    /\ ret' = [ret EXCEPT ![c] = Ret("set", NoEntry, IF valid THEN "OK" ELSE "INVALID_SIZE", NoEntry)]
    /\ UNCHANGED <<dram, lo, extents, ssd_offset, memory_used, EvictionVars, pc, req, latest>>

\* zipcache_reset_stats: under stats_lock only, every statistic is zeroed,
\* memory_used included, and memory_capacity is set to the DRAM capacity
\* again.  It takes no cache_lock, so it may run while the eviction thread
\* is between its check and its scan.  Only memory_used is modelled of the
\* statistics.  The scan takes stats_lock once per page; a reset in the
\* middle of a scan ends, through the floor, in the same usage as a reset
\* just before it, so the scan is one step.
zipcache_reset_stats(c) ==
    /\ Call(c)
    /\ memory_used' = 0
    /\ ret' = [ret EXCEPT ![c] = Ret("reset", NoEntry, "NONE", NoEntry)]
    /\ UNCHANGED <<tiny_threshold, medium_threshold, dram, lo, extents, ssd_offset,
                   EvictionVars, pc, req, latest>>

\* The device damages the bytes of a written large object (spec section 8,
\* scenario 6).
disk_corrupt(e) ==
    /\ DiskFaults
    /\ e.intact
    /\ extents' = (extents \ {e}) \cup {[e EXCEPT !.intact = FALSE]}
    /\ UNCHANGED <<tiny_threshold, medium_threshold, dram, lo, ssd_offset, memory_used,
                   EvictionVars, pc, req, ret, calls, latest>>

\* zipcache_eviction_thread: zipcache_needs_eviction is read under
\* stats_lock only, before cache_lock is taken.
eviction_check ==
    /\ ev_pc = "check"
    /\ ~shutdown_flag
    /\ zipcache_needs_eviction
    /\ ev_pc' = "evict"
    /\ UNCHANGED <<RouterVars, clock_hand, shutdown_flag, pc, req, ret, calls, latest>>

\* zipcache_eviction_thread: usage is below 90%; the thread sleeps one
\* second and checks again.  It loops until zipcache_destroy.
eviction_sleep ==
    /\ ev_pc = "check"
    /\ ~shutdown_flag
    /\ ~zipcache_needs_eviction
    /\ UNCHANGED vars

\* zipcache_eviction_thread: target_bytes = capacity * 0.1, then
\* zipcache_evict_cold_pages under cache_lock.
zipcache_evict_cold_pages ==
    /\ ev_pc = "evict"
    /\ \E r \in {EvictCold(clock_hand, memory_used, DramCapacity \div 10)} :
       /\ clock_hand' = r.hand
       /\ memory_used' = r.mem
    /\ ev_pc' = "check"
    /\ UNCHANGED <<tiny_threshold, medium_threshold, dram, lo, extents, ssd_offset,
                   shutdown_flag, pc, req, ret, calls, latest>>

\* zipcache_eviction_thread: the loop condition !cache->shutdown_flag is
\* read at the top of every iteration, after the sleep; the thread returns.
eviction_exit ==
    /\ ev_pc = "check"
    /\ shutdown_flag
    /\ ev_pc' = "exited"
    /\ UNCHANGED <<RouterVars, clock_hand, shutdown_flag, pc, req, ret, calls, latest>>

\* A zipcache_destroy that joins the eviction thread without setting
\* shutdown_flag first.
zipcache_destroy_no_signal(c) ==
    /\ \A d \in Clients : pc[d] = "idle"
    /\ ~shutdown_flag
    /\ pc' = [pc EXCEPT ![c] = "destroying"]
    /\ UNCHANGED <<RouterVars, EvictionVars, req, ret, calls, latest>>

\* zipcache_destroy, called when no other call is running: set
\* shutdown_flag (a plain int, no lock), then pthread_join the eviction
\* thread.
zipcache_destroy(c) ==
    /\ \A d \in Clients : pc[d] = "idle"
    /\ ~shutdown_flag
    /\ shutdown_flag' = TRUE
    /\ pc' = [pc EXCEPT ![c] = "destroying"]
    /\ UNCHANGED <<RouterVars, clock_hand, ev_pc, req, ret, calls, latest>>

\* zipcache_destroy after pthread_join returns: the mutexes, the trees, the
\* file and the cache are released; nothing of the cache is left to run.
zipcache_destroy_join(c) ==
    /\ pc[c] = "destroying"
    /\ ev_pc = "exited"
    /\ pc' = [pc EXCEPT ![c] = "destroyed"]
    /\ UNCHANGED <<RouterVars, EvictionVars, req, ret, calls, latest>>

\* The process goes on without the cache.
destroyed ==
    /\ \E c \in Clients : pc[c] = "destroyed"
    /\ UNCHANGED vars

Client(c) ==
    \/ \E k \in Keys : zipcache_put_rejected(c, k) /\ 0 \in Sizes
    \/ \E k \in Keys, p \in Ptrs, size \in Sizes : zipcache_put(c, k, p, size)
    \/ route_put_dram(c)
    \/ route_put_large(c)
    \/ route_put_large_io_error(c)
    \/ \E k \in Keys : zipcache_get(c, k)
    \/ \E k \in Keys : zipcache_delete(c, k)
    \/ zipcache_reset_stats(c)
    \/ \E t \in ThresholdChoices : zipcache_set_thresholds(c, t)
    \/ zipcache_destroy(c)
    \/ zipcache_destroy_join(c)

Next ==
    \/ \E c \in Clients : Client(c)
    \/ \E e \in extents : disk_corrupt(e)
    \/ eviction_check
    \/ eviction_sleep
    \/ zipcache_evict_cold_pages
    \/ eviction_exit
    \/ destroyed

\* The eviction thread loops until shutdown, sleeping one second per
\* iteration: its steps are weakly fair.  pthread_join returns once the
\* thread has returned.
Spec == Init /\ [][Next]_vars
        /\ WF_vars(eviction_check) /\ WF_vars(zipcache_evict_cold_pages)
        /\ WF_vars(eviction_exit) /\ \A c \in Clients : WF_vars(zipcache_destroy_join(c))

(***************************************************************************)
(* Properties                                                              *)
(***************************************************************************)

\* What a GET of k may return as OK, given the key's latest successful PUT:
\* the pointer of a small value, or the payload of a large one.
FreshValue(k, v) == latest[k].kind \in {"small", "large"} /\ v = latest[k].ptr

\* No stale read across tiers (zipcache_route_put, zipcache_invalidate_stale,
\* zipcache_delete, zipcache_coordinated_read): a GET that returns OK returns
\* the value of the key's latest successful PUT; never the value of an
\* older PUT in another tier, and nothing after a DELETE.  It takes a PUT to one tier, a PUT or DELETE touching the
\* other, and a GET, possibly by different clients, to break it.
NoStaleRead ==
    [][\A c \in Clients, k \in Keys :
          zipcache_get(c, k) /\ ret'[c].code = "OK" => FreshValue(k, ret'[c].val)]_vars

\* Large-object extents (zipcache_write_large_object, zipcache_route_put):
\* every descriptor in bt_lo names the start of an extent written for that
\* payload and lying below the append cursor, its size fits the padded
\* extent, and no two extents of the file overlap.
DescriptorsOwnExtents ==
    /\ \A k \in Keys : lo[k] # NullPtr =>
          \E e \in extents : /\ e.lba = lo[k].lba /\ e.data = lo[k].sum
                             /\ lo[k].size <= e.len /\ e.lba + e.len <= ssd_offset
    /\ \A e1, e2 \in extents :
          e1 # e2 => e1.lba + e1.len <= e2.lba \/ e2.lba + e2.len <= e1.lba

\* Eviction makes progress (zipcache_eviction_thread,
\* zipcache_evict_cold_pages): whenever DRAM usage reaches 90% of capacity,
\* the eviction thread eventually brings it below that again, unless
\* zipcache_destroy has stopped it.
EvictionRelieves == zipcache_needs_eviction ~> (~zipcache_needs_eviction \/ shutdown_flag)

\* Shutdown completes (zipcache_destroy, zipcache_eviction_thread): a
\* zipcache_destroy that has begun eventually returns, whatever the eviction
\* thread was doing when shutdown_flag was set: checking usage, waiting for
\* cache_lock, scanning, or sleeping.
DestroyCompletes == \A c \in Clients : pc[c] = "destroying" ~> pc[c] = "destroyed"

\* PUT-then-GET round trip (spec section 8, property 1 and scenarios 1-3;
\* zipcache_test.c test_large_object_operations and
\* test_coordinated_search_order): a GET returns OK with exactly the value of
\* the key's latest successful PUT, and NOT_FOUND after a DELETE.
RoundTrip ==
    [][\A c \in Clients, k \in Keys :
          zipcache_get(c, k) =>
             /\ latest[k].kind \in {"small", "large"} =>
                   ret'[c].code = "OK" /\ ret'[c].val = latest[k].ptr
             /\ latest[k].kind = "deleted" => ret'[c].code = "NOT_FOUND"]_vars

\* The usage counter never wraps (zipcache_evict_cold_pages,
\* zipcache_reset_stats): memory_used, a size_t, never goes below zero.  The
\* eviction thread reads usage, then scans under cache_lock; reset_stats
\* takes only stats_lock, so it can zero the counter between the check and
\* the scan, and only the ">= page_size" floor keeps the scan's decrements
\* from wrapping it to nearly 2^64, which would make zipcache_needs_eviction
\* true for good.
UsageNeverWraps == memory_used >= 0

\* Usage stays within capacity (zipcache_validate_consistency, which reports
\* the cache inconsistent when stats.memory_used exceeds
\* stats.memory_capacity, the DRAM capacity set by zipcache_init and
\* zipcache_reset_stats).
UsageWithinCapacity == memory_used <= DramCapacity

=============================================================================
