-------------------------------- MODULE Cache --------------------------------
(***************************************************************************)
(* The Nios II caches and the HAL functions that keep them in step with    *)
(* memory: alt_load at start-up, alt_dcache_flush and alt_icache_flush of  *)
(* a region whose code was changed, alt_remap_uncached and alt_remap_cached*)
(* of a region that is used past the data cache, and                       *)
(* alt_dcache_flush_no_writeback of one that a device is to fill.          *)
(*                                                                         *)
(* The data cache is direct mapped and writes back; neither cache sees the *)
(* other, nor accesses past the cache.  What matters of a word is whether a*)
(* place holds the value last written to it: it is `fresh' there.          *)
(***************************************************************************)
EXTENDS Naturals

CONSTANTS
  LineWords,          (* words of a line: 8                                *)
  NLines,             (* lines of memory                                   *)
  DSets, ISets,       (* lines of the data and instruction cache: 64, 128  *)
  Code                (* words that hold instructions                      *)

Words == 0 .. NLines * LineWords - 1
Lines == 0 .. NLines - 1

ASSUME CacheAssumption ==
  /\ LineWords \in Nat \ {0} /\ NLines \in Nat
  /\ DSets \in Nat \ {0} /\ ISets \in Nat \ {0}
  /\ Code \subseteq Words

VARIABLES
  mfresh,                      (* words that are fresh in memory           *)
  dlines, ddirty, dfresh,      (* lines in the data cache; fresh there     *)
  ilines, ifresh,              (* lines in the instruction cache           *)
  stage, region,               (* what alt_load or the program is doing    *)
  uncached,                    (* the region used past the cache           *)
  shared                       (* history: the lines that such regions had *)
                               (* in common with other words               *)

cacheVars ==
  <<mfresh, dlines, ddirty, dfresh, ilines, ifresh, stage, region, uncached, shared>>

LineOf(a)  == a \div LineWords
WordsOf(S) == {a \in Words : LineOf(a) \in S}

\* Memory after the lines S left the data cache with their dirty words.
WrittenBack(S) ==
  LET written == WordsOf(S \cap ddirty) IN (mfresh \ written) \cup (dfresh \cap written)

Leave(S) ==
  /\ mfresh' = WrittenBack(S)
  /\ dlines' = dlines \ S /\ ddirty' = ddirty \ S /\ dfresh' = dfresh \ WordsOf(S)

Conflicts(l, lines, sets) == {m \in lines \ {l} : m % sets = l % sets}

-----------------------------------------------------------------------------
(* The processor *)

\* A load or a store through the data cache, which first makes room.
Evicted(a) == Conflicts(LineOf(a), dlines, DSets)
Filled(a) ==
  (dfresh \ WordsOf(Evicted(a)))
    \cup (IF LineOf(a) \in dlines THEN {} ELSE WrittenBack(Evicted(a)) \cap WordsOf({LineOf(a)}))

Load(a) ==
  /\ mfresh' = WrittenBack(Evicted(a))
  /\ dlines' = (dlines \ Evicted(a)) \cup {LineOf(a)}
  /\ ddirty' = ddirty \ Evicted(a)
  /\ dfresh' = Filled(a)
  /\ UNCHANGED <<ilines, ifresh>>

Store(a) ==
  /\ mfresh' = WrittenBack(Evicted(a)) \ {a}
  /\ dlines' = (dlines \ Evicted(a)) \cup {LineOf(a)}
  /\ ddirty' = (ddirty \ Evicted(a)) \cup {LineOf(a)}
  /\ dfresh' = Filled(a) \cup {a}
  /\ ifresh' = ifresh \ {a}
  /\ UNCHANGED ilines

\* A store past the cache.
StoreIO(a) ==
  /\ mfresh' = mfresh \cup {a}
  /\ dfresh' = dfresh \ {a} /\ ifresh' = ifresh \ {a}
  /\ UNCHANGED <<dlines, ddirty, ilines>>

\* Instructions of any line may be fetched at any time.
Fetch(l) ==
  /\ l \notin ilines
  /\ ilines' = (ilines \ Conflicts(l, ilines, ISets)) \cup {l}
  /\ ifresh' = (ifresh \ WordsOf(Conflicts(l, ilines, ISets))) \cup (mfresh \cap WordsOf({l}))
  /\ UNCHANGED <<mfresh, dlines, ddirty, dfresh, stage, region, uncached, shared>>

-----------------------------------------------------------------------------
(* The HAL *)

MutTouched(start, len) ==
  {a \in Words : a >= start /\ a < start + len /\ (a - start) % LineWords = 0}

\* The addresses that the loop of a flush touches, one line apart, and one more
\* for a start inside a line.
Touched(start, len) ==
  {a \in Words : a >= start /\ (a - start) % LineWords = 0
                   /\ a < start + len + (IF start % LineWords = 0 THEN 0 ELSE LineWords)}

\* alt_dcache_flush, with flushda: the line of each address, if it is there.
DcacheFlush(start, len) == Leave({LineOf(a) : a \in Touched(start, len)} \cap dlines)

\* alt_dcache_flush_no_writeback, with initda: the lines are dropped.
Discard(start, len) ==
  LET gone == {LineOf(a) : a \in Touched(start, len)} \cap dlines
  IN /\ dlines' = dlines \ gone /\ ddirty' = ddirty \ gone /\ dfresh' = dfresh \ WordsOf(gone)
     /\ UNCHANGED mfresh

\* alt_icache_flush, with flushi: whatever is in the set of each address, and
\* never more than the whole cache.
IcacheFlush(start, len) ==
  LET trimmed == IF len > ISets * LineWords THEN ISets * LineWords ELSE len
      sets    == {LineOf(a) % ISets : a \in Touched(start, trimmed)}
      gone    == {l \in ilines : l % ISets \in sets}
  IN ilines' = ilines \ gone /\ ifresh' = ifresh \ WordsOf(gone)

Go(from, to) == stage = from /\ stage' = to

\* alt_load: the sections are copied ...
LoadWord ==
  /\ stage = "load" /\ region # {}
  /\ \E a \in region : Store(a) /\ region' = region \ {a}
  /\ UNCHANGED <<stage, uncached, shared>>

\* ... then alt_dcache_flush_all, then alt_icache_flush_all.
LoadFlushData ==
  /\ Go("load", "loadFlushed") /\ region = {}
  /\ Leave(dlines)
  /\ UNCHANGED <<ilines, ifresh, region, uncached, shared>>

LoadFlushCode ==
  /\ Go("loadFlushed", "run")
  /\ ilines' = {} /\ ifresh' = {}
  /\ UNCHANGED <<mfresh, dlines, ddirty, dfresh, region, uncached, shared>>

Span(start, len) == {a \in Words : a >= start /\ a < start + len}

\* The program replaces a piece of code and flushes it from both caches.
Patch(start, len) ==
  /\ stage = "run" /\ len > 0 /\ Span(start, len) \subseteq Code
  /\ stage' = "patch" /\ region' = Span(start, len)
  /\ UNCHANGED <<mfresh, dlines, ddirty, dfresh, ilines, ifresh, uncached, shared>>

PatchWord ==
  /\ stage = "patch"
  /\ \E a \in region : Store(a)
  /\ UNCHANGED <<stage, region, uncached, shared>>

First == CHOOSE a \in region : \A b \in region : a <= b
Size  == (CHOOSE b \in region : \A a \in region : a <= b) - First + 1

PatchFlushData ==
  /\ Go("patch", "patchFlushed")
  /\ DcacheFlush(First, Size)
  /\ UNCHANGED <<ilines, ifresh, region, uncached, shared>>

PatchFlushCode ==
  /\ Go("patchFlushed", "run")
  /\ IcacheFlush(First, Size)
  /\ region' = {}
  /\ UNCHANGED <<mfresh, dlines, ddirty, dfresh, uncached, shared>>

\* A block of data, at any place: malloc does not keep to lines, and nothing checks
\* that a region does.
Data(start, len) == len > 0 /\ Span(start, len) \cap Code = {}

\* The lines among those of `touched' that are not all the region's.
Partly(touched, start, len) ==
  {l \in {LineOf(a) : a \in touched} : ~(WordsOf({l}) \subseteq Span(start, len))}

MutRemapUncached(start, len) ==
  /\ stage = "run" /\ uncached = {} /\ Data(start, len)
  /\ uncached' = Span(start, len)
  /\ shared' = shared \cup Partly(Span(start, len), start, len)
  /\ UNCHANGED <<mfresh, dlines, ddirty, dfresh, ilines, ifresh, stage, region>>

\* alt_remap_uncached; alt_uncached_malloc does the same to a new block.
RemapUncached(start, len) ==
  /\ stage = "run" /\ uncached = {} /\ Data(start, len)
  /\ DcacheFlush(start, len)
  /\ uncached' = Span(start, len)
  /\ shared' = shared \cup Partly(Span(start, len), start, len)
  /\ UNCHANGED <<ilines, ifresh, stage, region>>

\* alt_remap_cached, alt_uncached_free: only the pointer changes.
RemapCached ==
  /\ stage = "run" /\ uncached # {}
  /\ uncached' = {}
  /\ UNCHANGED <<mfresh, dlines, ddirty, dfresh, ilines, ifresh, stage, region, shared>>

\* A buffer that a device is about to fill: what the cache holds of it may not
\* come back over it.  Of a region that begins inside a line, the line behind it
\* may be dropped too.
GiveToDevice(start, len) ==
  /\ Data(start, len) /\ uncached = {}
  /\ Go("run", "device") /\ region' = Span(start, len)
  /\ Discard(start, len)
  /\ shared' = shared \cup Partly(Touched(start, len), start, len)
  /\ UNCHANGED <<ilines, ifresh, uncached>>

DeviceFills ==
  /\ Go("device", "run") /\ region' = {}
  /\ mfresh' = mfresh \cup region /\ dfresh' = dfresh \ region
  /\ UNCHANGED <<dlines, ddirty, ilines, ifresh, uncached, shared>>

\* The program's data: past the cache in the region, through it elsewhere.
Access ==
  /\ stage \in {"run", "device"}
  /\ \/ \E a \in Words \ (Code \cup uncached \cup region) : Load(a) \/ Store(a)
     \/ \E a \in Code : Load(a)
     \/ \E a \in uncached : StoreIO(a)
  /\ UNCHANGED <<stage, region, uncached, shared>>

-----------------------------------------------------------------------------
\* crt0 has initialised both caches; the sections are still in flash.
CacheInit ==
  /\ mfresh = Words /\ dlines = {} /\ ddirty = {} /\ dfresh = {}
  /\ ilines = {} /\ ifresh = {}
  /\ stage = "load" /\ region = Code
  /\ uncached = {} /\ shared = {}

Regions == {r \in Words \X (1 .. NLines * LineWords) : r[1] + r[2] <= NLines * LineWords}

CacheNext ==
  \/ \E l \in Lines : Fetch(l)
  \/ LoadWord \/ LoadFlushData \/ LoadFlushCode
  \/ PatchWord \/ PatchFlushData \/ PatchFlushCode
  \/ \E r \in Regions : Patch(r[1], r[2]) \/ RemapUncached(r[1], r[2]) \/ GiveToDevice(r[1], r[2])
  \/ RemapCached \/ DeviceFills \/ Access

CacheSpec == CacheInit /\ [][CacheNext]_cacheVars
-----------------------------------------------------------------------------
Executed(a) == IF LineOf(a) \in ilines THEN a \in ifresh ELSE a \in mfresh
Read(a)     == IF a \notin uncached /\ LineOf(a) \in dlines THEN a \in dfresh ELSE a \in mfresh

\* What is executed is what was loaded (alt_load.c:82) or stored and flushed,
\* wherever the region begins and ends in its lines (alt_icache_flush.c:65) and
\* whatever was fetched meanwhile.
CodeFresh == stage \in {"run", "device"} => \A a \in Code : Executed(a)

\* Data is read as last written, in and out of the region that is used past the
\* cache (alt_remap_uncached.c:49), and after it was given back; what a device
\* wrote is read too (alt_dcache_flush_no_writeback.c:82).  Only words of a line
\* that such a region had in common with others are not vouched for.
DataFresh ==
  \A a \in Words \ (Code \cup region) : LineOf(a) \notin shared => Read(a)
=============================================================================
