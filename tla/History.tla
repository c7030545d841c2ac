------------------------------- MODULE History -------------------------------
(***************************************************************************)
(* btcspiker_data/history_pipeline.py, run_history_download: day after day *)
(* a shard is cached, restored into the staging database, replayed into    *)
(* local partitions, and those are uploaded to the Hub, verified, audited  *)
(* and only then deleted.  A manifest of all days ends it.  Nothing but    *)
(* the cache, the local partitions, the staging tables and the Hub         *)
(* survives the process, which may end anywhere and be run again.          *)
(*                                                                         *)
(* A partition is content-addressed: <<day, kind, version>>, where only    *)
(* the trades of two runs may differ.  One partition stands for the 24     *)
(* hours of its kind.                                                      *)
(***************************************************************************)
EXTENDS Integers, FiniteSets, SequencesExt

CONSTANTS
  LastDay,       \* the window is 1 .. LastDay
  TradeVersions, \* contents the trades of a day may have
  MaxRuns,       \* bound: runs of the pipeline
  MaxUpsets      \* bound: garbled uploads and uploads of another process

ASSUME HistoryAssumption ==
  LastDay \in Nat \ {0} /\ MaxRuns \in Nat /\ MaxUpsets \in Nat

Days == 1 .. LastDay
BookParts(d) == <<<<d, "book_states", 1>>, <<d, "book_deltas", 1>>>>
TradePart(d, v) == <<d, "trades", v>>
AllParts == (UNION {ToSet(BookParts(d)) : d \in Days})
              \cup {TradePart(d, v) : d \in Days, v \in TradeVersions}

VARIABLES
  histRuns,  \* runs begun
  upsets,    \* faults so far
  histPc,    \* what the process does next, "off" when there is none
  day,       \* the shard of the loop
  records,   \* the partitions of the day, in order
  receipts,  \* upload receipts of the day: [part, rev]
  results,   \* per finished day: [parts, rev, pass]
  headSeen,  \* the head revision that _assert_destination saw
  cache,     \* files of shards: <<day, "dump" or "sidecar">>
  staged,    \* rows in the staging tables: <<day, "rows" or "some">>
  txOpen,    \* does the connection hold a transaction, and its locks?
  local,     \* partitions on the disk
  hub,       \* per revision, the files: <<partition, is it intact?>>
  manifests, \* manifests written: [parts, rev, pass]
  deleted    \* ghost: partitions whose shard or local file was deleted

processVars == <<day, records, receipts, results, headSeen, txOpen>>
storedVars == <<cache, staged, local, hub, manifests>>
histVars == <<histRuns, upsets, histPc, processVars, storedVars, deleted>>

HistoryInit ==
  /\ histRuns = 0 /\ upsets = 0 /\ histPc = "off"
  /\ day = 1 /\ records = <<>> /\ receipts = <<>> /\ results = <<>>
  /\ headSeen = 1 /\ txOpen = FALSE
  /\ cache = {} /\ staged = {} /\ local = {}
  /\ hub = <<{}>> /\ manifests = {} /\ deleted = {}
-----------------------------------------------------------------------------
Tip == Len(hub)
OnHub(p) == \E good \in BOOLEAN : <<p, good>> \in hub[Tip]
Commit(files) == hub' = Append(hub, hub[Tip] \cup files)

Forget ==
  /\ histPc' = "off"
  /\ day' = 1 /\ records' = <<>> /\ receipts' = <<>> /\ results' = <<>>
  /\ headSeen' = 1 /\ txOpen' = FALSE
Go(pc) == histPc' = pc

Begin ==
  /\ histPc = "off" /\ histRuns < MaxRuns
  /\ histRuns' = histRuns + 1 /\ Go("download")
  /\ UNCHANGED <<upsets, processVars, storedVars, deleted>>

\* A kill, or any exception: no space, no network, a replay, count, checksum
\* or pagination error.
Stops ==
  /\ histPc # "off" /\ Forget
  /\ UNCHANGED <<histRuns, upsets, storedVars, deleted>>

\* Both files of the shard are there, or the missing ones are moved into
\* place, the sidecar last.
UseCached ==
  /\ histPc = "download" /\ {<<day, "dump">>, <<day, "sidecar">>} \subseteq cache
  /\ Go("truncate")
  /\ UNCHANGED <<histRuns, upsets, processVars, storedVars, deleted>>
Fetch(file) ==
  /\ histPc = "download" /\ <<day, file>> \notin cache
  /\ file = "sidecar" => <<day, "dump">> \in cache
  /\ cache' = cache \cup {<<day, file>>}
  /\ UNCHANGED <<histRuns, upsets, histPc, processVars, staged, local, hub,
                 manifests, deleted>>

\* psql, a session of its own: it waits for the locks of the connection.
Truncate ==
  /\ histPc = "truncate" /\ ~txOpen
  /\ staged' = {} /\ Go("restore")
  /\ UNCHANGED <<histRuns, upsets, processVars, cache, local, hub, manifests,
                 deleted>>

\* pg_restore; when it fails, some rows stay and the process ends.
Restore ==
  /\ histPc = "restore"
  /\ staged' = staged \cup {<<day, "rows">>} /\ Go("count")
  /\ UNCHANGED <<histRuns, upsets, processVars, cache, local, hub, manifests,
                 deleted>>
RestoreFails ==
  /\ histPc = "restore"
  /\ staged' = staged \cup {<<day, "some">>} /\ Forget
  /\ UNCHANGED <<histRuns, upsets, cache, local, hub, manifests, deleted>>

\* Every table has the rows the sidecar promises; the connection commits.
CountRows ==
  /\ histPc = "count" /\ staged = {<<day, "rows">>}
  /\ txOpen' = FALSE /\ Go("replay")
  /\ UNCHANGED <<histRuns, upsets, day, records, receipts, results, headSeen,
                 storedVars, deleted>>

\* load_replay_rows opens a transaction that nothing closes yet; the book
\* partitions are written.
ReplayDay ==
  /\ histPc = "replay"
  /\ txOpen' = TRUE
  /\ records' = BookParts(day) /\ local' = local \cup ToSet(BookParts(day))
  /\ Go("trades")
  /\ UNCHANGED <<histRuns, upsets, day, receipts, results, headSeen, cache,
                 staged, hub, manifests, deleted>>
FetchTrades(v) ==
  /\ histPc = "trades"
  /\ records' = Append(records, TradePart(day, v))
  /\ local' = local \cup {TradePart(day, v)}
  /\ Go("upload")
  /\ UNCHANGED <<histRuns, upsets, day, receipts, results, headSeen, txOpen,
                 cache, staged, hub, manifests, deleted>>
-----------------------------------------------------------------------------
Sending == records[Len(receipts) + 1]
Receipt(rev) == receipts' = Append(receipts, [part |-> Sending, rev |-> rev])

\* upload_partition: _assert_destination reads the head revision ...
AssertDestination ==
  /\ histPc = "upload" /\ Len(receipts) < Len(records) /\ Sending \in local
  /\ headSeen' = Tip /\ Go("send")
  /\ UNCHANGED <<histRuns, upsets, day, records, receipts, results, txOpen,
                 storedVars, deleted>>

\* Slip: any file of that name will do.
IsThere(p, rev) == \E good \in BOOLEAN : <<p, good>> \in hub[rev]

\* _verify: the file of that revision has the partition's digest.
Verified(p, rev) == <<p, TRUE>> \in hub[rev]

\* ... a file that exists is verified at that revision, and reused ...
Reuse ==
  /\ histPc = "send" /\ OnHub(Sending) /\ Verified(Sending, headSeen)
  /\ Receipt(headSeen) /\ Go("upload")
  /\ UNCHANGED <<histRuns, upsets, day, records, results, headSeen, txOpen,
                 storedVars, deleted>>

\* ... any other is committed, and verified at the commit.
Send ==
  /\ histPc = "send" /\ ~OnHub(Sending)
  /\ Commit({<<Sending, TRUE>>})
  /\ Receipt(Tip + 1) /\ Go("upload")
  /\ UNCHANGED <<histRuns, upsets, day, records, results, headSeen, txOpen,
                 cache, staged, local, manifests, deleted>>
\* The commit took, but not with the right bytes: the verification raises.
SendGarbled ==
  /\ histPc = "send" /\ ~OnHub(Sending) /\ upsets < MaxUpsets
  /\ Commit({<<Sending, FALSE>>})
  /\ upsets' = upsets + 1 /\ Forget
  /\ UNCHANGED <<histRuns, cache, staged, local, manifests, deleted>>

\* Another process, or an earlier run's late commit, uploads a partition.
OtherUpload(p) ==
  /\ upsets < MaxUpsets /\ ~OnHub(p)
  /\ upsets' = upsets + 1
  /\ Commit({<<p, TRUE>>})
  /\ UNCHANGED <<histRuns, histPc, processVars, cache, staged, local,
                 manifests, deleted>>
-----------------------------------------------------------------------------
\* Slip: the first day's revision is pinned.
FirstRevision(rs) == rs[1].rev

\* The revision of the last day has all that was uploaded before it.
ManifestRevision(rs) == Last(rs).rev

\* audit_dataset over the day; a day that fails is the last one.
Audit(pass) ==
  /\ histPc = "upload" /\ Len(receipts) = Len(records)
  /\ pass => ToSet(records) \subseteq local
  /\ results' = Append(results, [parts |-> ToSet(records), pass |-> pass,
                                 rev |-> Last(receipts).rev])
  /\ Go(IF pass THEN "purgeRows" ELSE "finish")
  /\ UNCHANGED <<histRuns, upsets, day, records, receipts, headSeen, txOpen,
                 storedVars, deleted>>

\* remove_verified_shard_cache: the receipts match the local files; the rows
\* are deleted and the connection commits, ...
PurgeRows ==
  /\ histPc = "purgeRows" /\ ToSet(records) \subseteq local
  /\ staged' = staged \ ({day} \X {"rows", "some"})
  /\ txOpen' = FALSE /\ Go("purgeDump")
  /\ UNCHANGED <<histRuns, upsets, day, records, receipts, results, headSeen,
                 cache, local, hub, manifests, deleted>>

\* ... then the files of the shard are deleted, the dump first, ...
PurgeFile(file, from, to) ==
  /\ histPc = from
  /\ cache' = cache \ {<<day, file>>}
  /\ deleted' = deleted \cup ToSet(records)
  /\ Go(to)
  /\ UNCHANGED <<histRuns, upsets, processVars, staged, local, hub, manifests>>

\* ... then the local partitions, one by one.
PurgeLocal(p) ==
  /\ histPc = "purgeLocal" /\ p \in ToSet(records) \cap local
  /\ local' = local \ {p}
  /\ UNCHANGED <<histRuns, upsets, histPc, processVars, cache, staged, hub,
                 manifests, deleted>>
NextDay ==
  /\ histPc = "purgeLocal" /\ ToSet(records) \cap local = {}
  /\ records' = <<>> /\ receipts' = <<>>
  /\ IF day = LastDay THEN day' = day /\ Go("finish")
                      ELSE day' = day + 1 /\ Go("download")
  /\ UNCHANGED <<histRuns, upsets, results, headSeen, txOpen, storedVars,
                 deleted>>

\* The combined report and the manifest, written locally whatever it says: a
\* day that failed, or too few qualified seconds, fail the whole.
Finish(enough) ==
  LET passed == enough /\ \A i \in DOMAIN results : results[i].pass
  IN  /\ histPc = "finish"
      /\ manifests' = manifests \cup
           {[parts |-> UNION {results[i].parts : i \in DOMAIN results},
             rev |-> ManifestRevision(results), pass |-> passed]}
      /\ IF passed THEN Go("publish") /\ UNCHANGED processVars ELSE Forget
      /\ UNCHANGED <<histRuns, upsets, cache, staged, local, hub, deleted>>

\* publish_raw_manifest: one more commit.
PublishManifest ==
  /\ histPc = "publish"
  /\ Commit({}) /\ Forget
  /\ UNCHANGED <<histRuns, upsets, cache, staged, local, manifests, deleted>>

HistoryNext ==
  \/ Begin \/ Stops \/ UseCached \/ Fetch("dump") \/ Fetch("sidecar")
  \/ Truncate \/ Restore \/ RestoreFails \/ CountRows \/ ReplayDay
  \/ \E v \in TradeVersions : FetchTrades(v)
  \/ AssertDestination \/ Reuse \/ Send \/ SendGarbled
  \/ \E p \in AllParts : OtherUpload(p)
  \/ \E pass \in BOOLEAN : Audit(pass)
  \/ PurgeRows
  \/ PurgeFile("dump", "purgeDump", "purgeSidecar")
  \/ PurgeFile("sidecar", "purgeSidecar", "purgeLocal")
  \/ \E p \in AllParts : PurgeLocal(p)
  \/ NextDay \/ PublishManifest
  \/ \E enough \in BOOLEAN : Finish(enough)

HistorySpec == HistoryInit /\ [][HistoryNext]_histVars
-----------------------------------------------------------------------------
HistTypeOK ==
  /\ day \in Days /\ headSeen \in 1 .. Tip
  /\ local \subseteq AllParts /\ deleted \subseteq AllParts
  /\ cache \subseteq Days \X {"dump", "sidecar"}
  /\ Len(receipts) <= Len(records) /\ Len(results) <= LastDay

(***************************************************************************)
(* What was deleted here is intact on the Hub, through kills between any   *)
(* two steps, garbled uploads and runs that start over.                    *)
(***************************************************************************)
DeletedAreStored == \A p \in deleted : <<p, TRUE>> \in hub[Tip]

(***************************************************************************)
(* The staging tables are never truncated, by a session of its own, while  *)
(* the connection holds the locks of a transaction: the pipeline would     *)
(* wait for itself forever.                                                *)
(***************************************************************************)
NeverWaitsForItself == histPc = "truncate" => ~txOpen

(***************************************************************************)
(* load_verified_manifest accepts every manifest that was written: each    *)
(* partition is intact at the one revision the manifest pins, though       *)
(* partitions are reused, and others commit in between.                    *)
(***************************************************************************)
ManifestPinsAll ==
  \A m \in manifests :
    /\ \A p \in m.parts : <<p, TRUE>> \in hub[m.rev]
    /\ m.pass => \A d \in Days : \E v \in TradeVersions :
                   ToSet(BookParts(d)) \cup {TradePart(d, v)} \subseteq m.parts

\* The invariant of what the pipeline deletes and waits for.
HistoryInv == HistTypeOK /\ DeletedAreStored /\ NeverWaitsForItself
=============================================================================
