--------------------------- MODULE RecordsProofs ----------------------------
(***************************************************************************)
(* Proofs about the records: the download of the history (History) and of  *)
(* one day of trades (TradePages), the replay of the order book (Book),    *)
(* and the two tables that grades are made of (Grading), for any window of *)
(* days, tape, gaps, features and bounds.                                  *)
(***************************************************************************)
EXTENDS History, TradePages, Book, Grading, MaskProofs

-----------------------------------------------------------------------------
(***************************************************************************)
(* History: what the pipeline deletes, waits for and pins.                 *)
(***************************************************************************)
Intact(p, rev) == <<p, TRUE>> \in hub[rev]

Files == AllParts \X BOOLEAN

\* Nothing is ever taken off the Hub.
HubGrows ==
  /\ hub \in Seq(SUBSET Files) /\ Tip >= 1
  /\ \A i, j \in 1 .. Tip : i <= j => hub[i] \subseteq hub[j]

DeletedKept == deleted \subseteq AllParts /\ \A p \in deleted : Intact(p, Tip)

\* The receipts are those of the first partitions, in order.
ReceiptsTrue ==
  /\ records \in Seq(AllParts)
  /\ receipts \in Seq([part : AllParts, rev : Nat])
  /\ Len(receipts) <= Len(records)
  /\ \A i \in 1 .. Len(receipts) :
       /\ receipts[i].part = records[i]
       /\ receipts[i].rev \in 1 .. Tip
       /\ Intact(records[i], receipts[i].rev)

BeforeUpload == {"off", "download", "truncate", "restore", "count", "replay"}
Uploading == {"trades", "upload", "send"}
Purging == {"purgeRows", "purgeDump", "purgeSidecar", "purgeLocal"}
Ending == {"finish", "publish"}

\* A day's partitions: those of the book, and one of trades.
DayParts(d, v) == Append(BookParts(d), TradePart(d, v))

\* What the place of the process says of its variables.
Phases ==
  /\ histPc \in BeforeUpload \cup Uploading \cup Purging \cup Ending
  /\ day \in Days /\ headSeen \in 1 .. Tip
  /\ histPc = "off" => day = 1
  /\ histPc \in BeforeUpload => records = <<>> /\ receipts = <<>>
  /\ histPc = "trades" => records = BookParts(day) /\ receipts = <<>>
  /\ histPc \in {"upload", "send"} \cup Purging =>
       \E v \in TradeVersions : records = DayParts(day, v)
  /\ histPc = "send" => Len(receipts) < Len(records)
  /\ histPc \in Purging => Len(receipts) = Len(records)
  /\ txOpen => histPc \in Uploading \cup {"purgeRows"} \cup Ending

StoresTyped == cache \subseteq Days \X {"dump", "sidecar"} /\ local \subseteq AllParts

\* One result for each day that was audited: the last one may have failed.
Results ==
  /\ results \in Seq([parts : SUBSET AllParts, pass : BOOLEAN, rev : Nat])
  /\ Len(results) = IF histPc \in Purging \cup Ending THEN day ELSE day - 1
  /\ \A d \in 1 .. Len(results) :
       \E v \in TradeVersions : results[d].parts = ToSet(DayParts(d, v))
  /\ histPc \in Ending =>
       day = LastDay \/ \E d \in 1 .. Len(results) : ~results[d].pass

\* Revisions only grow from receipt to receipt and from day to day, and each
\* result is intact at its own.
RevisionsGrow ==
  /\ \A i, j \in 1 .. Len(receipts) : i <= j => receipts[i].rev <= receipts[j].rev
  /\ \A i, j \in 1 .. Len(results) : i <= j => results[i].rev <= results[j].rev
  /\ \A i \in 1 .. Len(results) :
       /\ results[i].rev \in 1 .. Tip
       /\ \A p \in results[i].parts : Intact(p, results[i].rev)
  /\ histPc \in Uploading =>
       \A i \in 1 .. Len(results), j \in 1 .. Len(receipts) :
         results[i].rev <= receipts[j].rev
  /\ histPc = "send" =>
       /\ \A i \in 1 .. Len(receipts) : receipts[i].rev <= headSeen
       /\ \A i \in 1 .. Len(results) : results[i].rev <= headSeen

Manifest == [parts : SUBSET AllParts, rev : Nat, pass : BOOLEAN]
ManifestsTyped ==
  \A m \in manifests :
    m.rev \in 1 .. Tip /\ m.parts \subseteq AllParts

\* The inductive invariant of the pipeline.
HistIInv ==
  /\ HubGrows /\ DeletedKept /\ ReceiptsTrue /\ Phases /\ StoresTyped
  /\ Results /\ RevisionsGrow /\ ManifestsTyped /\ ManifestPinsAll

-----------------------------------------------------------------------------
LEMMA AppendOne ==
  ASSUME NEW T, NEW s \in Seq(T), NEW x \in T
  PROVE  /\ Append(s, x) \in Seq(T) /\ Len(Append(s, x)) = Len(s) + 1
         /\ Len(s) \in Nat /\ Append(s, x)[Len(s) + 1] = x
         /\ \A i \in 1 .. Len(s) : Append(s, x)[i] = s[i]
  OBVIOUS

LEMMA AppendThird ==
  ASSUME NEW T, NEW s \in Seq(T), NEW x \in T
  PROVE  Len(s) = 2 =>
           /\ Append(s, x) \in Seq(T) /\ Len(Append(s, x)) = 3
           /\ Append(s, x)[1] = s[1] /\ Append(s, x)[2] = s[2]
           /\ Append(s, x)[3] = x
<1>1. PICK z : z = Append(s, x)
  OBVIOUS
<1>2. /\ z \in Seq(T) /\ Len(z) = Len(s) + 1
      /\ z[Len(s) + 1] = x
      /\ \A i \in 1 .. Len(s) : z[i] = s[i]
  BY <1>1
<1>3. Len(s) = 2 => z[1] = s[1] /\ z[2] = s[2] /\ z[3] = x /\ Len(z) = 3
  BY <1>2
<1> QED
  BY <1>1, <1>2, <1>3, Zenon

LEMMA PartsTyped ==
  ASSUME NEW d \in Days
  PROVE  /\ BookParts(d) \in Seq(AllParts) /\ Len(BookParts(d)) = 2
         /\ \A v \in TradeVersions :
              /\ DayParts(d, v) \in Seq(AllParts) /\ Len(DayParts(d, v)) = 3
              /\ ToSet(DayParts(d, v)) = ToSet(BookParts(d)) \cup {TradePart(d, v)}
              /\ ToSet(DayParts(d, v)) \subseteq AllParts
<1> DEFINE p == <<d, "book_states", 1>>
           q == <<d, "book_deltas", 1>>
<1>1. BookParts(d) = <<p, q>>
  BY DEF BookParts
<1> HIDE DEF p, q
<1>2. ToSet(BookParts(d)) = {p, q} /\ Len(BookParts(d)) = 2
  BY <1>1 DEF ToSet
<1>3. p \in AllParts /\ q \in AllParts
  BY <1>2 DEF AllParts
<1>4. BookParts(d) \in Seq(AllParts)
  BY <1>1, <1>3
<1>5. ASSUME NEW v \in TradeVersions
      PROVE  /\ DayParts(d, v) \in Seq(AllParts) /\ Len(DayParts(d, v)) = 3
             /\ ToSet(DayParts(d, v)) = ToSet(BookParts(d)) \cup {TradePart(d, v)}
             /\ ToSet(DayParts(d, v)) \subseteq AllParts
  <2> DEFINE t == TradePart(d, v)
  <2>1. t \in AllParts
    BY DEF AllParts
  <2>2. DayParts(d, v) = Append(BookParts(d), t)
    BY DEF DayParts
  <2> HIDE DEF t
  <2>3. /\ BookParts(d)[1] = p /\ BookParts(d)[2] = q
    BY <1>1
  <2>4. /\ DayParts(d, v) \in Seq(AllParts) /\ Len(DayParts(d, v)) = 3
        /\ DayParts(d, v)[1] = p /\ DayParts(d, v)[2] = q
        /\ DayParts(d, v)[3] = t
    <3>1. Len(BookParts(d)) = 2
      BY <1>2
    <3>2. /\ Append(BookParts(d), t) \in Seq(AllParts)
          /\ Len(Append(BookParts(d), t)) = 3
          /\ Append(BookParts(d), t)[1] = BookParts(d)[1]
          /\ Append(BookParts(d), t)[2] = BookParts(d)[2]
          /\ Append(BookParts(d), t)[3] = t
      BY <1>4, <2>1, <3>1, AppendThird
    <3> QED
      BY <2>2, <2>3, <3>2, Zenon
  <2>5. ToSet(DayParts(d, v)) = {p, q, t}
    <3>1. DOMAIN DayParts(d, v) = {1, 2, 3}
      BY <2>4
    <3> QED
      BY <2>4, <3>1 DEF ToSet
  <2> QED
    BY <1>2, <1>3, <2>1, <2>4, <2>5 DEF t
<1> QED
  BY <1>2, <1>4, <1>5

LEMMA HistInitInv == HistoryInit => HistIInv
<1> SUFFICES ASSUME HistoryInit PROVE HistIInv
  OBVIOUS
<1> USE DEF HistoryInit
<1>1. HubGrows
  BY DEF HubGrows, Tip
<1>2. DeletedKept /\ StoresTyped /\ ManifestsTyped /\ ManifestPinsAll
  BY DEF DeletedKept, StoresTyped, ManifestsTyped, ManifestPinsAll
<1>3. ReceiptsTrue
  BY DEF ReceiptsTrue
<1>4. Phases
  BY HistoryAssumption DEF Phases, BeforeUpload, Uploading, Purging, Ending, Days, Tip
<1>5. Results /\ RevisionsGrow
  BY DEF Results, RevisionsGrow, Uploading, Purging, Ending
<1> QED
  BY <1>1, <1>2, <1>3, <1>4, <1>5 DEF HistIInv

\* One file is a set of files to commit.
LEMMA OneFile ==
  ASSUME NEW p \in AllParts, NEW good \in BOOLEAN
  PROVE  {<<p, good>>} \in SUBSET Files
<1>1. <<p, good>> \in Files
  BY Zenon DEF Files
<1> QED
  BY <1>1, Zenon

\* What a commit adds to the Hub, and what it leaves.
LEMMA CommitGrows ==
  ASSUME HubGrows, NEW files \in SUBSET Files, Commit(files)
  PROVE  /\ HubGrows' /\ Tip' = Tip + 1 /\ Tip \in Nat
         /\ \A r \in 1 .. Tip : hub'[r] = hub[r]
         /\ hub'[Tip + 1] = hub[Tip] \cup files
<1>1. /\ Tip \in Nat /\ Tip' = Tip + 1 /\ hub[Tip] \in SUBSET Files
      /\ \A r \in 1 .. Tip : hub'[r] = hub[r]
      /\ hub'[Tip + 1] = hub[Tip] \cup files
      /\ hub' \in Seq(SUBSET Files)
  BY DEF HubGrows, Commit, Tip
<1>2. \A i, j \in 1 .. Tip' : i <= j => hub'[i] \subseteq hub'[j]
  BY <1>1 DEF HubGrows
<1> QED
  BY <1>1, <1>2 DEF HubGrows

\* What a step does to the Hub: nothing, or a commit.
HubStep ==
  UNCHANGED hub \/ \E files \in SUBSET Files : Commit(files)

\* Whatever is intact at a revision stays so.
LEMMA IntactStays ==
  ASSUME HubGrows, HubStep
  PROVE  /\ HubGrows' /\ Tip \in Nat /\ Tip' \in Nat /\ Tip <= Tip'
         /\ \A r \in 1 .. Tip : hub'[r] = hub[r]
         /\ hub[Tip] \subseteq hub'[Tip']
<1>1. CASE UNCHANGED hub
  BY <1>1 DEF HubGrows, Tip
<1>2. CASE \E files \in SUBSET Files : Commit(files)
  BY <1>2, CommitGrows
<1> QED
  BY <1>1, <1>2 DEF HubStep

\* What only depends on the Hub survives every step of it.
LEMMA StoredStays ==
  ASSUME HistIInv, HubStep
  PROVE  /\ HubGrows'
         /\ UNCHANGED deleted => DeletedKept'
         /\ UNCHANGED <<records, receipts>> => ReceiptsTrue'
         /\ UNCHANGED manifests => (ManifestsTyped /\ ManifestPinsAll)'
<1>1. /\ HubGrows' /\ Tip \in Nat /\ Tip' \in Nat /\ Tip <= Tip'
      /\ \A r \in 1 .. Tip : hub'[r] = hub[r]
      /\ hub[Tip] \subseteq hub'[Tip']
  BY IntactStays DEF HistIInv
<1>2. UNCHANGED deleted => DeletedKept'
  BY <1>1 DEF HistIInv, DeletedKept, Intact
<1>3. UNCHANGED <<records, receipts>> => ReceiptsTrue'
  <2> SUFFICES ASSUME UNCHANGED <<records, receipts>> PROVE ReceiptsTrue'
    OBVIOUS
  <2>1. ASSUME NEW i \in 1 .. Len(receipts)
        PROVE  /\ receipts[i].part = records[i] /\ receipts[i].rev \in 1 .. Tip'
               /\ <<records[i], TRUE>> \in hub'[receipts[i].rev]
    <3>1. /\ receipts[i].part = records[i] /\ receipts[i].rev \in 1 .. Tip
          /\ <<records[i], TRUE>> \in hub[receipts[i].rev]
      BY <2>1 DEF HistIInv, ReceiptsTrue, Intact
    <3>2. hub'[receipts[i].rev] = hub[receipts[i].rev]
      BY <1>1, <3>1
    <3> QED
      BY <1>1, <3>1, <3>2
  <2> QED
    BY <2>1 DEF HistIInv, ReceiptsTrue, Intact
<1>4. UNCHANGED manifests => (ManifestsTyped /\ ManifestPinsAll)'
  <2> SUFFICES ASSUME UNCHANGED manifests
               PROVE  (ManifestsTyped /\ ManifestPinsAll)'
    OBVIOUS
  <2>1. ASSUME NEW m \in manifests
        PROVE  /\ m.rev \in 1 .. Tip' /\ m.parts \subseteq AllParts
               /\ \A p \in m.parts : <<p, TRUE>> \in hub'[m.rev]
               /\ m.pass => \A d \in Days : \E v \in TradeVersions :
                    ToSet(BookParts(d)) \cup {TradePart(d, v)} \subseteq m.parts
    <3>1. m.rev \in 1 .. Tip /\ m.parts \subseteq AllParts
      BY <2>1 DEF HistIInv, ManifestsTyped
    <3>2. \A p \in m.parts : <<p, TRUE>> \in hub[m.rev]
      BY <2>1 DEF HistIInv, ManifestPinsAll
    <3>3. m.pass => \A d \in Days : \E v \in TradeVersions :
            ToSet(BookParts(d)) \cup {TradePart(d, v)} \subseteq m.parts
      BY <2>1 DEF HistIInv, ManifestPinsAll
    <3>4. hub'[m.rev] = hub[m.rev] /\ m.rev \in 1 .. Tip'
      BY <1>1, <3>1
    <3> QED
      BY <3>1, <3>2, <3>3, <3>4
  <2> QED
    BY <2>1 DEF ManifestsTyped, ManifestPinsAll
<1> QED
  BY <1>1, <1>2, <1>3, <1>4

\* The revisions stay in order as long as no receipt or result is added.
LEMMA RevisionsStay ==
  ASSUME HistIInv, HubStep, UNCHANGED <<receipts, results>>,
         histPc' \in Uploading => histPc \in Uploading \/ receipts = <<>>,
         histPc' = "send" => histPc = "send" /\ UNCHANGED headSeen
  PROVE  RevisionsGrow'
<1>1. /\ Tip \in Nat /\ Tip' \in Nat /\ Tip <= Tip'
      /\ \A r \in 1 .. Tip : hub'[r] = hub[r]
  BY IntactStays DEF HistIInv
<1>2. ASSUME NEW i \in 1 .. Len(results)
      PROVE  /\ results[i].rev \in 1 .. Tip'
             /\ \A p \in results[i].parts : <<p, TRUE>> \in hub'[results[i].rev]
  <2>1. /\ results[i].rev \in 1 .. Tip
        /\ \A p \in results[i].parts : <<p, TRUE>> \in hub[results[i].rev]
    BY <1>2 DEF HistIInv, RevisionsGrow, Intact
  <2> DEFINE r == results[i].rev
  <2> HIDE DEF r
  <2>2. r \in 1 .. Tip /\ results[i].rev = r
    BY <2>1 DEF r
  <2>3. hub'[r] = hub[r] /\ r \in 1 .. Tip'
    BY <1>1, <2>2
  <2> QED
    BY <2>1, <2>2, <2>3, Zenon
<1>3. histPc' \in Uploading =>
        \A i \in 1 .. Len(results), j \in 1 .. Len(receipts) :
          results[i].rev <= receipts[j].rev
  BY DEF HistIInv, RevisionsGrow
<1> QED
  BY <1>2, <1>3 DEF HistIInv, RevisionsGrow, Intact

\* The process ends; what it remembers is lost.
LEMMA ForgetPreserves ==
  ASSUME HistIInv, HubStep, Forget, UNCHANGED deleted, StoresTyped',
         (ManifestsTyped /\ ManifestPinsAll)'
  PROVE  HistIInv'
<1> USE DEF Forget
<1>1. HubGrows' /\ DeletedKept'
  BY StoredStays
<1>2. ReceiptsTrue'
  BY DEF ReceiptsTrue
<1>3. Tip' \in Nat /\ Tip' >= 1
  BY <1>1 DEF HubGrows, Tip
<1>4. Phases'
  BY <1>3, HistoryAssumption
     DEF Phases, BeforeUpload, Uploading, Purging, Ending, Days
<1>5. Results' /\ RevisionsGrow'
  BY DEF Results, RevisionsGrow, Uploading, Purging, Ending
<1> QED
  BY <1>1, <1>2, <1>4, <1>5 DEF HistIInv

\* A step before there is anything to upload.
LEMMA EarlyPreserves ==
  ASSUME HistIInv, histPc \in BeforeUpload, histPc' \in BeforeUpload \ {"off"},
         UNCHANGED <<day, records, receipts, results, headSeen, hub, manifests,
                     deleted>>,
         txOpen' => txOpen, StoresTyped'
  PROVE  HistIInv'
<1>1. HubStep
  BY DEF HubStep
<1>2. HubGrows' /\ DeletedKept' /\ ReceiptsTrue' /\ (ManifestsTyped /\ ManifestPinsAll)'
  BY <1>1, StoredStays
<1>3. Phases'
  BY DEF HistIInv, Phases, BeforeUpload, Uploading, Purging, Ending, Tip
<1>4. Results'
  BY DEF HistIInv, Results, BeforeUpload, Uploading, Purging, Ending
<1>5. RevisionsGrow'
  BY <1>1, RevisionsStay DEF BeforeUpload, Uploading
<1> QED
  BY <1>2, <1>3, <1>4, <1>5 DEF HistIInv

\* A step that deletes what was verified.
LEMMA PurgePreserves ==
  ASSUME HistIInv, histPc \in Purging, histPc' \in Purging, ~txOpen',
         UNCHANGED <<day, records, receipts, results, headSeen, hub, manifests>>,
         UNCHANGED deleted \/ deleted' = deleted \cup ToSet(records),
         StoresTyped'
  PROVE  HistIInv'
<1>1. HubStep
  BY DEF HubStep
<1>2. HubGrows' /\ ReceiptsTrue' /\ (ManifestsTyped /\ ManifestPinsAll)'
  BY <1>1, StoredStays
<1>3. \A p \in ToSet(records) : p \in AllParts /\ Intact(p, Tip)
  <2> SUFFICES ASSUME NEW i \in 1 .. Len(records)
               PROVE  records[i] \in AllParts /\ Intact(records[i], Tip)
    BY DEF HistIInv, ReceiptsTrue, ToSet
  <2>1. /\ receipts[i].rev \in 1 .. Tip /\ Intact(records[i], receipts[i].rev)
        /\ records[i] \in AllParts
    BY DEF HistIInv, ReceiptsTrue, Phases
  <2>2. hub[receipts[i].rev] \subseteq hub[Tip]
    BY <2>1 DEF HistIInv, HubGrows, Tip
  <2> QED
    BY <2>1, <2>2 DEF Intact
<1>4. DeletedKept'
  BY <1>3 DEF HistIInv, DeletedKept, Intact, Tip
<1>5. Phases'
  BY DEF HistIInv, Phases, BeforeUpload, Uploading, Purging, Ending, Tip
<1>6. Results'
  BY DEF HistIInv, Results, Uploading, Purging, Ending
<1>7. RevisionsGrow'
  BY <1>1, RevisionsStay DEF Purging, Uploading
<1> QED
  BY <1>2, <1>4, <1>5, <1>6, <1>7 DEF HistIInv

-----------------------------------------------------------------------------
LEMMA EarlySteps ==
  ASSUME HistIInv,
         \/ Begin \/ UseCached \/ Truncate \/ Restore \/ CountRows
         \/ \E file \in {"dump", "sidecar"} : Fetch(file)
  PROVE  HistIInv'
<1> USE DEF BeforeUpload, StoresTyped
<1>1. CASE Begin \/ UseCached
  BY <1>1, EarlyPreserves DEF Begin, UseCached, Go, processVars, storedVars, HistIInv
<1>2. CASE Truncate \/ Restore
  BY <1>2, EarlyPreserves DEF Truncate, Restore, Go, processVars, HistIInv
<1>3. CASE CountRows
  BY <1>3, EarlyPreserves DEF CountRows, Go, storedVars, HistIInv
<1>4. CASE \E file \in {"dump", "sidecar"} : Fetch(file)
  <2>1. PICK file \in {"dump", "sidecar"} : Fetch(file)
    BY <1>4
  <2>2. day \in Days /\ cache' \subseteq Days \X {"dump", "sidecar"}
    BY <2>1 DEF Fetch, HistIInv, Phases
  <2> QED
    BY <2>1, <2>2, EarlyPreserves DEF Fetch, processVars, HistIInv
<1> QED
  BY <1>1, <1>2, <1>3, <1>4

LEMMA EndingSteps ==
  ASSUME HistIInv, Stops \/ RestoreFails \/ SendGarbled \/ PublishManifest
  PROVE  HistIInv'
<1>1. CASE Stops \/ RestoreFails
  <2>1. HubStep /\ UNCHANGED <<manifests, deleted, cache, local>> /\ Forget
    BY <1>1 DEF Stops, RestoreFails, HubStep, storedVars
  <2> QED
    BY <2>1, StoredStays, ForgetPreserves DEF StoresTyped, HistIInv
<1>2. CASE SendGarbled
  <2>1. Sending \in AllParts
    BY <1>2 DEF SendGarbled, Sending, HistIInv, ReceiptsTrue, Phases
  <2>2. {<<Sending, FALSE>>} \in SUBSET Files
    BY <2>1, OneFile
  <2>3. HubStep /\ UNCHANGED <<manifests, deleted, cache, local>> /\ Forget
    <3>1. Commit({<<Sending, FALSE>>})
      BY <1>2 DEF SendGarbled
    <3>2. HubStep
      BY <2>2, <3>1 DEF HubStep
    <3> QED
      BY <1>2, <3>2 DEF SendGarbled
  <2> QED
    BY <2>3, StoredStays, ForgetPreserves DEF StoresTyped, HistIInv
<1>3. CASE PublishManifest
  <2>1. HubStep /\ UNCHANGED <<manifests, deleted, cache, local>> /\ Forget
    BY <1>3 DEF PublishManifest, HubStep
  <2> QED
    BY <2>1, StoredStays, ForgetPreserves DEF StoresTyped, HistIInv
<1> QED
  BY <1>1, <1>2, <1>3

LEMMA PurgeSteps ==
  ASSUME HistIInv,
         \/ PurgeRows
         \/ PurgeFile("dump", "purgeDump", "purgeSidecar")
         \/ PurgeFile("sidecar", "purgeSidecar", "purgeLocal")
         \/ \E p \in AllParts : PurgeLocal(p)
  PROVE  HistIInv'
<1> USE DEF Purging, StoresTyped
<1>1. CASE PurgeRows
  BY <1>1, PurgePreserves DEF PurgeRows, Go, HistIInv
<1>2. CASE PurgeFile("dump", "purgeDump", "purgeSidecar")
  BY <1>2, PurgePreserves
     DEF PurgeFile, Go, processVars, HistIInv, Phases, Uploading, Ending
<1>3. CASE PurgeFile("sidecar", "purgeSidecar", "purgeLocal")
  BY <1>3, PurgePreserves
     DEF PurgeFile, Go, processVars, HistIInv, Phases, Uploading, Ending
<1>4. CASE \E p \in AllParts : PurgeLocal(p)
  BY <1>4, PurgePreserves
     DEF PurgeLocal, processVars, HistIInv, Phases, Uploading, Ending
<1> QED
  BY <1>1, <1>2, <1>3, <1>4

LEMMA ReplayPreserves == HistIInv /\ ReplayDay => HistIInv'
<1> SUFFICES ASSUME HistIInv, ReplayDay PROVE HistIInv'
  OBVIOUS
<1> USE DEF ReplayDay, Go
<1>1. HubStep
  BY DEF HubStep
<1>2. HubGrows' /\ DeletedKept' /\ (ManifestsTyped /\ ManifestPinsAll)'
  BY <1>1, StoredStays
<1>3. /\ day \in Days /\ receipts = <<>> /\ UNCHANGED <<receipts, day, results>>
      /\ BookParts(day) \in Seq(AllParts)
      /\ ToSet(BookParts(day)) \subseteq AllParts
  <2>1. day \in Days /\ receipts = <<>>
    BY DEF HistIInv, Phases, BeforeUpload
  <2>2. ToSet(BookParts(day)) \subseteq AllParts
    BY <2>1 DEF AllParts
  <2> QED
    BY <2>1, <2>2, PartsTyped
<1>4. ReceiptsTrue' /\ StoresTyped'
  BY <1>3 DEF HistIInv, ReceiptsTrue, StoresTyped
<1>5. Phases'
  BY <1>3 DEF HistIInv, Phases, BeforeUpload, Uploading, Purging, Ending, Tip
<1>6. Results'
  BY <1>3 DEF HistIInv, Results, BeforeUpload, Uploading, Purging, Ending
<1>7. RevisionsGrow'
  BY <1>1, <1>3, RevisionsStay
<1> QED
  BY <1>2, <1>4, <1>5, <1>6, <1>7 DEF HistIInv

LEMMA TradesPreserve ==
  ASSUME HistIInv, NEW v \in TradeVersions, FetchTrades(v)
  PROVE  HistIInv'
<1> USE DEF FetchTrades, Go
<1>1. HubStep
  BY DEF HubStep
<1>2. HubGrows' /\ DeletedKept' /\ (ManifestsTyped /\ ManifestPinsAll)'
  BY <1>1, StoredStays
<1>3. /\ day \in Days /\ receipts = <<>> /\ UNCHANGED <<receipts, day, results>>
      /\ records' = DayParts(day, v) /\ records' \in Seq(AllParts)
  <2>1. day \in Days /\ receipts = <<>> /\ records = BookParts(day)
    BY DEF HistIInv, Phases
  <2> QED
    BY <2>1, PartsTyped DEF DayParts
<1>4. ReceiptsTrue' /\ StoresTyped'
  <2>1. TradePart(day, v) \in AllParts
    BY <1>3 DEF AllParts
  <2>2. Len(receipts') = 0 /\ Len(records') \in Nat
    BY <1>3
  <2> QED
    BY <1>3, <2>1, <2>2 DEF HistIInv, ReceiptsTrue, StoresTyped
<1>5. Phases'
  BY <1>3 DEF HistIInv, Phases, BeforeUpload, Uploading, Purging, Ending, Tip
<1>6. Results'
  BY <1>3 DEF HistIInv, Results, Uploading, Purging, Ending
<1>7. RevisionsGrow'
  BY <1>1, <1>3, RevisionsStay
<1> QED
  BY <1>2, <1>4, <1>5, <1>6, <1>7 DEF HistIInv

LEMMA AssertPreserves == HistIInv /\ AssertDestination => HistIInv'
<1> SUFFICES ASSUME HistIInv, AssertDestination PROVE HistIInv'
  OBVIOUS
<1> USE DEF AssertDestination, Go, storedVars
<1>1. HubStep
  BY DEF HubStep
<1>2. /\ HubGrows' /\ DeletedKept' /\ (ManifestsTyped /\ ManifestPinsAll)'
      /\ ReceiptsTrue' /\ StoresTyped'
  BY <1>1, StoredStays DEF StoresTyped, HistIInv
<1>3. Tip \in Nat /\ Tip >= 1 /\ UNCHANGED hub
  BY DEF HistIInv, HubGrows, Tip
<1>4. Phases'
  BY <1>3 DEF HistIInv, Phases, BeforeUpload, Uploading, Purging, Ending, Tip
<1>5. Results'
  BY DEF HistIInv, Results, Uploading, Purging, Ending
<1>6. RevisionsGrow'
  <2>1. \A i \in 1 .. Len(receipts) : receipts[i].rev <= Tip
    BY <1>3 DEF HistIInv, ReceiptsTrue
  <2>2. \A i \in 1 .. Len(results) : results[i].rev <= Tip
    BY <1>3 DEF HistIInv, RevisionsGrow
  <2> QED
    BY <1>3, <2>1, <2>2 DEF HistIInv, RevisionsGrow, Uploading, Intact, Tip
<1> QED
  BY <1>2, <1>4, <1>5, <1>6 DEF HistIInv

LEMMA OtherPreserves ==
  ASSUME HistIInv, NEW p \in AllParts, OtherUpload(p)
  PROVE  HistIInv'
<1> USE DEF OtherUpload, processVars
<1>1. HubStep
  <2>1. {<<p, TRUE>>} \in SUBSET Files
    BY OneFile
  <2>2. Commit({<<p, TRUE>>})
    OBVIOUS
  <2> QED
    BY <2>1, <2>2 DEF HubStep
<1>2. /\ HubGrows' /\ DeletedKept' /\ (ManifestsTyped /\ ManifestPinsAll)'
      /\ ReceiptsTrue' /\ StoresTyped'
  BY <1>1, StoredStays DEF StoresTyped, HistIInv
<1>3. Tip \in Nat /\ Tip' \in Nat /\ Tip <= Tip'
  BY <1>1, IntactStays DEF HistIInv
<1>4. Phases'
  BY <1>3 DEF HistIInv, Phases
<1>5. Results'
  BY DEF HistIInv, Results
<1>6. RevisionsGrow'
  BY <1>1, RevisionsStay
<1> QED
  BY <1>2, <1>4, <1>5, <1>6 DEF HistIInv

\* A receipt of a file that is intact at a revision no older than the head seen.
LEMMA ReceiptPreserves ==
  ASSUME HistIInv, HubStep, histPc = "send", histPc' = "upload",
         NEW rev \in 1 .. Tip', <<Sending, TRUE>> \in hub'[rev], headSeen <= rev,
         receipts' = Append(receipts, [part |-> Sending, rev |-> rev]),
         UNCHANGED <<day, records, results, headSeen, txOpen, cache, local,
                     manifests, deleted>>
  PROVE  HistIInv'
<1> DEFINE x == [part |-> Sending, rev |-> rev]
           n == Len(receipts)
<1>1. /\ HubGrows' /\ DeletedKept' /\ (ManifestsTyped /\ ManifestPinsAll)'
      /\ StoresTyped'
  BY StoredStays DEF StoresTyped, HistIInv
<1>2. /\ Tip \in Nat /\ Tip' \in Nat /\ Tip <= Tip'
      /\ \A r \in 1 .. Tip : hub'[r] = hub[r]
  BY IntactStays DEF HistIInv
<1>3. /\ n \in Nat /\ n < Len(records) /\ records \in Seq(AllParts)
      /\ Sending = records[n + 1] /\ Sending \in AllParts /\ rev \in Nat
  BY <1>2 DEF HistIInv, Phases, ReceiptsTrue, Sending
<1>4. x \in [part : AllParts, rev : Nat]
  BY <1>3
<1>5. /\ receipts' \in Seq([part : AllParts, rev : Nat]) /\ Len(receipts') = n + 1
      /\ receipts'[n + 1] = x
      /\ \A i \in 1 .. n : receipts'[i] = receipts[i]
  <2>1. receipts \in Seq([part : AllParts, rev : Nat])
    BY DEF HistIInv, ReceiptsTrue
  <2> HIDE DEF x
  <2>2. receipts' = Append(receipts, x)
    BY DEF x
  <2> QED
    BY <1>4, <2>1, <2>2
<1>6. /\ x.part = Sending /\ x.rev = rev
  OBVIOUS
<1> HIDE DEF x, n
<1>7. \A i \in 1 .. n + 1 : i \in 1 .. n \/ i = n + 1
  BY <1>3
<1>8. ASSUME NEW i \in 1 .. n + 1
      PROVE  /\ receipts'[i].part = records[i] /\ receipts'[i].rev \in 1 .. Tip'
             /\ <<records[i], TRUE>> \in hub'[receipts'[i].rev]
             /\ receipts'[i].rev <= rev
             /\ \A d \in 1 .. Len(results) : results[d].rev <= receipts'[i].rev
  <2>1. CASE i \in 1 .. n
    <3>1. receipts'[i] = receipts[i]
      BY <1>5, <2>1
    <3>2. /\ receipts[i].part = records[i] /\ receipts[i].rev \in 1 .. Tip
          /\ <<records[i], TRUE>> \in hub[receipts[i].rev]
      BY <2>1 DEF HistIInv, ReceiptsTrue, Intact, n
    <3>3. receipts[i].rev <= headSeen /\ headSeen \in Nat
      BY <1>2, <2>1 DEF HistIInv, RevisionsGrow, Phases, n
    <3>4. \A d \in 1 .. Len(results) : results[d].rev <= receipts[i].rev
      BY <2>1 DEF HistIInv, RevisionsGrow, Uploading, n
    <3>5. PICK r \in 1 .. Tip : r = receipts[i].rev
      BY <3>2
    <3>6. hub'[r] = hub[r] /\ r \in 1 .. Tip' /\ r <= rev
      BY <1>2, <1>3, <3>3, <3>5
    <3> QED
      BY <3>1, <3>2, <3>4, <3>5, <3>6
  <2>2. CASE i = n + 1
    <3>1. receipts'[i].part = Sending /\ receipts'[i].rev = rev
      BY <1>5, <1>6, <2>2
    <3>2. \A d \in 1 .. Len(results) : results[d].rev <= rev
      <4>1. \A d \in 1 .. Len(results) :
              results[d].rev <= headSeen /\ results[d].rev \in 1 .. Tip
        BY DEF HistIInv, RevisionsGrow
      <4>2. headSeen \in Nat
        BY <1>2 DEF HistIInv, Phases
      <4> QED
        BY <1>2, <1>3, <4>1, <4>2
    <3>3. PICK r : r = receipts'[i].rev
      OBVIOUS
    <3>4. r = rev /\ receipts'[i].part = records[i] /\ <<records[i], TRUE>> \in hub'[r]
      BY <1>3, <2>2, <3>1, <3>3
    <3>5. r \in 1 .. Tip' /\ r <= rev
      BY <1>3, <3>4
    <3> QED
      BY <3>1, <3>2, <3>3, <3>4, <3>5, Zenon
  <2> QED
    BY <1>7, <2>1, <2>2
<1>9. ReceiptsTrue'
  <2>1. /\ records' = records /\ Len(receipts') <= Len(records)
        /\ 1 .. Len(receipts') = 1 .. n + 1
    BY <1>3, <1>5
  <2> QED
    BY <1>3, <1>5, <1>8, <2>1 DEF ReceiptsTrue, Intact
<1>10. Phases'
  BY <1>2 DEF HistIInv, Phases, BeforeUpload, Uploading, Purging, Ending
<1>11. Results'
  BY DEF HistIInv, Results, Uploading, Purging, Ending
<1>12. RevisionsGrow'
  <2>1. \A i, j \in 1 .. n + 1 : i <= j => receipts'[i].rev <= receipts'[j].rev
    <3> SUFFICES ASSUME NEW i \in 1 .. n + 1, NEW j \in 1 .. n + 1, i <= j
                 PROVE  receipts'[i].rev <= receipts'[j].rev
      OBVIOUS
    <3>1. CASE j = n + 1
      BY <1>5, <1>6, <1>8, <3>1
    <3>2. CASE j \in 1 .. n
      <4>1. i \in 1 .. n
        BY <1>3, <3>2
      <4> QED
        BY <1>5, <3>2, <4>1 DEF HistIInv, RevisionsGrow, n
    <3> QED
      BY <1>7, <3>1, <3>2
  <2>2. ASSUME NEW d \in 1 .. Len(results)
        PROVE  /\ results[d].rev \in 1 .. Tip'
               /\ \A p \in results[d].parts : <<p, TRUE>> \in hub'[results[d].rev]
    <3>1. /\ results[d].rev \in 1 .. Tip
          /\ \A p \in results[d].parts : <<p, TRUE>> \in hub[results[d].rev]
      BY <2>2 DEF HistIInv, RevisionsGrow, Intact
    <3>2. PICK r \in 1 .. Tip : r = results[d].rev
      BY <3>1
    <3>3. hub'[r] = hub[r] /\ r \in 1 .. Tip'
      BY <1>2, <3>2
    <3> QED
      BY <3>1, <3>2, <3>3, Zenon
  <2>3. \A i, j \in 1 .. Len(results) : i <= j => results[i].rev <= results[j].rev
    BY DEF HistIInv, RevisionsGrow
  <2> QED
    BY <1>5, <1>8, <2>1, <2>2, <2>3 DEF RevisionsGrow, Intact
<1> QED
  BY <1>1, <1>9, <1>10, <1>11, <1>12 DEF HistIInv

LEMMA SendingSteps == HistIInv /\ (Reuse \/ Send) => HistIInv'
<1>1. ASSUME HistIInv, Reuse PROVE HistIInv'
  <2>1. HubStep /\ Tip' = Tip /\ headSeen \in 1 .. Tip' /\ headSeen <= headSeen
    BY <1>1 DEF Reuse, HubStep, storedVars, Tip, HistIInv, Phases, HubGrows
  <2>2. <<Sending, TRUE>> \in hub'[headSeen]
    BY <1>1 DEF Reuse, Verified, storedVars
  <2> QED
    BY <1>1, <2>1, <2>2, ReceiptPreserves DEF Reuse, Receipt, Go, storedVars
<1>2. ASSUME HistIInv, Send PROVE HistIInv'
  <2>1. Sending \in AllParts
    BY <1>2 DEF Send, Sending, HistIInv, ReceiptsTrue, Phases
  <2>2. {<<Sending, TRUE>>} \in SUBSET Files /\ Commit({<<Sending, TRUE>>})
    BY <1>2, <2>1, OneFile DEF Send
  <2>3. HubStep
    BY <2>2 DEF HubStep
  <2>4. /\ Tip' = Tip + 1 /\ Tip \in Nat
        /\ hub'[Tip + 1] = hub[Tip] \cup {<<Sending, TRUE>>}
    BY <1>2, <2>2, CommitGrows DEF HistIInv
  <2>5. headSeen \in 1 .. Tip
    BY <1>2 DEF HistIInv, Phases
  <2>6. /\ Tip + 1 \in 1 .. Tip' /\ headSeen <= Tip + 1
        /\ <<Sending, TRUE>> \in hub'[Tip + 1]
    BY <2>4, <2>5
  <2>7. PICK rev \in 1 .. Tip' : rev = Tip + 1
    BY <2>6
  <2> QED
    BY <1>2, <2>3, <2>6, <2>7, ReceiptPreserves DEF Send, Receipt, Go
<1> QED
  BY <1>1, <1>2

\* A day that ends without a crash.
LEMMA NextDayPreserves == HistIInv /\ NextDay => HistIInv'
<1> SUFFICES ASSUME HistIInv, NextDay PROVE HistIInv'
  OBVIOUS
<1> USE DEF NextDay, Go, storedVars
<1>1. HubStep
  BY DEF HubStep
<1>2. /\ HubGrows' /\ DeletedKept' /\ (ManifestsTyped /\ ManifestPinsAll)'
      /\ StoresTyped'
  BY <1>1, StoredStays DEF StoresTyped, HistIInv
<1>3. ReceiptsTrue'
  BY DEF ReceiptsTrue
<1>4. ~txOpen /\ day \in Days /\ headSeen \in 1 .. Tip /\ Len(results) = day
  BY DEF HistIInv, Phases, Results, Uploading, Ending, Purging
<1>7. /\ receipts' = <<>> /\ UNCHANGED <<results, hub>>
      /\ \A i, j \in 1 .. Len(results) : i <= j => results[i].rev <= results[j].rev
      /\ \A i \in 1 .. Len(results)' :
           /\ (results[i].rev \in 1 .. Tip)'
           /\ (\A p \in results[i].parts : Intact(p, results[i].rev))'
  BY DEF HistIInv, RevisionsGrow, Intact, Tip
<1>5. CASE day = LastDay
  <2>1. day' = day /\ histPc' = "finish"
    BY <1>5
  <2>2. Phases' /\ Results'
    BY <1>4, <1>5, <2>1 DEF HistIInv, Phases, Results, BeforeUpload, Uploading,
                             Purging, Ending, Tip
  <2>3. RevisionsGrow'
    BY <1>7, <2>1 DEF RevisionsGrow, Uploading
  <2> QED
    BY <1>2, <1>3, <2>2, <2>3 DEF HistIInv
<1>6. CASE day # LastDay
  <2>1. day' = day + 1 /\ histPc' = "download" /\ day' \in Days
    BY <1>4, <1>6, HistoryAssumption DEF Days
  <2>2. Phases' /\ Results'
    BY <1>4, <2>1 DEF HistIInv, Phases, Results, BeforeUpload, Uploading,
                      Purging, Ending, Tip, Days
  <2>3. RevisionsGrow'
    BY <1>7, <2>1 DEF RevisionsGrow, Uploading
  <2> QED
    BY <1>2, <1>3, <2>2, <2>3 DEF HistIInv
<1> QED
  BY <1>5, <1>6
\* All that was uploaded for the day is intact at the last receipt's revision,
\* and no earlier day was pinned at a later one.
LEMMA LastReceipt ==
  ASSUME HistIInv, histPc = "upload", Len(receipts) = Len(records)
  PROVE  /\ Last(receipts).rev \in 1 .. Tip
         /\ \A p \in ToSet(records) : p \in AllParts /\ Intact(p, Last(receipts).rev)
         /\ \A d \in 1 .. Len(results) : results[d].rev <= Last(receipts).rev
<1>1. PICK v \in TradeVersions : records = DayParts(day, v)
  BY DEF HistIInv, Phases
<1>2. Len(records) = 3 /\ Len(receipts) = 3
  BY <1>1, PartsTyped DEF HistIInv, Phases
<1>3. Last(receipts) = receipts[3]
  BY <1>2 DEF Last
<1>4. PICK last : last = receipts[3].rev
  OBVIOUS
<1>5. last \in 1 .. Tip /\ Tip \in Nat
  BY <1>2, <1>4 DEF HistIInv, ReceiptsTrue, HubGrows, Tip
<1>6. ASSUME NEW i \in 1 .. 3
      PROVE  records[i] \in AllParts /\ <<records[i], TRUE>> \in hub[last]
  <2>1. /\ records[i] \in AllParts /\ receipts[i].rev \in 1 .. Tip
        /\ <<records[i], TRUE>> \in hub[receipts[i].rev]
    <3>1. i \in 1 .. Len(receipts) /\ i \in 1 .. Len(records)
      BY <1>2, <1>6
    <3>2. records[i] \in AllParts
      BY <3>1 DEF HistIInv, ReceiptsTrue
    <3> QED
      BY <3>1, <3>2 DEF HistIInv, ReceiptsTrue, Intact
  <2>2. receipts[i].rev <= last
    BY <1>2, <1>4 DEF HistIInv, RevisionsGrow
  <2>3. PICK r \in 1 .. Tip : r = receipts[i].rev
    BY <2>1
  <2>4. hub[r] \subseteq hub[last]
    BY <1>5, <2>2, <2>3 DEF HistIInv, HubGrows
  <2> QED
    BY <2>1, <2>3, <2>4
<1>7. \A p \in ToSet(records) : \E i \in 1 .. 3 : p = records[i]
  BY <1>2 DEF ToSet, HistIInv, ReceiptsTrue
<1>8. \A d \in 1 .. Len(results) : results[d].rev <= last
  BY <1>2, <1>4 DEF HistIInv, RevisionsGrow, Uploading
<1> QED
  BY <1>3, <1>4, <1>5, <1>6, <1>7, <1>8 DEF Intact

LEMMA AuditPreserves ==
  ASSUME HistIInv, NEW pass \in BOOLEAN, Audit(pass)
  PROVE  HistIInv'
<1> DEFINE x == [parts |-> ToSet(records), pass |-> pass, rev |-> Last(receipts).rev]
           n == Len(results)
           Rows == [parts : SUBSET AllParts, pass : BOOLEAN, rev : Nat]
<1>1. /\ UNCHANGED <<hub, cache, local, manifests, deleted, day, records, receipts,
                     headSeen, txOpen>>
      /\ histPc = "upload" /\ Len(receipts) = Len(records)
      /\ results' = Append(results, x)
      /\ histPc' = IF pass THEN "purgeRows" ELSE "finish"
  BY DEF Audit, Go, storedVars
<1>2. HubStep
  BY <1>1 DEF HubStep
<1>3. /\ HubGrows' /\ DeletedKept' /\ (ManifestsTyped /\ ManifestPinsAll)'
      /\ ReceiptsTrue' /\ StoresTyped'
  BY <1>1, <1>2, StoredStays DEF StoresTyped, HistIInv
<1>4. /\ Last(receipts).rev \in 1 .. Tip
      /\ \A p \in ToSet(records) : p \in AllParts /\ Intact(p, Last(receipts).rev)
      /\ \A d \in 1 .. n : results[d].rev <= Last(receipts).rev
  BY <1>1, LastReceipt
<1>5. x \in Rows /\ x.parts = ToSet(records) /\ x.rev = Last(receipts).rev
      /\ x.pass = pass
  <2>1. Last(receipts).rev \in Nat /\ ToSet(records) \in SUBSET AllParts
    BY <1>4 DEF HistIInv, HubGrows, Tip
  <2> QED
    BY <2>1, Zenon
<1>6. /\ results \in Seq(Rows) /\ n = day - 1 /\ n \in Nat
      /\ \E v \in TradeVersions : records = DayParts(day, v)
      /\ day \in Nat
  BY <1>1 DEF HistIInv, Results, Phases, Purging, Ending, Days
<1> HIDE DEF x, n, Rows
<1>7. /\ results' \in Seq(Rows) /\ Len(results') = n + 1 /\ results'[n + 1] = x
      /\ \A i \in 1 .. n : results'[i] = results[i]
  BY <1>1, <1>5, <1>6 DEF n
<1>8. /\ \A i \in 1 .. n + 1 : i \in 1 .. n \/ i = n + 1
      /\ 1 .. Len(results') = 1 .. n + 1 /\ n + 1 \in 1 .. n + 1
  BY <1>6, <1>7
<1>9. Phases'
  BY <1>1 DEF HistIInv, Phases, BeforeUpload, Uploading, Purging, Ending, Tip
<1>10. Results'
  <2>1. Len(results') = day'
    BY <1>1, <1>6, <1>7
  <2>2. \A d \in 1 .. n + 1 :
          \E v \in TradeVersions : results'[d].parts = ToSet(DayParts(d, v))
    <3>1. \A d \in 1 .. n :
            \E v \in TradeVersions : results'[d].parts = ToSet(DayParts(d, v))
      BY <1>7 DEF HistIInv, Results, n
    <3>2. \E v \in TradeVersions : results'[n + 1].parts = ToSet(DayParts(n + 1, v))
      <4>1. n + 1 = day
        BY <1>6
      <4> QED
        BY <1>5, <1>6, <1>7, <4>1
    <3> QED
      BY <1>8, <3>1, <3>2
  <2>3. histPc' \in Ending => ~results'[n + 1].pass
    BY <1>1, <1>5, <1>7 DEF Ending
  <2>4. histPc' \in Purging \cup Ending
    BY <1>1 DEF Purging, Ending
  <2> QED
    BY <1>7, <1>8, <2>1, <2>2, <2>3, <2>4 DEF Results, Rows
<1>11. RevisionsGrow'
  <2>1. ASSUME NEW d \in 1 .. n + 1
        PROVE  /\ results'[d].rev \in 1 .. Tip
               /\ \A p \in results'[d].parts : <<p, TRUE>> \in hub[results'[d].rev]
               /\ results'[d].rev <= x.rev
    <3>1. CASE d \in 1 .. n
      BY <1>4, <1>5, <1>7, <3>1 DEF HistIInv, RevisionsGrow, Intact, n
    <3>2. CASE d = n + 1
      <4>1. x.rev \in 1 .. Tip /\ x.rev <= x.rev
        BY <1>4, <1>5 DEF HistIInv, HubGrows, Tip
      <4> QED
        BY <1>4, <1>5, <1>7, <3>2, <4>1 DEF Intact
    <3> QED
      BY <1>8, <3>1, <3>2
  <2>2. \A i, j \in 1 .. n + 1 : i <= j => results'[i].rev <= results'[j].rev
    <3> SUFFICES ASSUME NEW i \in 1 .. n + 1, NEW j \in 1 .. n + 1, i <= j
                 PROVE  results'[i].rev <= results'[j].rev
      OBVIOUS
    <3>1. CASE j = n + 1
      BY <1>7, <2>1, <3>1
    <3>2. CASE j \in 1 .. n
      <4>1. i \in 1 .. n
        BY <1>6, <3>2
      <4> QED
        BY <1>7, <3>2, <4>1 DEF HistIInv, RevisionsGrow, n
    <3> QED
      BY <1>8, <3>1, <3>2
  <2>3. histPc' \notin Uploading /\ histPc' # "send" /\ UNCHANGED <<receipts, hub>>
    BY <1>1 DEF Uploading
  <2>4. \A i, j \in 1 .. Len(receipts) : i <= j => receipts[i].rev <= receipts[j].rev
    BY DEF HistIInv, RevisionsGrow
  <2> QED
    BY <1>8, <2>1, <2>2, <2>3, <2>4 DEF RevisionsGrow, Intact, Tip
<1> QED
  BY <1>3, <1>9, <1>10, <1>11 DEF HistIInv

\* The manifest that ends a run.
LEMMA ManifestTrue ==
  ASSUME HistIInv, histPc \in Ending, NEW passed \in BOOLEAN,
         passed => \A i \in DOMAIN results : results[i].pass
  PROVE  LET parts == UNION {results[i].parts : i \in DOMAIN results}
         IN  /\ Last(results).rev \in 1 .. Tip /\ parts \subseteq AllParts
             /\ \A p \in parts : <<p, TRUE>> \in hub[Last(results).rev]
             /\ passed => \A d \in Days : \E v \in TradeVersions :
                  ToSet(BookParts(d)) \cup {TradePart(d, v)} \subseteq parts
<1> DEFINE parts == UNION {results[i].parts : i \in DOMAIN results}
           n == Len(results)
           Rows == [parts : SUBSET AllParts, pass : BOOLEAN, rev : Nat]
<1>1. /\ n = day /\ n \in Nat /\ n >= 1 /\ DOMAIN results = 1 .. n /\ day \in Days
      /\ results \in Seq(Rows) /\ n \in 1 .. n
  BY DEF HistIInv, Results, Phases, Days, Ending
<1>2. Last(results) = results[n]
  BY <1>1 DEF Last
<1>3. PICK last : last = results[n].rev
  OBVIOUS
<1> HIDE DEF n, Rows
<1>4. ASSUME NEW i \in 1 .. n
      PROVE  /\ results[i].parts \subseteq AllParts
             /\ \A p \in results[i].parts : <<p, TRUE>> \in hub[last]
             /\ last \in 1 .. Tip
  <2>1. /\ results[i].rev \in 1 .. Tip /\ results[n].rev \in 1 .. Tip
        /\ results[i].rev <= results[n].rev
        /\ \A p \in results[i].parts : <<p, TRUE>> \in hub[results[i].rev]
    <3>1. i <= n /\ i \in 1 .. Len(results) /\ n \in 1 .. Len(results)
      BY <1>1, <1>4 DEF n
    <3> QED
      BY <3>1 DEF HistIInv, RevisionsGrow, Intact
  <2>2. PICK r \in 1 .. Tip : r = results[i].rev
    BY <2>1
  <2>3. hub[r] \subseteq hub[last]
    BY <1>3, <2>1, <2>2 DEF HistIInv, HubGrows
  <2>4. results[i].parts \subseteq AllParts
    <3>1. results[i] \in Rows
      BY <1>1, <1>4 DEF n
    <3> QED
      BY <3>1 DEF Rows
  <2> QED
    BY <1>3, <2>1, <2>2, <2>3, <2>4
<1>5. parts \subseteq AllParts /\ \A p \in parts : <<p, TRUE>> \in hub[last]
  BY <1>1, <1>4
<1>6. last \in 1 .. Tip
  BY <1>1, <1>4
<1>7. passed => \A d \in Days : \E v \in TradeVersions :
        ToSet(BookParts(d)) \cup {TradePart(d, v)} \subseteq parts
  <2> SUFFICES ASSUME passed, NEW d \in Days
               PROVE  \E v \in TradeVersions :
                        ToSet(BookParts(d)) \cup {TradePart(d, v)} \subseteq parts
    OBVIOUS
  <2>1. n = LastDay
    BY <1>1 DEF HistIInv, Results, n
  <2>2. d \in 1 .. n
    BY <2>1 DEF Days
  <2>3. PICK v \in TradeVersions : results[d].parts = ToSet(DayParts(d, v))
    BY <2>2 DEF HistIInv, Results, n
  <2>4. ToSet(BookParts(d)) \cup {TradePart(d, v)} = results[d].parts
    BY <2>3, PartsTyped
  <2>5. results[d].parts \subseteq parts
    BY <1>1, <2>2
  <2> QED
    BY <2>4, <2>5
<1> QED
  BY <1>2, <1>3, <1>5, <1>6, <1>7

LEMMA FinishPreserves ==
  ASSUME HistIInv, NEW enough \in BOOLEAN, Finish(enough)
  PROVE  HistIInv'
<1>1. PICK passed \in BOOLEAN :
        passed = (enough /\ \A i \in DOMAIN results : results[i].pass)
  OBVIOUS
<1>2. PICK m : m = [parts |-> UNION {results[i].parts : i \in DOMAIN results},
                    rev |-> Last(results).rev, pass |-> passed]
  OBVIOUS
<1>3. /\ histPc = "finish" /\ UNCHANGED <<cache, local, hub, deleted>>
      /\ manifests' = manifests \cup {m}
      /\ passed => histPc' = "publish" /\ UNCHANGED processVars
      /\ ~passed => Forget
  BY <1>1, <1>2 DEF Finish, ManifestRevision, Go
<1>4. HubStep
  BY <1>3 DEF HubStep
<1>5. /\ m.rev \in 1 .. Tip /\ m.parts \subseteq AllParts
      /\ \A p \in m.parts : <<p, TRUE>> \in hub[m.rev]
      /\ m.pass => \A d \in Days : \E v \in TradeVersions :
           ToSet(BookParts(d)) \cup {TradePart(d, v)} \subseteq m.parts
  <2>1. histPc \in Ending /\ (passed => \A i \in DOMAIN results : results[i].pass)
    BY <1>1, <1>3 DEF Ending
  <2> QED
    BY <1>2, <2>1, ManifestTrue
<1>6. (ManifestsTyped /\ ManifestPinsAll)'
  <2>1. UNCHANGED hub /\ manifests' = manifests \cup {m}
    BY <1>3
  <2> QED
    BY <1>5, <2>1 DEF HistIInv, ManifestsTyped, ManifestPinsAll, Tip
<1>7. StoresTyped'
  BY <1>3 DEF HistIInv, StoresTyped
<1>8. CASE ~passed
  BY <1>3, <1>4, <1>6, <1>7, <1>8, ForgetPreserves
<1>9. CASE passed
  <2>1. histPc' = "publish" /\ UNCHANGED <<processVars, hub>>
    BY <1>3, <1>9
  <2>2. HubGrows' /\ DeletedKept' /\ ReceiptsTrue'
    BY <1>3, <1>4, <2>1, StoredStays DEF processVars
  <2>3. Phases'
    BY <1>3, <2>1 DEF HistIInv, Phases, BeforeUpload, Uploading, Purging, Ending,
                      Tip, processVars
  <2>4. Results'
    BY <1>3, <2>1 DEF HistIInv, Results, Ending, Purging, processVars
  <2>5. RevisionsGrow'
    BY <1>4, <2>1, RevisionsStay DEF processVars, Uploading
  <2> QED
    BY <1>6, <1>7, <2>2, <2>3, <2>4, <2>5 DEF HistIInv
<1> QED
  BY <1>8, <1>9

-----------------------------------------------------------------------------
LEMMA HistNextInv == HistIInv /\ [HistoryNext]_histVars => HistIInv'
<1> SUFFICES ASSUME HistIInv, [HistoryNext]_histVars PROVE HistIInv'
  OBVIOUS
<1>1. CASE UNCHANGED histVars
  <2>1. HubStep /\ UNCHANGED <<hub, cache, local, deleted, manifests, histPc>>
        /\ UNCHANGED <<day, records, receipts, results, headSeen, txOpen>>
    BY <1>1 DEF histVars, processVars, storedVars, HubStep
  <2>2. /\ HubGrows' /\ DeletedKept' /\ ReceiptsTrue' /\ StoresTyped'
        /\ (ManifestsTyped /\ ManifestPinsAll)'
    BY <2>1, StoredStays DEF HistIInv, StoresTyped
  <2>3. Phases' /\ Results' /\ RevisionsGrow'
    <3>1. Phases' /\ Results'
      BY <2>1 DEF HistIInv, Phases, Results, Tip
    <3>2. RevisionsGrow'
      BY <2>1, RevisionsStay
    <3> QED
      BY <3>1, <3>2
  <2> QED
    BY <2>2, <2>3 DEF HistIInv
<1>2. CASE \/ Begin \/ UseCached \/ Truncate \/ Restore \/ CountRows
           \/ Fetch("dump") \/ Fetch("sidecar")
  BY <1>2, EarlySteps
<1>3. CASE Stops \/ RestoreFails \/ SendGarbled \/ PublishManifest
  BY <1>3, EndingSteps
<1>4. CASE ReplayDay
  BY <1>4, ReplayPreserves
<1>5. CASE \E v \in TradeVersions : FetchTrades(v)
  BY <1>5, TradesPreserve
<1>6. CASE AssertDestination
  BY <1>6, AssertPreserves
<1>7. CASE Reuse \/ Send
  BY <1>7, SendingSteps
<1>8. CASE \E p \in AllParts : OtherUpload(p)
  BY <1>8, OtherPreserves
<1>9. CASE \E pass \in BOOLEAN : Audit(pass)
  BY <1>9, AuditPreserves
<1>10. CASE \/ PurgeRows
            \/ PurgeFile("dump", "purgeDump", "purgeSidecar")
            \/ PurgeFile("sidecar", "purgeSidecar", "purgeLocal")
            \/ \E p \in AllParts : PurgeLocal(p)
  BY <1>10, PurgeSteps
<1>11. CASE NextDay
  BY <1>11, NextDayPreserves
<1>12. CASE \E enough \in BOOLEAN : Finish(enough)
  BY <1>12, FinishPreserves
<1> QED
  BY <1>1, <1>2, <1>3, <1>4, <1>5, <1>6, <1>7, <1>8, <1>9, <1>10, <1>11, <1>12
     DEF HistoryNext

\* The inductive invariant gives the properties that are checked.
LEMMA HistInvs == HistIInv => HistoryInv /\ ManifestPinsAll
<1> SUFFICES ASSUME HistIInv PROVE HistoryInv /\ ManifestPinsAll
  OBVIOUS
<1>1. HistTypeOK
  <2>1. Len(results) <= LastDay
    BY HistoryAssumption DEF HistIInv, Results, Phases, Days
  <2> QED
    BY <2>1 DEF HistTypeOK, HistIInv, Phases, StoresTyped, DeletedKept, ReceiptsTrue
<1>2. DeletedAreStored
  BY DEF HistIInv, DeletedKept, Intact, DeletedAreStored
<1>3. NeverWaitsForItself
  BY DEF HistIInv, Phases, Uploading, Ending, NeverWaitsForItself
<1> QED
  BY <1>1, <1>2, <1>3 DEF HistoryInv, HistIInv

(***************************************************************************)
(* run_history_download never loses what it deletes and never waits for    *)
(* its own transaction, for any window of days, wherever a run is killed   *)
(* and whatever is uploaded beside it.                                     *)
(***************************************************************************)
THEOREM WhatIsDeletedIsStored == HistorySpec => []HistoryInv
<1>1. HistorySpec => []HistIInv
  BY HistInitInv, HistNextInv, PTL DEF HistorySpec
<1> QED
  BY <1>1, HistInvs, PTL

(***************************************************************************)
(* Every manifest the pipeline writes can be loaded and verified at the    *)
(* one revision it pins, and one that passes lists every day of the window.*)
(***************************************************************************)
THEOREM ManifestsAreSound == HistorySpec => []ManifestPinsAll
<1>1. HistorySpec => []HistIInv
  BY HistInitInv, HistNextInv, PTL DEF HistorySpec
<1> QED
  BY <1>1, HistInvs, PTL

-----------------------------------------------------------------------------
(***************************************************************************)
(* TradePages: a day of trades, page by page.                              *)
(***************************************************************************)
Ids == DOMAIN tape
Wanted == InWindow(Ids)

\* A trade whose second was cut by the oldest trade of a page.
CutOff(i) ==
  /\ ~covers
  /\ \E o \in cuts : SecondOf(o) = SecondOf(tape[i]) /\ tape[i] <= o

\* The requests go on from the oldest trade of the last page.
WhereItIs ==
  \/ prevOldest = -1 /\ pageEnd = DaySeconds
  \/ prevOldest \in cuts /\ pageEnd = SecondOf(prevOldest)

PagesTyped ==
  /\ tape \in Seq(0 .. 2 * DaySeconds)
  /\ \A i, j \in Ids : i <= j => tape[i] <= tape[j]
  /\ covers \in BOOLEAN
  /\ barren \in 0 .. 2 /\ (outcome = "fetching" => barren < 2)
  /\ seenIds \subseteq Ids
  /\ outcome \in {"fetching", "complete", "raised"}
  /\ cuts \subseteq 0 .. 2 * DaySeconds

\* What is missing was cut off, or lies before the last page.
MissingIsBefore ==
  outcome = "fetching" =>
    \A i \in Wanted \ seenIds : CutOff(i) \/ prevOldest = -1 \/ tape[i] <= prevOldest

PagesIInv == PagesTyped /\ WhereItIs /\ MissingIsBefore /\ OnlyCutsLost

-----------------------------------------------------------------------------
LEMMA Halves ==
  ASSUME NEW x \in Nat
  PROVE  /\ SecondOf(x) \in Nat /\ SecondOf(x) <= x
         /\ x = 2 * SecondOf(x) \/ x = 2 * SecondOf(x) + 1
BY DEF SecondOf

LEMMA TapeTimes ==
  ASSUME PagesTyped
  PROVE  /\ Len(tape) \in Nat /\ Ids = 1 .. Len(tape) /\ Ids \subseteq Nat
         /\ \A i \in Ids : tape[i] \in 0 .. 2 * DaySeconds /\ tape[i] \in Nat
<1>1. Len(tape) \in Nat /\ Ids = 1 .. Len(tape)
  BY DEF PagesTyped, Ids
<1> DEFINE Times == 0 .. 2 * DaySeconds
<1>2. tape \in Seq(Times)
  BY DEF PagesTyped
<1>3. Times \subseteq Nat
  BY PagesAssumption
<1> HIDE DEF Times
<1>4. \A i \in 1 .. Len(tape) : tape[i] \in Times
  BY <1>2
<1> QED
  BY <1>1, <1>3, <1>4 DEF Times

\* Neighbours in order are all in order.
LEMMA TapeType ==
  ASSUME tape \in Tapes
  PROVE  /\ tape \in Seq(0 .. 2 * DaySeconds)
         /\ \A i, j \in Ids : i <= j => tape[i] <= tape[j]
<1>1. PICK n \in 0 .. MaxTape : tape \in [1 .. n -> 0 .. 2 * DaySeconds]
  BY DEF Tapes, SeqOf
<1>2. tape \in Seq(0 .. 2 * DaySeconds) /\ Len(tape) = n /\ Ids = 1 .. n
  BY <1>1, PagesAssumption DEF Ids
<1>3. \A i \in 1 .. n - 1 : tape[i] <= tape[i + 1]
  BY <1>2 DEF Tapes
<1>4. ASSUME NEW i \in Ids, NEW j \in Ids, i <= j, ~(tape[i] <= tape[j]) PROVE FALSE
  <2> DEFINE S == {k \in Nat : k \in i .. n /\ ~(tape[i] <= tape[k])}
  <2>1. S \in SUBSET Nat /\ S # {}
    BY <1>2, <1>4
  <2>2. PICK least \in S : \A k \in S : least <= k
    BY <2>1, SmallestOf
  <2>3. least \in i .. n /\ ~(tape[i] <= tape[least]) /\ i \in 1 .. n /\ n \in Nat
    BY <1>2, <2>2
  <2>4. tape[i] \in Int /\ tape[least] \in Int
    BY <1>1, <2>3
  <2>5. least # i
    BY <2>3, <2>4
  <2>6. least - 1 \in i .. n /\ least - 1 \in 1 .. n - 1
    BY <2>3, <2>5
  <2>7. tape[i] <= tape[least - 1]
    BY <2>2, <2>6
  <2>8. tape[least - 1] <= tape[least]
    BY <1>3, <2>3, <2>6
  <2>9. tape[least - 1] \in Int
    BY <1>1, <2>6
  <2> QED
    BY <2>3, <2>4, <2>7, <2>8, <2>9
<1> QED
  BY <1>2, <1>4

LEMMA PagesStart == PagesInit => PagesIInv
<1> SUFFICES ASSUME PagesInit PROVE PagesIInv
  OBVIOUS
<1>1. PagesTyped
  BY TapeType DEF PagesInit, PagesTyped
<1> QED
  BY <1>1 DEF PagesInit, PagesIInv, WhereItIs, MissingIsBefore, OnlyCutsLost

-----------------------------------------------------------------------------
\* A page holds the newest trades there are: what it leaves out is older.
LEMMA PageIsNewest ==
  ASSUME PagesTyped, NEW end \in Int
  PROVE  /\ Page(end) \subseteq Upto(end) /\ Upto(end) \subseteq Ids
         /\ IsFiniteSet(Page(end))
         /\ \A i \in Upto(end) \ Page(end), j \in Page(end) : i < j
         /\ Upto(end) # Page(end) => Cardinality(Page(end)) >= PageLimit
<1> DEFINE U == Upto(end)
           Above(i) == {j \in U : j > i}
<1>1. /\ U \subseteq Ids /\ Ids = 1 .. Len(tape) /\ Len(tape) \in Nat
      /\ \A i \in U : i \in Nat
      /\ Page(end) = {i \in U : Cardinality(Above(i)) < PageLimit}
  BY TapeTimes DEF Upto, Ids, Page
<1>2. /\ IsFiniteSet(U) /\ \A i \in U : IsFiniteSet(Above(i)) /\ Cardinality(Above(i)) \in Nat
      /\ IsFiniteSet(Page(end))
  <2>1. IsFiniteSet(1 .. Len(tape))
    BY <1>1, FS_Interval
  <2>2. IsFiniteSet(U)
    BY <1>1, <2>1, FS_Subset
  <2>3. \A i \in U : Above(i) \subseteq U
    OBVIOUS
  <2>4. Page(end) \subseteq U
    BY <1>1
  <2> QED
    BY <2>2, <2>3, <2>4, FS_Subset, FS_CardinalityType
<1> HIDE DEF U
<1>3. ASSUME NEW i \in U, i \notin Page(end), NEW j \in Page(end) PROVE i < j
  <2>1. i \in Nat /\ j \in Nat /\ j \in U
    BY <1>1
  <2>2. CASE j <= i
    <3>1. Above(i) \subseteq Above(j)
      <4>1. \A k \in U : k > i => k > j
        BY <1>1, <2>1, <2>2
      <4> QED
        BY <4>1
    <3>2. Cardinality(Above(i)) <= Cardinality(Above(j))
      BY <3>1, <2>1, <1>2, FS_Subset
    <3>3. Cardinality(Above(j)) < PageLimit /\ ~(Cardinality(Above(i)) < PageLimit)
      BY <1>1, <1>3
    <3>4. Cardinality(Above(i)) \in Nat /\ Cardinality(Above(j)) \in Nat
      BY <2>1, <1>2
    <3> HIDE DEF Above
    <3> QED
      BY <3>2, <3>3, <3>4, PagesAssumption
  <2> QED
    BY <2>1, <2>2
<1>4. ASSUME U # Page(end) PROVE Cardinality(Page(end)) >= PageLimit
  <2>1. U \ Page(end) \in SUBSET (1 .. Len(tape)) /\ U \ Page(end) # {}
    BY <1>1, <1>4
  <2>2. PICK most \in U \ Page(end) : \A i \in U \ Page(end) : i <= most
    BY <1>1, <2>1, LargestOf
  <2>3. Above(most) \subseteq Page(end)
    <3>1. most \in Nat
      BY <1>1, <2>2
    <3>2. \A k \in U : k > most => k \in Page(end)
      BY <1>1, <2>2, <3>1
    <3> QED
      BY <3>2
  <2>4. Cardinality(Above(most)) <= Cardinality(Page(end))
    BY <1>2, <2>3, FS_Subset
  <2>5. ~(Cardinality(Above(most)) < PageLimit) /\ Cardinality(Above(most)) \in Nat
    BY <1>1, <1>2, <2>2
  <2>6. Cardinality(Page(end)) \in Nat
    BY <1>2, FS_CardinalityType
  <2> HIDE DEF Above
  <2> QED
    BY <2>4, <2>5, <2>6, PagesAssumption
<1> QED
  BY <1>1, <1>2, <1>3, <1>4 DEF U

\* The oldest trade of a page in the window.
LEMMA OldestIsFirst ==
  ASSUME PagesTyped, NEW ids \in SUBSET Ids, ids # {}
  PROVE  /\ OldestOf(ids) \in 0 .. 2 * DaySeconds
         /\ \E f \in ids : OldestOf(ids) = tape[f] /\ \A j \in ids : f <= j
<1>1. ids \in SUBSET Nat /\ \A i \in Ids : tape[i] \in 0 .. 2 * DaySeconds
  BY TapeTimes
<1>2. PICK f \in ids : \A j \in ids : f <= j
  BY <1>1, SmallestOf
<1>3. \A g \in ids : (\A j \in ids : g <= j) => g = f
  BY <1>1, <1>2
<1>4. (CHOOSE i \in ids : \A j \in ids : i <= j) = f
  BY <1>2, <1>3
<1> QED
  BY <1>1, <1>2, <1>4 DEF OldestOf

LEMMA FailKeeps == PagesIInv /\ PageFails => PagesIInv'
<1> SUFFICES ASSUME PagesIInv, PageFails PROVE PagesIInv'
  OBVIOUS
<1>1. outcome = "fetching" /\ outcome' \in {"fetching", "raised"}
  BY DEF PageFails
<1>2. UNCHANGED <<tape, covers, pageEnd, seenIds, barren, prevOldest, cuts>>
  BY DEF PageFails
<1> QED
  BY <1>1, <1>2 DEF PagesIInv, PagesTyped, Ids, WhereItIs, MissingIsBefore, Wanted, CutOff,
     InWindow, OnlyCutsLost

LEMMA ArriveKeeps == PagesIInv /\ PageArrives => PagesIInv'
<1> SUFFICES ASSUME PagesIInv, PageArrives PROVE PagesIInv'
  OBVIOUS
<1> DEFINE page == Page(pageEnd)
           within == InWindow(page)
           oldest == OldestOf(within)
<1>1. /\ outcome = "fetching" /\ PagesTyped /\ UNCHANGED <<tape, covers>>
      /\ seenIds' = seenIds \cup within
      /\ barren' = IF within \ seenIds = {} THEN barren + 1 ELSE 0
      /\ cuts' = IF within = {} THEN cuts ELSE cuts \cup {oldest}
      /\ \/ outcome' = "raised" /\ UNCHANGED <<pageEnd, prevOldest>>
         \/ /\ barren' < 2 /\ within = {} /\ UNCHANGED <<pageEnd, prevOldest, outcome>>
         \/ /\ barren' < 2 /\ within # {} /\ ReachedStart(oldest, page)
            /\ outcome' = "complete" /\ UNCHANGED <<pageEnd, prevOldest>>
         \/ /\ barren' < 2 /\ within # {} /\ prevOldest' = oldest
            /\ pageEnd' = SecondOf(oldest) /\ UNCHANGED outcome
  BY DEF PageArrives, PagesIInv, NextEnd
<1>2. /\ page \subseteq Upto(pageEnd) /\ Upto(pageEnd) \subseteq Ids
      /\ \A i \in Upto(pageEnd) \ page, j \in page : i < j
      /\ Upto(pageEnd) # page => Cardinality(page) >= PageLimit
      /\ IsFiniteSet(page)
  <2>1. pageEnd \in Int
    <3>1. cuts \subseteq Nat
      BY <1>1 DEF PagesTyped
    <3>2. DaySeconds \in Int
      BY PagesAssumption
    <3>3. \A o \in cuts : SecondOf(o) \in Int
      BY <3>1, Halves
    <3> QED
      BY <3>2, <3>3 DEF PagesIInv, WhereItIs
  <2> QED
    BY <1>1, <2>1, PageIsNewest
<1>3. within \subseteq page /\ within \subseteq Wanted
  BY <1>2 DEF InWindow, Wanted
<1>4. within # {} => /\ oldest \in 0 .. 2 * DaySeconds
                     /\ \E f \in within : oldest = tape[f]
  BY <1>1, <1>2, <1>3, OldestIsFirst
<1> HIDE DEF oldest
\* What is still missing after a page with trades of the day.
<1>5. ASSUME within # {}, NEW i \in Wanted, i \notin seenIds', ~CutOff(i)
      PROVE  i \in Upto(pageEnd) /\ i \notin page /\ tape[i] <= oldest
  <2>1. /\ i \in Ids /\ tape[i] \in Nat /\ tape[i] < 2 * DaySeconds
        /\ i \notin seenIds /\ i \notin within
    BY <1>1, <1>5, TapeTimes DEF Wanted, InWindow
  <2>2. i \notin page
    BY <2>1 DEF InWindow
  <2>3. i \in Upto(pageEnd)
    <3>1. prevOldest = -1 \/ tape[i] <= prevOldest
      BY <1>1, <1>5, <2>1 DEF PagesIInv, MissingIsBefore
    <3>2. CASE prevOldest = -1
      <4>1. pageEnd = DaySeconds
        BY <1>1, <3>2 DEF PagesIInv, WhereItIs, PagesTyped
      <4>2. tape[i] <= 2 * pageEnd + (IF covers THEN 1 ELSE 0)
        BY <2>1, <4>1, PagesAssumption
      <4> QED
        BY <2>1, <4>2 DEF Upto, Ids
    <3>3. CASE prevOldest # -1 /\ tape[i] <= prevOldest
      <4>0. prevOldest \in cuts /\ pageEnd = SecondOf(prevOldest)
        BY <3>3 DEF PagesIInv, WhereItIs
      <4>1. prevOldest \in cuts /\ prevOldest \in Nat /\ pageEnd = SecondOf(prevOldest)
        BY <1>1, <4>0 DEF PagesTyped
      <4>2. /\ pageEnd \in Nat
            /\ prevOldest = 2 * pageEnd \/ prevOldest = 2 * pageEnd + 1
        BY <4>1, Halves
      <4>3. CASE tape[i] <= 2 * pageEnd
        BY <2>1, <4>2, <4>3 DEF Upto, Ids
      <4>4. CASE tape[i] = 2 * pageEnd + 1
        <5>1. prevOldest = tape[i]
          BY <2>1, <3>3, <4>1, <4>2, <4>4
        <5>2. covers
          BY <1>5, <4>1, <5>1 DEF CutOff, PagesTyped
        <5> QED
          BY <2>1, <4>2, <4>4, <5>2 DEF Upto, Ids
      <4> QED
        BY <2>1, <3>3, <4>1, <4>2, <4>3, <4>4
    <3> QED
      BY <3>1, <3>2, <3>3
  <2>4. PICK f \in within : oldest = tape[f]
    BY <1>4, <1>5
  <2>5. i < f /\ f \in Ids
    BY <1>2, <1>3, <2>2, <2>3, <2>4
  <2>6. i \in Nat /\ f \in Nat
    BY <1>1, <2>1, <2>5, TapeTimes
  <2>7. tape[i] <= tape[f]
    BY <1>1, <2>1, <2>5, <2>6 DEF PagesTyped
  <2> QED
    BY <2>2, <2>3, <2>4, <2>7
<1>6. PagesTyped'
  <2>1. cuts' \subseteq 0 .. 2 * DaySeconds
    BY <1>1, <1>4 DEF PagesTyped
  <2>2. seenIds' \subseteq Ids
    BY <1>1, <1>2, <1>3 DEF PagesTyped
  <2>3. barren' \in 0 .. 2 /\ (outcome' = "fetching" => barren' < 2)
    BY <1>1 DEF PagesTyped
  <2> QED
    BY <1>1, <2>1, <2>2, <2>3 DEF PagesTyped, Ids
<1>7. WhereItIs'
  BY <1>1 DEF PagesIInv, WhereItIs, SecondOf
<1>8. cuts \subseteq cuts' /\ \A i \in Ids : CutOff(i) => CutOff(i)'
  BY <1>1 DEF CutOff
<1>9. Wanted' = Wanted /\ seenIds \subseteq seenIds'
  BY <1>1 DEF Wanted, InWindow, Ids
<1>10. MissingIsBefore'
  <2> SUFFICES ASSUME outcome' = "fetching", NEW i \in Wanted', i \notin seenIds'
               PROVE (CutOff(i) \/ prevOldest = -1 \/ tape[i] <= prevOldest)'
    BY DEF MissingIsBefore
  <2>0. i \in Wanted /\ i \notin seenIds /\ i \in Ids
    BY <1>9 DEF Wanted, InWindow
  <2>1. CASE CutOff(i)
    BY <1>8, <2>0, <2>1
  <2>2. CASE ~CutOff(i) /\ within # {}
    BY <1>1, <1>5, <2>0, <2>2
  <2>3. CASE ~CutOff(i) /\ within = {}
    <3>1. UNCHANGED <<prevOldest, tape>>
      BY <1>1, <2>3
    <3> QED
      BY <1>1, <2>0, <2>3, <3>1 DEF PagesIInv, MissingIsBefore
  <2> QED
    BY <2>1, <2>2, <2>3
<1>11. OnlyCutsLost'
  <2> SUFFICES ASSUME outcome' = "complete", NEW i \in Wanted', i \notin seenIds'
               PROVE CutOff(i)'
    BY DEF OnlyCutsLost, CutOff, Wanted, Ids
  <2>0. i \in Wanted /\ i \in Ids
    BY <1>9 DEF Wanted, InWindow
  <2>1. within # {} /\ Cardinality(page) < PageLimit
    BY <1>1 DEF ReachedStart
  <2>2. Upto(pageEnd) = page
    <3>1. Cardinality(page) \in Nat
      BY <1>2, FS_CardinalityType
    <3> HIDE DEF page
    <3> QED
      BY <1>2, <2>1, <3>1, PagesAssumption
  <2> QED
    BY <1>5, <1>8, <2>0, <2>1, <2>2
<1> QED
  BY <1>6, <1>7, <1>10, <1>11 DEF PagesIInv

LEMMA PagesNextKeeps == PagesIInv /\ [PagesNext]_pagesVars => PagesIInv'
<1> SUFFICES ASSUME PagesIInv, [PagesNext]_pagesVars PROVE PagesIInv'
  OBVIOUS
<1>1. CASE UNCHANGED pagesVars
  BY <1>1 DEF pagesVars, PagesIInv, PagesTyped, Ids, WhereItIs, MissingIsBefore, Wanted, CutOff,
     InWindow, OnlyCutsLost
<1> QED
  BY <1>1, FailKeeps, ArriveKeeps DEF PagesNext

LEMMA PagesIInvSays == PagesIInv => PagesInv
<1> SUFFICES ASSUME PagesIInv PROVE PagesInv
  OBVIOUS
<1>1. pageEnd \in -1 .. DaySeconds
  <2>1. CASE prevOldest \in cuts /\ pageEnd = SecondOf(prevOldest)
    <3>1. prevOldest \in 0 .. 2 * DaySeconds
      BY <2>1 DEF PagesIInv, PagesTyped
    <3> QED
      BY <2>1, <3>1, Halves, PagesAssumption
  <2>2. CASE pageEnd = DaySeconds
    BY <2>2, PagesAssumption
  <2> QED
    BY <2>1, <2>2 DEF PagesIInv, WhereItIs
<1> QED
  BY <1>1 DEF PagesIInv, PagesTyped, Ids, PagesInv, PagesTypeOK

(***************************************************************************)
(* A day of trades that is called complete lacks nothing if an end covers  *)
(* its whole second, and otherwise only trades of a second at which a page *)
(* was cut: for any tape, page limit and failed requests.                  *)
(***************************************************************************)
THEOREM CompleteDaysLackOnlyCuts == PagesSpec => []PagesInv
<1>1. PagesSpec => []PagesIInv
  BY PagesStart, PagesNextKeeps, PTL DEF PagesSpec
<1> QED
  BY <1>1, PagesIInvSays, PTL

-----------------------------------------------------------------------------
(***************************************************************************)
(* Book: segments, gaps and joins.                                         *)
(***************************************************************************)
States == [at : BookSeconds, segment : Nat]

BookTyped ==
  /\ gaps \subseteq Windows
  /\ clock \in 0 .. LastSecond + 1 /\ segment \in 0 .. clock
  /\ live \in BOOLEAN /\ needsNew \in BOOLEAN
  /\ bookPc \in {"replaying", "done", "raised"}
  /\ bookPc = "replaying" => clock <= LastSecond
  /\ states \in Seq(States)
  /\ \A s \in Yielded : s.at \in DayStart .. LastSecond

\* States lie before the clock, in the segments there have been, and a book
\* that is known needs no new segment.
BookBehind ==
  /\ \A s \in Yielded : s.at < clock /\ s.segment <= segment
  /\ live => ~needsNew

\* The last segment goes on only if no gap has come since its first state.
GoesOn ==
  ~needsNew =>
    \A s \in Yielded : s.segment = segment => ~\E x \in s.at .. clock - 1 : InGap(x)

\* The inductive invariant of the replay.
BookIInv == BookTyped /\ BookBehind /\ GoesOn /\ SegmentsUnbroken

-----------------------------------------------------------------------------
LEMMA BookStart == BookInit => BookIInv
<1> SUFFICES ASSUME BookInit PROVE BookIInv
  OBVIOUS
<1>1. gaps \subseteq Windows
  BY DEF BookInit
<1>2. clock \in 0 .. LastSecond /\ LastSecond \in Nat
  BY BookAssumption DEF BookInit
<1>3. states \in Seq(States) /\ Yielded = {}
  <2>1. states = <<>> /\ states \in Seq(States) /\ DOMAIN states = {}
    BY DEF BookInit
  <2> QED
    BY <2>1 DEF Yielded, ToSet
<1>4. BookTyped
  <2>1. /\ clock \in 0 .. LastSecond + 1 /\ segment \in 0 .. clock /\ clock <= LastSecond
        /\ live \in BOOLEAN /\ needsNew \in BOOLEAN /\ bookPc = "replaying"
    <3>1. segment = 0 /\ live = FALSE /\ needsNew = FALSE /\ bookPc = "replaying"
      BY DEF BookInit
    <3>2. clock \in 0 .. LastSecond + 1 /\ 0 \in 0 .. clock /\ clock <= LastSecond
      BY <1>2
    <3>3. live \in BOOLEAN /\ needsNew \in BOOLEAN
      BY <3>1
    <3> QED
      BY <3>1, <3>2, <3>3
  <2> QED
    BY <1>1, <1>3, <2>1 DEF BookTyped
<1> QED
  BY <1>3, <1>4 DEF BookInit, BookIInv, BookBehind, GoesOn, SegmentsUnbroken

LEMMA YieldedType ==
  ASSUME BookIInv
  PROVE  /\ Yielded \subseteq States
         /\ \A s \in Yielded : /\ s.at \in Nat /\ s.at < clock /\ s.segment \in Nat
                               /\ s.segment <= segment
         /\ clock \in Nat /\ segment \in Nat /\ LastSecond \in Nat /\ DayStart \in Nat
<1>1. \A i \in DOMAIN states : states[i] \in States
  BY DEF BookIInv, BookTyped
<1>2. Yielded \subseteq States
  BY <1>1 DEF Yielded, ToSet
<1>3. \A s \in States : s.at \in Nat /\ s.segment \in Nat
  BY BookAssumption DEF States, BookSeconds
<1> QED
  BY <1>2, <1>3, BookAssumption DEF BookIInv, BookTyped, BookBehind

LEMMA GapKeeps == BookIInv /\ GapSecond => BookIInv'
<1> SUFFICES ASSUME BookIInv, GapSecond PROVE BookIInv'
  OBVIOUS
<1>1. /\ bookPc = "replaying" /\ live' = FALSE /\ needsNew' = TRUE /\ clock' = clock + 1
      /\ bookPc' = IF clock = LastSecond THEN "done" ELSE bookPc
      /\ UNCHANGED <<gaps, segment, states>>
  BY DEF GapSecond, Advance
<1>2. /\ Yielded' = Yielded
      /\ \A x : InGap(x)' <=> InGap(x)
  <2>1. Yielded' = Yielded
    BY <1>1 DEF Yielded
  <2>2. \A x : InGap(x)' <=> InGap(x)
    BY <1>1 DEF InGap
  <2> QED
    BY <2>1, <2>2
<1>3. BookTyped'
  <2>1. /\ clock' \in 0 .. LastSecond + 1 /\ segment' \in 0 .. clock'
        /\ (bookPc' = "replaying" => clock' <= LastSecond)
        /\ bookPc' \in {"replaying", "done", "raised"}
    BY <1>1, YieldedType DEF BookIInv, BookTyped
  <2> QED
    BY <1>1, <1>2, <2>1 DEF BookIInv, BookTyped
<1>4. BookBehind'
  BY <1>1, <1>2, YieldedType DEF BookBehind
<1>5. SegmentsUnbroken'
  BY <1>1, <1>2 DEF BookIInv, SegmentsUnbroken, InGap
<1> QED
  BY <1>1, <1>3, <1>4, <1>5 DEF BookIInv, GoesOn

LEMMA SecondKeeps ==
  ASSUME BookIInv, NEW anchored \in BOOLEAN, BookSecond(anchored)
  PROVE  BookIInv'
<1> DEFINE now == live \/ anchored
           in == IF anchored /\ needsNew THEN segment + 1 ELSE segment
           new == [at |-> clock, segment |-> in]
<1>1. /\ bookPc = "replaying" /\ ~InGap(clock) /\ clock' = clock + 1
      /\ bookPc' = IF clock = LastSecond THEN "done" ELSE bookPc
      /\ live' = now /\ segment' = in /\ needsNew' = (needsNew /\ ~anchored)
      /\ states' = IF clock >= DayStart /\ now THEN Append(states, new) ELSE states
      /\ UNCHANGED gaps
  BY DEF BookSecond, Advance
<1>2. /\ clock \in Nat /\ clock <= LastSecond /\ segment \in Nat /\ segment <= clock
      /\ live \in BOOLEAN /\ needsNew \in BOOLEAN /\ (live => ~needsNew)
      /\ LastSecond \in Nat /\ DayStart \in Nat /\ states \in Seq(States)
  BY <1>1, YieldedType DEF BookIInv, BookTyped, BookBehind
<1>3. in \in Nat /\ in >= segment /\ in <= clock + 1
  BY <1>2
<1>4. new \in States /\ new.at = clock /\ new.segment = in
  BY <1>2, <1>3 DEF States, BookSeconds
<1>5. now /\ in = segment => ~needsNew
  BY <1>2
<1>6. ~needsNew' => now \/ ~needsNew
  BY <1>1
<1>7. in # segment => in = segment + 1 /\ now
  OBVIOUS
<1>8. \A s \in Yielded :
        s.at \in Nat /\ s.at < clock /\ s.segment \in Nat /\ s.segment <= segment
  BY YieldedType
<1> HIDE DEF new, in
<1>9. /\ states' \in Seq(States)
      /\ Yielded' \subseteq Yielded \cup {new}
      /\ ~(clock >= DayStart /\ now) => Yielded' = Yielded
  <2>1. CASE clock >= DayStart /\ now
    <3>1. states' = Append(states, new)
      BY <1>1, <2>1
    <3>2. states' \in Seq(States) /\ Len(states') = Len(states) + 1 /\ Len(states) \in Nat
      BY <1>2, <1>4, <3>1
    <3>3. \A i \in DOMAIN states' : states'[i] = new \/ (i \in DOMAIN states /\ states'[i] = states[i])
      BY <1>2, <1>4, <3>1
    <3> QED
      BY <2>1, <3>2, <3>3 DEF Yielded, ToSet
  <2>2. CASE ~(clock >= DayStart /\ now)
    BY <1>1, <1>2, <2>2 DEF Yielded
  <2> QED
    BY <2>1, <2>2
<1> HIDE DEF now
<1>10. \A x : InGap(x)' <=> InGap(x)
  BY <1>1 DEF InGap
\* A state of the segment that goes on has no gap behind it.
<1>11. ASSUME NEW s \in Yielded, s.segment = in, now \/ ~needsNew', NEW x \in s.at .. clock
       PROVE  ~InGap(x)
  <2>1. in = segment /\ s.segment = segment
    BY <1>2, <1>3, <1>7, <1>8, <1>11
  <2>2. ~needsNew
    BY <1>5, <1>6, <1>11, <2>1
  <2>3. CASE x = clock
    BY <1>1, <2>3
  <2>4. CASE x # clock
    <3>1. x \in s.at .. clock - 1
      BY <1>2, <1>8, <2>4
    <3> QED
      BY <2>1, <2>2, <3>1 DEF BookIInv, GoesOn
  <2> QED
    BY <2>3, <2>4
<1>12. BookTyped'
  <2>1. \A s \in Yielded' : s.at \in DayStart .. LastSecond
    BY <1>2, <1>4, <1>9 DEF BookIInv, BookTyped
  <2>2. live' \in BOOLEAN /\ needsNew' \in BOOLEAN
    BY <1>1 DEF now
  <2>3. clock' \in 0 .. LastSecond + 1 /\ segment' \in 0 .. clock'
    BY <1>1, <1>2, <1>3
  <2>4. bookPc' \in {"replaying", "done", "raised"} /\ (bookPc' = "replaying" => clock' <= LastSecond)
    BY <1>1, <1>2
  <2> QED
    BY <1>1, <1>9, <2>1, <2>2, <2>3, <2>4 DEF BookIInv, BookTyped
<1>13. BookBehind'
  <2>1. \A s \in Yielded' : s.at < clock' /\ s.segment <= segment'
    BY <1>1, <1>2, <1>3, <1>4, <1>8, <1>9
  <2>2. live' => ~needsNew'
    BY <1>1, <1>2 DEF now
  <2> QED
    BY <2>1, <2>2 DEF BookBehind
<1>14. GoesOn'
  <2> SUFFICES ASSUME ~needsNew', NEW s \in Yielded', s.segment = in,
                      NEW x \in s.at .. clock
               PROVE  ~InGap(x)
    <3>1. clock' - 1 = clock
      BY <1>1, <1>2
    <3> QED
      BY <1>1, <1>10, <3>1 DEF GoesOn
  <2>1. CASE s \in Yielded
    BY <1>11, <2>1
  <2>2. CASE s = new
    <3>1. x = clock
      BY <1>2, <1>4, <2>2
    <3> QED
      BY <1>1, <3>1
  <2> QED
    BY <1>9, <2>1, <2>2
<1>15. SegmentsUnbroken'
  <2> SUFFICES ASSUME NEW s \in Yielded', NEW u \in Yielded', s.segment = u.segment,
                      NEW x \in s.at .. u.at
               PROVE  ~InGap(x)
    BY <1>10 DEF SegmentsUnbroken
  <2>1. CASE s \in Yielded /\ u \in Yielded
    BY <2>1 DEF BookIInv, SegmentsUnbroken
  <2>2. CASE u = new /\ s \in Yielded
    <3>1. now
      BY <1>4, <1>8, <1>9, <2>2
    <3> QED
      BY <1>4, <1>11, <2>2, <3>1
  <2>3. CASE s = new /\ u \in Yielded
    BY <1>2, <1>4, <1>8, <2>3
  <2>4. CASE s = new /\ u = new
    <3>1. x = clock
      BY <1>2, <1>4, <2>4
    <3> QED
      BY <1>1, <3>1
  <2> QED
    BY <1>9, <2>1, <2>2, <2>3, <2>4
<1> QED
  BY <1>12, <1>13, <1>14, <1>15 DEF BookIInv

LEMMA BookNextKeeps == BookIInv /\ [BookNext]_bookVars => BookIInv'
<1> SUFFICES ASSUME BookIInv, [BookNext]_bookVars PROVE BookIInv'
  OBVIOUS
<1>1. CASE BookRaises \/ UNCHANGED bookVars
  <2>1. /\ UNCHANGED <<gaps, clock, live, segment, needsNew, states>>
        /\ bookPc' \in {bookPc, "raised"}
    BY <1>1 DEF BookRaises, bookVars
  <2> QED
    BY <2>1 DEF BookIInv, BookTyped, BookBehind, GoesOn, SegmentsUnbroken, Yielded, InGap
<1> QED
  BY <1>1, GapKeeps, SecondKeeps DEF BookNext

\* A state joined to a trade is known before the trade's second begins, so
\* only a gap of that very second lies between them.
LEMMA JoinsAcross == BookIInv => CrossingsAtGapStart
<1> SUFFICES ASSUME BookIInv, NEW t \in TradeTimes, NEW s \in Joins(t), CrossesGap(s, t)
             PROVE  \E w \in AuditedGaps : w[1] = t \div 2
  BY DEF CrossingsAtGapStart
<1>1. s \in Yielded /\ s.at \in Nat /\ s.at + 1 = t \div 2
  BY YieldedType DEF Joins
<1>2. PICK w \in AuditedGaps : s.at < w[2] /\ 2 * w[1] < t
  BY DEF CrossesGap
<1>3. w \in gaps /\ w[1] \in Nat /\ w[2] \in Nat
  BY <1>2, BookAssumption DEF AuditedGaps, BookIInv, BookTyped, Windows, BookSeconds
<1>4. ~InGap(s.at)
  <2>1. s.at \in s.at .. s.at
    BY <1>1
  <2> QED
    BY <1>1, <2>1 DEF BookIInv, SegmentsUnbroken
<1>5. s.at < w[1]
  BY <1>1, <1>2, <1>3, <1>4 DEF InGap
<1>6. t \in Nat
  BY BookAssumption DEF TradeTimes
<1>7. w[1] = t \div 2
  BY <1>1, <1>2, <1>3, <1>5, <1>6
<1> QED
  BY <1>2, <1>7

-----------------------------------------------------------------------------
(***************************************************************************)
(* Book: the audit's seconds, once each.                                   *)
(***************************************************************************)
\* The seconds of an interval, its end excluded.
Spans == {w \in Nat \X Nat : w[1] < w[2]}
Within(x, w) == w[1] <= x /\ x < w[2]
Within1(x, S) == \E w \in S : Within(x, w)

LEMMA SpanEnds ==
  ASSUME NEW w \in Spans
  PROVE  w[1] \in Nat /\ w[2] \in Nat /\ w = <<w[1], w[2]>> /\ w[1] < w[2]
BY DEF Spans

LEMMA SpanOf ==
  ASSUME NEW a \in Nat, NEW b \in Nat, a < b
  PROVE  <<a, b>> \in Spans
BY DEF Spans

LEMMA StartsInOrder ==
  ASSUME NEW S, IsFiniteSet(S), S \subseteq Spans
  PROVE  /\ Cardinality(S) \in Nat
         /\ ByStart(S) \in [1 .. Cardinality(S) -> S]
         /\ \A j, k \in 1 .. Cardinality(S) :
              j < k => /\ ByStart(S)[j] # ByStart(S)[k]
                       /\ ByStart(S)[j][1] <= ByStart(S)[k][1]
         /\ \A w \in S : \E k \in 1 .. Cardinality(S) : ByStart(S)[k] = w
<1> DEFINE before(v, w) == v[1] < w[1] \/ (v[1] = w[1] /\ v[2] < w[2])
           R == {p \in S \X S : before(p[1], p[2])}
           n == Cardinality(S)
<1>1. \A v, w \in S : <<v, w>> \in R <=> before(v, w)
  OBVIOUS
<1>2. \A w \in S : w[1] \in Nat /\ w[2] \in Nat /\ w = <<w[1], w[2]>>
  BY SpanEnds
<1> HIDE DEF R
<1>3. \A v \in S : <<v, v>> \notin R
  BY <1>1, <1>2
<1>4. \A v, w \in S : v # w => <<v, w>> \in R \/ <<w, v>> \in R
  <2> SUFFICES ASSUME NEW v \in S, NEW w \in S, v # w PROVE before(v, w) \/ before(w, v)
    BY <1>1
  <2>1. v[1] # w[1] \/ v[2] # w[2]
    BY <1>2
  <2> QED BY <1>2, <2>1
<1>5. \A u, v, w \in S : <<u, v>> \in R /\ <<v, w>> \in R => <<u, w>> \in R
  BY <1>1, <1>2
<1>6. /\ n \in Nat
      /\ ByRank(S, R) \in [1 .. n -> S]
      /\ \A j, k \in 1 .. n : j < k => <<ByRank(S, R)[j], ByRank(S, R)[k]>> \in R
      /\ \A w \in S : \E k \in 1 .. n : ByRank(S, R)[k] = w
  BY <1>3, <1>4, <1>5, RankedInOrder
<1>7. ByStart(S) = ByRank(S, R)
  <2> DEFINE to(k) == CHOOSE w \in S : Cardinality({v \in S : before(v, w)}) = k - 1
             one(k) == CHOOSE w \in S : Cardinality({v \in S : <<v, w>> \in R}) = k - 1
  <2>1. \A w \in S : {v \in S : <<v, w>> \in R} = {v \in S : before(v, w)}
    BY <1>1
  <2>2. \A k \in 1 .. n : one(k) = to(k)
    <3> HIDE DEF before
    <3> QED BY <2>1
  <2>3. ByRank(S, R) = [k \in 1 .. n |-> one(k)]
    BY DEF ByRank
  <2>4. ByStart(S) = [k \in 1 .. n |-> to(k)]
    BY DEF ByStart
  <2> HIDE DEF to, one, n
  <2> QED BY <2>2, <2>3, <2>4
<1> DEFINE at == ByRank(S, R)
<1> HIDE DEF at, n
<1>8. n \in Nat /\ at \in [1 .. n -> S] /\ \A w \in S : \E k \in 1 .. n : at[k] = w
  BY <1>6 DEF at
<1>9. \A j, k \in 1 .. n : j < k => at[j] # at[k] /\ at[j][1] <= at[k][1]
  <2> SUFFICES ASSUME NEW j \in 1 .. n, NEW k \in 1 .. n, j < k
               PROVE  at[j] # at[k] /\ at[j][1] <= at[k][1]
    OBVIOUS
  <2>1. at[j] \in S /\ at[k] \in S /\ <<at[j], at[k]>> \in R
    BY <1>6, <1>8 DEF at
  <2>2. before(at[j], at[k])
    BY <1>1, <2>1
  <2>3. at[j] # at[k]
    BY <1>3, <2>1
  <2> QED BY <1>2, <2>1, <2>2, <2>3
<1> QED BY <1>7, <1>8, <1>9 DEF at, n

-----------------------------------------------------------------------------
\* What the loop of _union does with one interval.
LEMMA Merging ==
  ASSUME NEW m \in Seq(Spans), NEW w \in Spans
  PROVE  LET r == MergeIn(m, w)
             n == Len(m)
         IN  /\ r \in Seq(Spans)
             /\ IF n # 0 /\ w[1] <= m[n][2]
                THEN /\ Len(r) = n
                     /\ \A k \in 1 .. n : k # n => r[k] = m[k]
                     /\ r[n][1] = m[n][1] /\ r[n][2] = Later(m[n][2], w[2])
                ELSE /\ Len(r) = n + 1
                     /\ \A k \in 1 .. n : r[k] = m[k]
                     /\ r[n + 1] = w
<1> DEFINE r == MergeIn(m, w)
           n == Len(m)
<1>1. n \in Nat /\ m \in [1 .. n -> Spans] /\ (m # <<>> <=> n # 0)
  OBVIOUS
<1>2. CASE n # 0 /\ w[1] <= m[n][2]
  <2> DEFINE last == <<m[n][1], Later(m[n][2], w[2])>>
  <2>1. m[n] \in Spans
    BY <1>1, <1>2
  <2>2. last \in Spans
    BY <2>1, SpanEnds, SpanOf DEF Later
  <2>3. r = [m EXCEPT ![n] = last]
    BY <1>1, <1>2 DEF MergeIn
  <2>4. last[1] = m[n][1] /\ last[2] = Later(m[n][2], w[2])
    OBVIOUS
  <2> HIDE DEF last, r, n
  <2>5. r \in [1 .. n -> Spans] /\ r[n] = last /\ \A k \in 1 .. n : k # n => r[k] = m[k]
    BY <1>1, <1>2, <2>2, <2>3
  <2>6. r \in Seq(Spans) /\ Len(r) = n
    BY <1>1, <2>5
  <2> QED BY <1>2, <2>4, <2>5, <2>6 DEF r, n
<1>3. CASE ~(n # 0 /\ w[1] <= m[n][2])
  <2>1. r = Append(m, w)
    BY <1>1, <1>3 DEF MergeIn
  <2> HIDE DEF r
  <2>2. /\ r \in Seq(Spans) /\ Len(r) = n + 1 /\ r[n + 1] = w
        /\ \A k \in 1 .. n : r[k] = m[k]
    BY <2>1
  <2> QED BY <1>3, <2>2 DEF r
<1> QED BY <1>2, <1>3

LEMMA UnionRuns ==
  ASSUME NEW S, IsFiniteSet(S), S \subseteq Spans
  PROVE  \E f : /\ f \in [0 .. Cardinality(S) -> Seq(Spans)] /\ f[0] = <<>>
                /\ \A k \in 1 .. Cardinality(S) : f[k] = MergeIn(f[k - 1], ByStart(S)[k])
                /\ Union(S) = f[Cardinality(S)]
<1> DEFINE n == Cardinality(S)
           list == ByStart(S)
           V == Seq(Spans)
           next(k, m) == MergeIn(m, list[k])
           step == [x \in (1 .. n) \X V |-> next(x[1], x[2])]
           loop(f) == [k \in 0 .. n |-> IF k = 0 THEN <<>> ELSE next(k, f[k - 1])]
           f == CHOOSE f : f = loop(f)
<1>1. n \in Nat /\ list \in [1 .. n -> S]
  BY StartsInOrder
<1>2. Union(S) = f[n]
  BY DEF Union
<1> HIDE DEF n, list
<1>3. \A k \in 1 .. n, m \in V : next(k, m) \in V
  <2>1. \A k \in 1 .. n : list[k] \in Spans
    BY <1>1
  <2> QED BY <2>1, Merging
<1>4. step \in [(1 .. n) \X V -> V] /\ \A k \in 1 .. n, m \in V : step[<<k, m>>] = next(k, m)
  <2> HIDE DEF next, V
  <2> QED BY <1>3
<1>5. <<>> \in V
  OBVIOUS
<1> HIDE DEF step, V
<1>6. PICK g : Loops(g, n, V, <<>>, step)
  <2>1. n \in Nat /\ \A k \in 1 .. n, m \in V : step[<<k, m>>] \in V
    BY <1>1, <1>4
  <2> QED BY <1>5, <2>1, LoopRuns
<1>7. g \in [0 .. n -> V] /\ g[0] = <<>> /\ \A k \in 1 .. n : g[k] = step[<<k, g[k - 1]>>]
  BY <1>6 DEF Loops
<1>8. \A k \in 0 .. n : k # 0 => k \in 1 .. n /\ k - 1 \in 0 .. n
  BY <1>1
<1> HIDE DEF next
<1>9. \A k \in 0 .. n : g[k] = IF k = 0 THEN <<>> ELSE next(k, g[k - 1])
  BY <1>4, <1>7, <1>8
<1>10. g = loop(g)
  BY <1>7, <1>9
<1>11. f = loop(f)
  <2> HIDE DEF loop
  <2> QED BY <1>10
<1> HIDE DEF f
<1>12. DOMAIN f = 0 .. n /\ \A k \in 0 .. n : f[k] = IF k = 0 THEN <<>> ELSE next(k, f[k - 1])
  BY <1>11
<1> HIDE DEF loop
<1> DEFINE fine == {k \in 0 .. n : f[k] \in V}
<1>13. \A k \in 0 .. n : k \in fine
  <2>1. 0 \in fine
    BY <1>1, <1>5, <1>12
  <2>2. ASSUME NEW k \in 1 .. n, k - 1 \in fine PROVE k \in fine
    <3>1. f[k - 1] \in V /\ k \in 0 .. n /\ k # 0
      BY <2>2, <1>1
    <3>2. f[k] = next(k, f[k - 1])
      BY <3>1, <1>12
    <3>3. f[k] \in V
      BY <3>1, <3>2, <1>3
    <3> QED BY <3>1, <3>3
  <2> HIDE DEF fine
  <2> QED BY <1>1, <2>1, <2>2, AllReached
<1>14. f \in [0 .. n -> V] /\ f[0] = <<>> /\ \A k \in 1 .. n : f[k] = next(k, f[k - 1])
  <2>1. \A k \in 0 .. n : f[k] \in V
    BY <1>13
  <2>2. \A k \in 1 .. n : k \in 0 .. n /\ k # 0
    BY <1>1
  <2>3. 0 \in 0 .. n
    BY <1>1
  <2>4. f = [k \in 0 .. n |-> f[k]]
    BY <1>11, <1>12 DEF loop
  <2>5. f \in [0 .. n -> V]
    BY <2>1, <2>4
  <2> QED BY <1>12, <2>2, <2>3, <2>5
<1>15. /\ f \in [0 .. Cardinality(S) -> Seq(Spans)] /\ f[0] = <<>>
       /\ \A k \in 1 .. Cardinality(S) : f[k] = MergeIn(f[k - 1], ByStart(S)[k])
       /\ Union(S) = f[Cardinality(S)]
  BY <1>2, <1>14 DEF next, list, n, V
<1> QED BY <1>15

\* What the loop has after i of the sorted intervals: the same seconds, in
\* intervals that do not touch, the last of which begins no later than any to come.
UnionSoFar(list, i, m) ==
  /\ i # 0 => Len(m) # 0 /\ m[Len(m)][1] <= list[i][1]
  /\ \A j, k \in 1 .. Len(m) : j < k => m[j][2] < m[k][1]
  /\ \A x \in Nat : (\E k \in 1 .. Len(m) : Within(x, m[k]))
                      <=> \E k \in 1 .. i : Within(x, list[k])

LEMMA UnionGrows ==
  ASSUME NEW n \in Nat, NEW list \in [1 .. n -> Spans], NEW i \in 1 .. n,
         i # 1 => list[i - 1][1] <= list[i][1],
         NEW m \in Seq(Spans), UnionSoFar(list, i - 1, m),
         i = 1 => Len(m) = 0
  PROVE  UnionSoFar(list, i, MergeIn(m, list[i]))
<1> DEFINE w == list[i]
           r == MergeIn(m, w)
           p == Len(m)
<1>1. w \in Spans /\ w[1] \in Nat /\ w[2] \in Nat /\ w[1] < w[2]
  BY SpanEnds
<1>2. p \in Nat /\ \A k \in 1 .. p : m[k][1] \in Nat /\ m[k][2] \in Nat /\ m[k][1] < m[k][2]
  <2>1. p \in Nat /\ \A k \in 1 .. p : m[k] \in Spans
    OBVIOUS
  <2> QED BY <2>1, SpanEnds
<1>3. \A j, k \in 1 .. p : j < k => m[j][2] < m[k][1]
  BY DEF UnionSoFar
<1>4. p # 0 => m[p][1] <= w[1]
  <2>1. i # 1 => i - 1 # 0 /\ i - 1 \in 1 .. n
    OBVIOUS
  <2>2. i # 1 => p # 0 /\ m[p][1] <= list[i - 1][1] /\ list[i - 1][1] \in Nat
    BY <2>1, SpanEnds DEF UnionSoFar
  <2>3. i # 1 => list[i - 1][1] <= w[1]
    OBVIOUS
  <2>4. p # 0 => p \in 1 .. p
    BY <1>2
  <2> HIDE DEF w, p
  <2> QED BY <1>1, <1>2, <2>2, <2>3, <2>4 DEF p
<1>5. \A x : (\E k \in 1 .. i : Within(x, list[k]))
               <=> (\E k \in 1 .. i - 1 : Within(x, list[k])) \/ Within(x, w)
  <2>1. \A k : k \in 1 .. i <=> k \in 1 .. i - 1 \/ k = i
    OBVIOUS
  <2> QED BY <2>1
<1>6. ASSUME NEW x \in Nat
      PROVE  (\E k \in 1 .. p : Within(x, m[k])) <=> \E k \in 1 .. i - 1 : Within(x, list[k])
  BY DEF UnionSoFar
<1>7. CASE p # 0 /\ w[1] <= m[p][2]
  <2>1. /\ Len(r) = p /\ \A k \in 1 .. p : k # p => r[k] = m[k]
        /\ r[p][1] = m[p][1] /\ r[p][2] = Later(m[p][2], w[2])
    BY <1>1, <1>7, Merging
  <2> HIDE DEF r, w, p
  <2>2. p \in 1 .. p
    BY <1>2, <1>7
  <2>3. r[p][1] <= w[1]
    BY <1>4, <1>7, <2>1
  <2>4. ASSUME NEW j \in 1 .. p, NEW k \in 1 .. p, j < k PROVE r[j][2] < r[k][1]
    <3>1. j # p /\ r[j] = m[j] /\ m[j][2] < m[k][1]
      BY <1>2, <1>3, <2>1, <2>4
    <3>2. r[k][1] = m[k][1]
      BY <2>1
    <3> QED BY <3>1, <3>2
  <2>5. ASSUME NEW x \in Nat
        PROVE  (\E k \in 1 .. p : Within(x, r[k]))
                 <=> (\E k \in 1 .. p : Within(x, m[k])) \/ Within(x, w)
    <3>1. Within(x, r[p]) <=> Within(x, m[p]) \/ Within(x, w)
      BY <1>1, <1>2, <1>4, <1>7, <2>1, <2>2 DEF Within, Later
    <3>2. \A k \in 1 .. p : k # p => (Within(x, r[k]) <=> Within(x, m[k]))
      BY <2>1
    <3> QED BY <2>2, <3>1, <3>2
  <2>6. \A x \in Nat : (\E k \in 1 .. p : Within(x, r[k])) <=> \E k \in 1 .. i : Within(x, list[k])
    BY <1>5, <1>6, <2>5
  <2>7. Len(r) # 0 /\ r[Len(r)][1] <= list[i][1]
    BY <1>7, <2>1, <2>3 DEF w
  <2>8. UnionSoFar(list, i, r)
    BY <2>1, <2>4, <2>6, <2>7 DEF UnionSoFar
  <2> QED BY <2>8 DEF r, w
<1>8. CASE ~(p # 0 /\ w[1] <= m[p][2])
  <2>1. /\ Len(r) = p + 1 /\ \A k \in 1 .. p : r[k] = m[k]
        /\ r[p + 1] = w
    BY <1>1, <1>8, Merging
  <2> HIDE DEF r, w, p
  <2>2. \A k \in 1 .. p + 1 : k \in 1 .. p \/ k = p + 1
    BY <1>2
  <2>3. ASSUME NEW j \in 1 .. p + 1, NEW k \in 1 .. p + 1, j < k PROVE r[j][2] < r[k][1]
    <3>1. j \in 1 .. p
      BY <1>2, <2>3
    <3>2. CASE k \in 1 .. p
      BY <1>3, <2>1, <2>3, <3>1, <3>2
    <3>3. CASE k = p + 1
      <4>1. p # 0 /\ p \in 1 .. p /\ m[p][2] < w[1]
        BY <1>1, <1>2, <1>8, <3>1
      <4>2. m[j][2] < w[1]
        <5>1. CASE j = p BY <4>1, <5>1
        <5>2. CASE j # p
          <6>1. m[j][2] < m[p][1] BY <1>3, <3>1, <4>1, <5>2
          <6> QED BY <1>1, <1>2, <3>1, <4>1, <6>1
        <5> QED BY <5>1, <5>2
      <4> QED BY <2>1, <3>1, <3>3, <4>2
    <3> QED BY <2>2, <3>2, <3>3
  <2>4. ASSUME NEW x \in Nat
        PROVE  (\E k \in 1 .. p + 1 : Within(x, r[k]))
                 <=> (\E k \in 1 .. p : Within(x, m[k])) \/ Within(x, w)
    <3>1. p + 1 \in 1 .. p + 1 /\ \A k \in 1 .. p : k \in 1 .. p + 1
      BY <1>2
    <3> QED BY <2>1, <2>2, <3>1
  <2>5. \A x \in Nat : (\E k \in 1 .. p + 1 : Within(x, r[k]))
                         <=> \E k \in 1 .. i : Within(x, list[k])
    BY <1>5, <1>6, <2>4
  <2>6. Len(r) # 0 /\ r[Len(r)][1] <= list[i][1]
    BY <1>1, <1>2, <2>1 DEF w
  <2>7. UnionSoFar(list, i, r)
    BY <2>1, <2>3, <2>5, <2>6 DEF UnionSoFar
  <2> QED BY <2>7 DEF r, w
<1> QED BY <1>7, <1>8

\* Intervals of which no two share a second.
Apart(S) == \A v, w \in S : v # w => v[2] <= w[1] \/ w[2] <= v[1]
ApartSpans == {S \in SUBSET Spans : IsFiniteSet(S) /\ Apart(S)}

\* _union: sorted intervals that do not touch, with the same seconds.
LEMMA UnionOf ==
  ASSUME NEW S, IsFiniteSet(S), S \subseteq Spans
  PROVE  /\ Union(S) \in Seq(Spans)
         /\ \A j, k \in 1 .. Len(Union(S)) : j < k => Union(S)[j][2] < Union(S)[k][1]
         /\ \A x \in Nat : (\E k \in 1 .. Len(Union(S)) : Within(x, Union(S)[k]))
                             <=> Within1(x, S)
<1> DEFINE n == Cardinality(S)
           list == ByStart(S)
<1>1. /\ n \in Nat /\ list \in [1 .. n -> S]
      /\ \A j, k \in 1 .. n : j < k => list[j][1] <= list[k][1]
      /\ \A w \in S : \E k \in 1 .. n : list[k] = w
  BY StartsInOrder
<1>2. PICK f : /\ f \in [0 .. n -> Seq(Spans)] /\ f[0] = <<>>
               /\ \A k \in 1 .. n : f[k] = MergeIn(f[k - 1], list[k])
               /\ Union(S) = f[n]
  BY UnionRuns
<1> HIDE DEF n, list
<1>3. list \in [1 .. n -> Spans]
  BY <1>1
<1> DEFINE good == {k \in 0 .. n : UnionSoFar(list, k, f[k])}
<1>4. 0 \in good
  <2>1. Len(f[0]) = 0
    BY <1>2
  <2>2. UnionSoFar(list, 0, f[0])
    BY <2>1 DEF UnionSoFar
  <2> QED BY <1>1, <2>2
<1>5. ASSUME NEW k \in 1 .. n, k - 1 \in good PROVE k \in good
  <2>1. k - 1 \in 0 .. n /\ k \in 0 .. n /\ UnionSoFar(list, k - 1, f[k - 1])
    BY <1>1, <1>5
  <2>2. f[k - 1] \in Seq(Spans) /\ f[k] = MergeIn(f[k - 1], list[k])
    BY <1>2, <2>1
  <2>3. k # 1 => list[k - 1][1] <= list[k][1]
    <3>1. k # 1 => k - 1 \in 1 .. n /\ k - 1 < k
      BY <1>1
    <3> QED BY <1>1, <3>1
  <2>4. k = 1 => Len(f[k - 1]) = 0
    BY <1>2
  <2>5. UnionSoFar(list, k, MergeIn(f[k - 1], list[k]))
    BY <1>1, <1>3, <2>1, <2>2, <2>3, <2>4, UnionGrows
  <2> QED BY <2>1, <2>2, <2>5
<1>6. UnionSoFar(list, n, f[n]) /\ f[n] \in Seq(Spans)
  <2>1. n \in 0 .. n
    BY <1>1
  <2>2. n \in good
    <3> HIDE DEF good
    <3> QED BY <1>1, <1>4, <1>5, <2>1, AllReached
  <2> QED BY <1>2, <2>1, <2>2
<1>7. ASSUME NEW x \in Nat
      PROVE  (\E k \in 1 .. n : Within(x, list[k])) <=> Within1(x, S)
  BY <1>1 DEF Within1
<1> QED BY <1>2, <1>6, <1>7 DEF UnionSoFar

LEMMA UnionApart ==
  ASSUME NEW S, IsFiniteSet(S), S \subseteq Spans
  PROVE  /\ ToSet(Union(S)) \in ApartSpans
         /\ \A x \in Nat : Within1(x, ToSet(Union(S))) <=> Within1(x, S)
<1> DEFINE u == Union(S)
           n == Len(u)
<1>1. /\ u \in Seq(Spans) /\ n \in Nat /\ DOMAIN u = 1 .. n
      /\ \A j, k \in 1 .. n : j < k => u[j][2] < u[k][1]
      /\ \A x \in Nat : (\E k \in 1 .. n : Within(x, u[k])) <=> Within1(x, S)
  BY UnionOf
<1> HIDE DEF u
<1>2. ToSet(u) = {u[k] : k \in 1 .. n}
  BY <1>1 DEF ToSet
<1>3. \A k \in 1 .. n : u[k] \in Spans
  BY <1>1
<1>4. IsFiniteSet(ToSet(u))
  <2> DEFINE g == [k \in 1 .. n |-> u[k]]
  <2>1. g \in Surjection(1 .. n, ToSet(u))
    BY <1>2 DEF Surjection
  <2>2. IsFiniteSet(1 .. n)
    BY <1>1, FS_Interval
  <2> QED BY <2>1, <2>2, FS_Surjection
<1>5. Apart(ToSet(u))
  <2> SUFFICES ASSUME NEW j \in 1 .. n, NEW k \in 1 .. n, u[j] # u[k]
               PROVE  u[j][2] <= u[k][1] \/ u[k][2] <= u[j][1]
    BY <1>2 DEF Apart
  <2>1. u[j] \in Spans /\ u[k] \in Spans
    BY <1>3
  <2>2. j < k \/ k < j
    BY <1>1
  <2>3. u[j][2] < u[k][1] \/ u[k][2] < u[j][1]
    BY <1>1, <2>2
  <2> QED BY <2>1, <2>3, SpanEnds
<1>6. ASSUME NEW x \in Nat PROVE Within1(x, ToSet(u)) <=> Within1(x, S)
  <2>1. Within1(x, ToSet(u)) <=> \E k \in 1 .. n : Within(x, u[k])
    BY <1>2 DEF Within1
  <2> QED BY <1>1, <2>1
<1> QED BY <1>2, <1>3, <1>4, <1>5, <1>6 DEF u, ApartSpans

-----------------------------------------------------------------------------
\* _subtract, one cut: its seconds are gone, and only those.
LEMMA CutOutOf ==
  ASSUME NEW base \in ApartSpans, NEW cut \in Spans
  PROVE  /\ CutOut(base, cut) \in ApartSpans
         /\ \A x \in Nat : Within1(x, CutOut(base, cut))
                             <=> Within1(x, base) /\ ~Within(x, cut)
<1> DEFINE before(w) == <<w[1], Sooner(w[2], cut[1])>>
           after(w) == <<Later(w[1], cut[2]), w[2]>>
           rest == CutOut(base, cut)
<1>1. \A p : p \in rest <=> p[1] < p[2] /\ \E w \in base : p = before(w) \/ p = after(w)
  BY DEF CutOut
<1>2. cut[1] \in Nat /\ cut[2] \in Nat /\ cut[1] < cut[2]
  BY SpanEnds
<1>3. \A w \in base : w \in Spans /\ w[1] \in Nat /\ w[2] \in Nat /\ w[1] < w[2]
  BY SpanEnds DEF ApartSpans
<1>4. \A w \in base : /\ before(w)[1] = w[1] /\ before(w)[2] \in Nat
                      /\ before(w)[2] <= w[2] /\ before(w)[2] <= cut[1]
                      /\ after(w)[1] \in Nat /\ after(w)[2] = w[2]
                      /\ w[1] <= after(w)[1] /\ cut[2] <= after(w)[1]
  BY <1>2, <1>3 DEF Sooner, Later
<1>5. rest \subseteq Spans
  <2> SUFFICES ASSUME NEW p \in rest PROVE p \in Spans
    OBVIOUS
  <2>1. PICK w \in base : p = before(w) \/ p = after(w)
    BY <1>1
  <2>2. p[1] < p[2]
    BY <1>1
  <2>3. CASE p = before(w)
    <3>1. w[1] \in Nat /\ Sooner(w[2], cut[1]) \in Nat /\ w[1] < Sooner(w[2], cut[1])
      BY <1>3, <1>4, <2>2, <2>3
    <3> QED BY <2>3, <3>1, SpanOf
  <2>4. CASE p = after(w)
    <3>1. w[2] \in Nat /\ Later(w[1], cut[2]) \in Nat /\ Later(w[1], cut[2]) < w[2]
      BY <1>3, <1>4, <2>2, <2>4
    <3> QED BY <2>4, <3>1, SpanOf
  <2> QED BY <2>1, <2>3, <2>4
<1>6. IsFiniteSet(rest)
  <2> DEFINE A == {before(w) : w \in base}
             B == {after(w) : w \in base}
             f == [w \in base |-> before(w)]
             g == [w \in base |-> after(w)]
  <2>1. IsFiniteSet(base)
    BY DEF ApartSpans
  <2>2. f \in Surjection(base, A) /\ g \in Surjection(base, B)
    <3> HIDE DEF before, after
    <3> QED BY DEF Surjection
  <2>3. IsFiniteSet(A) /\ IsFiniteSet(B)
    <3> HIDE DEF A, B, f, g
    <3> QED BY <2>1, <2>2, FS_Surjection
  <2>4. IsFiniteSet(A \cup B)
    BY <2>3, FS_Union
  <2>5. rest \in SUBSET (A \cup B)
    BY DEF CutOut
  <2> QED BY <2>4, <2>5, FS_Subset
<1>7. Apart(rest)
  <2> SUFFICES ASSUME NEW p \in rest, NEW q \in rest, p # q
               PROVE  p[2] <= q[1] \/ q[2] <= p[1]
    BY DEF Apart
  <2>1. PICK v \in base : p = before(v) \/ p = after(v)
    BY <1>1
  <2>2. PICK w \in base : q = before(w) \/ q = after(w)
    BY <1>1
  <2>3. p[1] >= v[1] /\ p[2] <= v[2] /\ p[1] \in Nat /\ p[2] \in Nat
    BY <1>3, <1>4, <2>1
  <2>4. q[1] >= w[1] /\ q[2] <= w[2] /\ q[1] \in Nat /\ q[2] \in Nat
    BY <1>3, <1>4, <2>2
  <2>5. CASE v = w
    <3>1. (p = before(v) /\ q = after(v)) \/ (p = after(v) /\ q = before(v))
      BY <2>1, <2>2, <2>5
    <3> QED BY <1>2, <1>4, <3>1
  <2>6. CASE v # w
    <3>1. v[2] <= w[1] \/ w[2] <= v[1]
      BY <2>6 DEF ApartSpans, Apart
    <3> QED BY <1>3, <2>3, <2>4, <3>1
  <2> QED BY <2>5, <2>6
<1>8. ASSUME NEW x \in Nat
      PROVE  Within1(x, rest) <=> Within1(x, base) /\ ~Within(x, cut)
  <2>1. ASSUME NEW p \in rest, Within(x, p)
        PROVE  (\E w \in base : Within(x, w)) /\ ~Within(x, cut)
    <3>1. PICK w \in base : p = before(w) \/ p = after(w)
      BY <1>1
    <3> QED BY <1>2, <1>3, <1>4, <2>1, <3>1 DEF Within
  <2>2. ASSUME NEW w \in base, Within(x, w), ~Within(x, cut)
        PROVE  \E p \in rest : Within(x, p)
    <3>1. CASE x < cut[1]
      <4>1. Within(x, before(w)) /\ before(w)[1] < before(w)[2]
        BY <1>2, <1>3, <2>2, <3>1 DEF Within, Sooner
      <4> QED BY <1>1, <4>1
    <3>2. CASE cut[2] <= x
      <4>1. Within(x, after(w)) /\ after(w)[1] < after(w)[2]
        BY <1>2, <1>3, <2>2, <3>2 DEF Within, Later
      <4> QED BY <1>1, <4>1
    <3> QED BY <1>2, <2>2, <3>1, <3>2 DEF Within
  <2> HIDE DEF rest
  <2> QED BY <2>1, <2>2 DEF Within1
<1> QED BY <1>5, <1>6, <1>7, <1>8 DEF ApartSpans

LEMMA SubtractRuns ==
  ASSUME NEW base \in ApartSpans, NEW list \in Seq(Spans), NEW taken, Union(taken) = list
  PROVE  \E f : /\ f \in [0 .. Len(list) -> ApartSpans] /\ f[0] = base
                /\ \A k \in 1 .. Len(list) : f[k] = CutOut(f[k - 1], list[k])
                /\ Subtract(base, taken) = f[Len(list)]
<1> DEFINE n == Len(list)
           V == ApartSpans
           next(k, m) == CutOut(m, list[k])
           step == [x \in (1 .. n) \X V |-> next(x[1], x[2])]
           loop(f) == [k \in 0 .. n |-> IF k = 0 THEN base ELSE next(k, f[k - 1])]
           f == CHOOSE f : f = loop(f)
<1>1. n \in Nat /\ \A k \in 1 .. n : list[k] \in Spans
  OBVIOUS
<1>2. Subtract(base, taken) = f[n]
  BY DEF Subtract
<1> HIDE DEF n
<1>3. \A k \in 1 .. n, m \in V : next(k, m) \in V
  BY <1>1, CutOutOf
<1>4. step \in [(1 .. n) \X V -> V] /\ \A k \in 1 .. n, m \in V : step[<<k, m>>] = next(k, m)
  <2> HIDE DEF next, V
  <2> QED BY <1>3
<1>5. base \in V
  OBVIOUS
<1> HIDE DEF step, V
<1>6. PICK g : Loops(g, n, V, base, step)
  <2>1. n \in Nat /\ \A k \in 1 .. n, m \in V : step[<<k, m>>] \in V
    BY <1>1, <1>4
  <2> QED BY <1>5, <2>1, LoopRuns
<1>7. g \in [0 .. n -> V] /\ g[0] = base /\ \A k \in 1 .. n : g[k] = step[<<k, g[k - 1]>>]
  BY <1>6 DEF Loops
<1>8. \A k \in 0 .. n : k # 0 => k \in 1 .. n /\ k - 1 \in 0 .. n
  BY <1>1
<1> HIDE DEF next
<1>9. \A k \in 0 .. n : g[k] = IF k = 0 THEN base ELSE next(k, g[k - 1])
  BY <1>4, <1>7, <1>8
<1>10. g = loop(g)
  BY <1>7, <1>9
<1>11. f = loop(f)
  <2> HIDE DEF loop
  <2> QED BY <1>10
<1> HIDE DEF f
<1>12. DOMAIN f = 0 .. n /\ \A k \in 0 .. n : f[k] = IF k = 0 THEN base ELSE next(k, f[k - 1])
  BY <1>11
<1> HIDE DEF loop
<1> DEFINE fine == {k \in 0 .. n : f[k] \in V}
<1>13. \A k \in 0 .. n : k \in fine
  <2>1. 0 \in fine
    BY <1>1, <1>5, <1>12
  <2>2. ASSUME NEW k \in 1 .. n, k - 1 \in fine PROVE k \in fine
    <3>1. f[k - 1] \in V /\ k \in 0 .. n /\ k # 0
      BY <2>2, <1>1
    <3>2. f[k] = next(k, f[k - 1])
      BY <3>1, <1>12
    <3>3. f[k] \in V
      BY <3>1, <3>2, <1>3
    <3> QED BY <3>1, <3>3
  <2> HIDE DEF fine
  <2> QED BY <1>1, <2>1, <2>2, AllReached
<1>14. f \in [0 .. n -> V] /\ f[0] = base /\ \A k \in 1 .. n : f[k] = next(k, f[k - 1])
  <2>1. \A k \in 0 .. n : f[k] \in V
    BY <1>13
  <2>2. \A k \in 1 .. n : k \in 0 .. n /\ k # 0
    BY <1>1
  <2>3. 0 \in 0 .. n
    BY <1>1
  <2>4. f = [k \in 0 .. n |-> f[k]]
    BY <1>11, <1>12 DEF loop
  <2>5. f \in [0 .. n -> V]
    BY <2>1, <2>4
  <2> QED BY <1>12, <2>2, <2>3, <2>5
<1>15. /\ f \in [0 .. Len(list) -> ApartSpans] /\ f[0] = base
       /\ \A k \in 1 .. Len(list) : f[k] = CutOut(f[k - 1], list[k])
       /\ Subtract(base, taken) = f[Len(list)]
  BY <1>2, <1>14 DEF next, n, V
<1> QED BY <1>15

\* _subtract: the seconds of base that are in no cut, in intervals apart.
LEMMA SubtractOf ==
  ASSUME NEW base \in ApartSpans, NEW taken, IsFiniteSet(taken), taken \subseteq Spans
  PROVE  /\ Subtract(base, taken) \in ApartSpans
         /\ \A x \in Nat : Within1(x, Subtract(base, taken))
                             <=> Within1(x, base) /\ ~Within1(x, taken)
<1> DEFINE list == Union(taken)
           n == Len(list)
<1>1. /\ list \in Seq(Spans)
      /\ \A x \in Nat : (\E k \in 1 .. n : Within(x, list[k])) <=> Within1(x, taken)
  BY UnionOf
<1>2. n \in Nat /\ \A k \in 1 .. n : list[k] \in Spans
  <2> HIDE DEF list
  <2> QED BY <1>1
<1>3. PICK f : /\ f \in [0 .. n -> ApartSpans] /\ f[0] = base
               /\ \A k \in 1 .. n : f[k] = CutOut(f[k - 1], list[k])
               /\ Subtract(base, taken) = f[n]
  BY <1>1, SubtractRuns
<1> HIDE DEF list, n
<1> DEFINE left(x, k) == Within1(x, base) /\ ~\E j \in 1 .. k : Within(x, list[j])
           good == {k \in 0 .. n : \A x \in Nat : Within1(x, f[k]) <=> left(x, k)}
<1>4. 0 \in good
  BY <1>2, <1>3
<1>5. ASSUME NEW k \in 1 .. n, k - 1 \in good PROVE k \in good
  <2>1. k \in 0 .. n /\ k - 1 \in 0 .. n /\ \A x \in Nat : Within1(x, f[k - 1]) <=> left(x, k - 1)
    BY <1>2, <1>5
  <2>2. f[k - 1] \in ApartSpans /\ list[k] \in Spans /\ f[k] = CutOut(f[k - 1], list[k])
    BY <1>2, <1>3, <2>1
  <2>3. \A x \in Nat : Within1(x, f[k]) <=> Within1(x, f[k - 1]) /\ ~Within(x, list[k])
    BY <2>2, CutOutOf
  <2>4. \A j : j \in 1 .. k <=> j \in 1 .. k - 1 \/ j = k
    OBVIOUS
  <2>5. \A x : left(x, k) <=> left(x, k - 1) /\ ~Within(x, list[k])
    BY <2>4
  <2> HIDE DEF left
  <2> QED BY <2>1, <2>3, <2>5
<1>6. n \in good
  <2>1. n \in 0 .. n
    BY <1>2
  <2> HIDE DEF good
  <2> QED BY <1>2, <1>4, <1>5, <2>1, AllReached
<1> QED BY <1>1, <1>2, <1>3, <1>6 DEF n

-----------------------------------------------------------------------------
SecondsOf(S) == {x \in Nat : Within1(x, S)}
SpanSeconds(w) == w[1] .. w[2] - 1

LEMMA OneSpan ==
  ASSUME NEW w \in Spans
  PROVE  /\ IsFiniteSet(SpanSeconds(w)) /\ Cardinality(SpanSeconds(w)) = w[2] - w[1]
         /\ \A x \in Nat : x \in SpanSeconds(w) <=> Within(x, w)
         /\ SpanSeconds(w) \subseteq Nat
<1>1. w[1] \in Nat /\ w[2] \in Nat /\ w[1] < w[2]
  BY SpanEnds
<1> DEFINE a == w[1]
           b == w[2] - 1
<1>2. a \in Int /\ b \in Int /\ ~(a > b) /\ b - a + 1 = w[2] - w[1]
  BY <1>1
<1>3. IsFiniteSet(a .. b) /\ Cardinality(a .. b) = b - a + 1
  <2> HIDE DEF a, b
  <2> QED BY <1>2, FS_Interval
<1> QED BY <1>1, <1>2, <1>3 DEF SpanSeconds, Within

\* _seconds: of intervals apart it counts each second once.
LEMMA SecondsInOf ==
  ASSUME NEW S \in ApartSpans
  PROVE  IsFiniteSet(SecondsOf(S)) /\ SecondsIn(S) = Cardinality(SecondsOf(S))
<1> DEFINE n == Cardinality(S)
           list == ByStart(S)
           a == [k \in 1 .. n |-> list[k][2] - list[k][1]]
           parts == [k \in 1 .. n |-> SpanSeconds(list[k])]
<1>1. IsFiniteSet(S) /\ S \subseteq Spans /\ Apart(S)
  BY DEF ApartSpans
<1>2. /\ n \in Nat /\ list \in [1 .. n -> S]
      /\ \A j, k \in 1 .. n : j < k => list[j] # list[k]
      /\ \A w \in S : \E k \in 1 .. n : list[k] = w
  BY <1>1, StartsInOrder
<1>3. SecondsIn(S) = Total(a)
  BY DEF SecondsIn
<1> HIDE DEF n, list
<1>4. \A k \in 1 .. n : /\ list[k] \in S /\ list[k] \in Spans
                        /\ list[k][1] \in Nat /\ list[k][2] \in Nat /\ list[k][1] < list[k][2]
  BY <1>1, <1>2, SpanEnds
<1>5. a \in [1 .. n -> Nat]
  BY <1>4
<1>6. Sized(n, parts, a)
  <2> SUFFICES ASSUME NEW k \in 1 .. n
               PROVE  IsFiniteSet(parts[k]) /\ Cardinality(parts[k]) = a[k]
    BY DEF Sized
  <2> QED BY <1>4, OneSpan
<1>7. Disjoint(n, parts)
  <2> SUFFICES ASSUME NEW j \in 1 .. n, NEW k \in 1 .. n, j # k PROVE parts[j] \cap parts[k] = {}
    BY DEF Disjoint
  <2>1. list[j] # list[k]
    BY <1>2
  <2> DEFINE v == list[j]
             w == list[k]
  <2>2. /\ v \in Spans /\ v[1] \in Nat /\ v[2] \in Nat
        /\ w \in Spans /\ w[1] \in Nat /\ w[2] \in Nat
    BY <1>4
  <2>3. v[2] <= w[1] \/ w[2] <= v[1]
    BY <1>1, <1>4, <2>1 DEF Apart
  <2> HIDE DEF v, w
  <2>4. SpanSeconds(v) \cap SpanSeconds(w) = {}
    BY <2>2, <2>3 DEF SpanSeconds
  <2> QED BY <2>4 DEF v, w
<1>8. Whole1(n, parts) = SecondsOf(S)
  <2>1. \A k \in 1 .. n : parts[k] \subseteq Nat /\ \A x \in Nat : x \in parts[k] <=> Within(x, list[k])
    BY <1>4, OneSpan
  <2>2. \A x : x \in Whole1(n, parts) <=> \E k \in 1 .. n : x \in parts[k]
    BY DEF Whole1
  <2> HIDE DEF parts
  <2>3. \A x \in Nat : (\E k \in 1 .. n : Within(x, list[k])) <=> Within1(x, S)
    BY <1>2 DEF Within1
  <2>4. \A x : x \in Whole1(n, parts) <=> x \in SecondsOf(S)
    BY <2>1, <2>2, <2>3 DEF SecondsOf
  <2> QED BY <2>4
<1> HIDE DEF a, parts
<1> QED BY <1>2, <1>3, <1>5, <1>6, <1>7, <1>8, TotalOfParts

-----------------------------------------------------------------------------
\* A run of consecutive states of one segment ends after its first state.
LEMMA RunsEnd ==
  ASSUME BookIInv, NEW s \in Yielded
  PROVE  /\ EndOf(s) - 1 \in BookSeconds /\ EndOf(s) \in Nat /\ EndOf(s) - 1 >= s.at
         /\ \A x \in s.at .. EndOf(s) - 1 : [at |-> x, segment |-> s.segment] \in Yielded
         /\ [at |-> EndOf(s), segment |-> s.segment] \notin Yielded
<1> DEFINE on(x) == [at |-> x, segment |-> s.segment]
           T == {e \in Nat : e >= s.at /\ on(e + 1) \notin Yielded}
           ends(e) == e >= s.at /\ (\A x \in s.at .. e : on(x) \in Yielded) /\ on(e + 1) \notin Yielded
<1>1. /\ s \in States /\ s.at \in Nat /\ s.at <= LastSecond /\ LastSecond \in Nat
      /\ \A r \in Yielded : r.at <= LastSecond
  BY YieldedType DEF BookIInv, BookTyped
<1>2. s = on(s.at)
  BY <1>1 DEF States
<1>3. T \in SUBSET Nat /\ LastSecond \in T
  <2>1. on(LastSecond + 1).at = LastSecond + 1
    OBVIOUS
  <2> HIDE DEF on
  <2>2. on(LastSecond + 1) \notin Yielded
    BY <1>1, <2>1
  <2> QED BY <1>1, <2>2
<1>4. PICK e \in T : \A l \in T : e <= l
  BY <1>3, SmallestOf
<1>5. e \in Nat /\ e >= s.at /\ on(e + 1) \notin Yielded /\ e <= LastSecond
  BY <1>3, <1>4
<1> HIDE DEF on
<1>6. ASSUME NEW x \in s.at .. e PROVE on(x) \in Yielded
  <2>1. CASE x = s.at
    BY <1>2, <2>1
  <2>2. CASE x # s.at
    <3>1. x - 1 \in Nat /\ x - 1 >= s.at /\ x - 1 < e /\ x - 1 + 1 = x
      BY <1>1, <1>5, <2>2
    <3>2. x - 1 \notin T
      BY <1>4, <1>5, <3>1
    <3>3. on(x - 1 + 1) \in Yielded
      BY <3>1, <3>2
    <3> QED BY <3>1, <3>3
  <2> QED BY <2>1, <2>2
<1>7. e \in BookSeconds
  BY <1>1, <1>5 DEF BookSeconds
<1>8. ends(e)
  BY <1>5, <1>6
<1> DEFINE last == CHOOSE l \in BookSeconds : ends(l)
<1>9. EndOf(s) = 1 + last
  BY DEF EndOf, on
<1> HIDE DEF ends
<1>10. last \in BookSeconds /\ ends(last)
  BY <1>7, <1>8
<1> HIDE DEF last
<1>11. last \in Nat /\ EndOf(s) - 1 = last /\ EndOf(s) = last + 1
  BY <1>1, <1>9, <1>10 DEF BookSeconds
<1> QED BY <1>10, <1>11 DEF ends, on

\* _state_intervals: intervals with just the seconds that have a state.
LEMMA RunsCover ==
  ASSUME BookIInv
  PROVE  /\ StateIntervals \subseteq Spans /\ IsFiniteSet(StateIntervals)
         /\ \A x \in Nat : Within1(x, StateIntervals) <=> \E s \in Yielded : s.at = x
<1>1. /\ Yielded \subseteq States /\ LastSecond \in Nat
      /\ \A s \in Yielded : s.at \in Nat /\ s.at <= LastSecond
  BY YieldedType DEF BookIInv, BookTyped
<1>2. Starts \subseteq Yielded
  BY DEF Starts
<1>3. ASSUME NEW s \in Yielded
      PROVE  <<s.at, EndOf(s)>> \in Spans /\ s.at \in 0 .. LastSecond /\ EndOf(s) \in 0 .. LastSecond + 1
  <2>1. EndOf(s) - 1 \in BookSeconds /\ EndOf(s) \in Nat /\ EndOf(s) - 1 >= s.at
    BY <1>3, RunsEnd
  <2>2. s.at < EndOf(s) /\ EndOf(s) <= LastSecond + 1
    BY <1>1, <2>1 DEF BookSeconds
  <2> QED BY <1>1, <2>1, <2>2, SpanOf
<1>4. StateIntervals \subseteq Spans
  BY <1>2, <1>3 DEF StateIntervals
<1>5. IsFiniteSet(StateIntervals)
  <2> DEFINE A == 0 .. LastSecond
             B == 0 .. LastSecond + 1
  <2>1. IsFiniteSet(A) /\ IsFiniteSet(B)
    BY <1>1, FS_Interval
  <2>2. StateIntervals \in SUBSET (A \X B)
    BY <1>2, <1>3 DEF StateIntervals
  <2> HIDE DEF A, B
  <2>3. IsFiniteSet(A \X B)
    BY <2>1, FS_Product
  <2> QED BY <2>2, <2>3, FS_Subset
<1>6. ASSUME NEW x \in Nat, NEW w \in StateIntervals, Within(x, w)
      PROVE  \E s \in Yielded : s.at = x
  <2>1. PICK s \in Starts : w = <<s.at, EndOf(s)>>
    BY DEF StateIntervals
  <2>2. s \in Yielded /\ s.at <= x /\ x < EndOf(s)
    BY <1>2, <1>6, <2>1 DEF Within
  <2>3. EndOf(s) \in Nat /\ \A y \in s.at .. EndOf(s) - 1 : [at |-> y, segment |-> s.segment] \in Yielded
    BY <2>2, RunsEnd
  <2>4. x \in s.at .. EndOf(s) - 1
    BY <1>1, <2>2, <2>3
  <2>5. [at |-> x, segment |-> s.segment] \in Yielded
    BY <2>3, <2>4
  <2> QED BY <2>5
<1>7. ASSUME NEW s \in Yielded
      PROVE  \E w \in StateIntervals : Within(s.at, w)
  <2> DEFINE on(y) == [at |-> y, segment |-> s.segment]
             run(y) == \A z \in y .. s.at : on(z) \in Yielded
             T == {y \in 0 .. s.at : run(y)}
  <2>1. s.at \in Nat /\ s = on(s.at)
    BY <1>1 DEF States
  <2>2. \A y : on(y).at = y /\ on(y).segment = s.segment
    OBVIOUS
  <2>9. \A p \in Yielded : p.segment = s.segment => p = on(p.at)
    BY <1>1 DEF States
  <2> HIDE DEF on
  <2>3. s.at \in T /\ T \in SUBSET Nat
    BY <2>1
  <2>4. PICK y \in T : \A l \in T : y <= l
    BY <2>3, SmallestOf
  <2>5. y \in Nat /\ y <= s.at /\ run(y) /\ on(y) \in Yielded
    <3>1. y \in 0 .. s.at /\ run(y)
      BY <2>4
    <3>2. y \in y .. s.at
      BY <2>1, <3>1
    <3> QED BY <2>1, <3>1, <3>2
  <2>6. on(y) \in Starts
    <3> SUFFICES ASSUME NEW p \in Yielded, p.segment = s.segment, p.at + 1 = y PROVE FALSE
      BY <2>2, <2>5 DEF Starts
    <3>1. p.at \in Nat /\ p = on(p.at)
      BY <1>1, <2>9
    <3>2. p.at \in 0 .. s.at /\ p.at < y
      BY <2>1, <2>5, <3>1
    <3>3. run(p.at)
      <4> SUFFICES ASSUME NEW z \in p.at .. s.at PROVE on(z) \in Yielded
        OBVIOUS
      <4>1. z = p.at \/ z \in y .. s.at
        BY <2>1, <2>5, <3>1
      <4> QED BY <2>5, <3>1, <4>1
    <3>4. p.at \in T
      BY <3>2, <3>3
    <3> QED BY <2>4, <2>5, <3>1, <3>2, <3>4
  <2>7. /\ EndOf(on(y)) \in Nat
        /\ on(EndOf(on(y))) \notin Yielded
        /\ EndOf(on(y)) - 1 >= y
    <3>1. /\ EndOf(on(y)) \in Nat /\ EndOf(on(y)) - 1 >= on(y).at
          /\ [at |-> EndOf(on(y)), segment |-> on(y).segment] \notin Yielded
      BY <2>5, RunsEnd
    <3>2. [at |-> EndOf(on(y)), segment |-> on(y).segment] = on(EndOf(on(y)))
      BY <2>2 DEF on
    <3> QED BY <2>2, <3>1, <3>2
  <2> DEFINE end == EndOf(on(y))
  <2>8. s.at < end
    <3> SUFFICES ASSUME ~(s.at < end) PROVE FALSE
      OBVIOUS
    <3>1. end \in y .. s.at
      BY <2>1, <2>5, <2>7
    <3> QED BY <2>5, <2>7, <3>1
  <2>10. <<on(y).at, EndOf(on(y))>> \in StateIntervals
    BY <2>6 DEF StateIntervals
  <2>11. Within(s.at, <<on(y).at, EndOf(on(y))>>)
    BY <2>2, <2>5, <2>8 DEF Within
  <2> QED BY <2>10, <2>11
<1> QED BY <1>4, <1>5, <1>6, <1>7 DEF Within1

\* The gaps that are audited are those with a second in them.
LEMMA GapsCover ==
  ASSUME BookIInv, IsFiniteSet(gaps)
  PROVE  /\ AuditedGaps \subseteq Spans /\ IsFiniteSet(AuditedGaps)
         /\ \A x \in Nat : Within1(x, AuditedGaps) <=> InGap(x)
<1>1. \A w \in gaps : w[1] \in Nat /\ w[2] \in Nat /\ w = <<w[1], w[2]>>
  BY BookAssumption DEF BookIInv, BookTyped, Windows, BookSeconds
<1>2. AuditedGaps \subseteq Spans
  <2> SUFFICES ASSUME NEW w \in gaps, w[1] < w[2] PROVE w \in Spans
    BY DEF AuditedGaps
  <2> QED BY <1>1, SpanOf
<1>3. IsFiniteSet(AuditedGaps)
  <2>1. AuditedGaps \in SUBSET gaps
    BY DEF AuditedGaps
  <2> QED BY <2>1, FS_Subset
<1>4. ASSUME NEW x \in Nat PROVE Within1(x, AuditedGaps) <=> InGap(x)
  <2>1. ASSUME NEW w \in gaps, w[1] <= x, x < w[2] PROVE w[1] < w[2]
    BY <1>1, <2>1
  <2> QED BY <2>1 DEF Within1, Within, AuditedGaps, InGap
<1> QED BY <1>2, <1>3, <1>4

LEMMA AuditExact == BookIInv => QualifiedExact
<1> SUFFICES ASSUME BookIInv PROVE QualifiedExact
  OBVIOUS
<1>1. LastSecond \in Nat /\ \A s \in Yielded : s.at \in Nat /\ s.at <= LastSecond
  BY YieldedType DEF BookIInv, BookTyped
<1>2. IsFiniteSet(gaps)
  <2> DEFINE A == 0 .. LastSecond
             B == 0 .. LastSecond + 1
  <2>1. IsFiniteSet(A) /\ IsFiniteSet(B)
    BY <1>1, FS_Interval
  <2>2. gaps \in SUBSET (A \X B)
    BY DEF BookIInv, BookTyped, Windows, BookSeconds
  <2> HIDE DEF A, B
  <2>3. IsFiniteSet(A \X B)
    BY <2>1, FS_Product
  <2> QED BY <2>2, <2>3, FS_Subset
<1>3. /\ AuditedGaps \subseteq Spans /\ IsFiniteSet(AuditedGaps)
      /\ \A x \in Nat : Within1(x, AuditedGaps) <=> InGap(x)
  BY <1>2, GapsCover
<1>4. /\ StateIntervals \subseteq Spans /\ IsFiniteSet(StateIntervals)
      /\ \A x \in Nat : Within1(x, StateIntervals) <=> \E s \in Yielded : s.at = x
  BY RunsCover
<1>5. Qualified = Cardinality({s.at : s \in Yielded} \ {x \in BookSeconds : InGap(x)})
  <2> DEFINE base == ToSet(Union(StateIntervals))
             rest == Subtract(base, AuditedGaps)
  <2>1. base \in ApartSpans /\ \A x \in Nat : Within1(x, base) <=> Within1(x, StateIntervals)
    BY <1>4, UnionApart
  <2> HIDE DEF base
  <2>2. /\ rest \in ApartSpans
        /\ \A x \in Nat : Within1(x, rest) <=> Within1(x, base) /\ ~Within1(x, AuditedGaps)
    BY <1>3, <2>1, SubtractOf
  <2> HIDE DEF rest
  <2>3. SecondsIn(rest) = Cardinality(SecondsOf(rest))
    BY <2>2, SecondsInOf
  <2>4. SecondsOf(rest) = {s.at : s \in Yielded} \ {x \in BookSeconds : InGap(x)}
    <3>1. \A x \in Nat : Within1(x, rest) <=> (\E s \in Yielded : s.at = x) /\ ~InGap(x)
      BY <1>3, <1>4, <2>1, <2>2
    <3>2. \A x : (\E s \in Yielded : s.at = x) => x \in Nat /\ x \in BookSeconds
      BY <1>1 DEF BookSeconds
    <3> QED BY <3>1, <3>2 DEF SecondsOf
  <2> QED BY <2>3, <2>4 DEF Qualified, rest, base
<1>6. SecondsIn(Subtract({<<0, LastSecond + 1>>}, AuditedGaps))
        = Cardinality({x \in BookSeconds : ~InGap(x)})
  <2> DEFINE whole == <<0, LastSecond + 1>>
             base == {whole}
             rest == Subtract(base, AuditedGaps)
  <2>1. whole \in Spans
    BY <1>1, SpanOf
  <2>2. base \in ApartSpans
    <3>1. IsFiniteSet(base)
      BY FS_Singleton
    <3> QED BY <2>1, <3>1 DEF ApartSpans, Apart
  <2>3. \A x \in Nat : Within1(x, base) <=> x \in BookSeconds
    BY <1>1 DEF Within1, Within, BookSeconds
  <2> HIDE DEF base
  <2>4. /\ rest \in ApartSpans
        /\ \A x \in Nat : Within1(x, rest) <=> Within1(x, base) /\ ~Within1(x, AuditedGaps)
    BY <1>3, <2>2, SubtractOf
  <2> HIDE DEF rest
  <2>5. SecondsIn(rest) = Cardinality(SecondsOf(rest))
    BY <2>4, SecondsInOf
  <2>6. SecondsOf(rest) = {x \in BookSeconds : ~InGap(x)}
    <3>1. \A x \in Nat : Within1(x, rest) <=> x \in BookSeconds /\ ~InGap(x)
      BY <1>3, <2>3, <2>4
    <3>2. BookSeconds \subseteq Nat
      BY <1>1 DEF BookSeconds
    <3> QED BY <3>1, <3>2 DEF SecondsOf
  <2> QED BY <2>5, <2>6 DEF rest, base
<1> QED BY <1>5, <1>6 DEF QualifiedExact

(***************************************************************************)
(* No segment of a replayed day spans a gap, a trade is joined to a state  *)
(* across one only in the second in which the gap begins, and the audit    *)
(* counts each second that has a state outside the gaps once: for any day, *)
(* gap windows that may overlap, anchors and deltas.                       *)
(***************************************************************************)
THEOREM GapsAreRespected == BookSpec => []BookInv
<1>1. BookSpec => []BookIInv
  BY BookStart, BookNextKeeps, PTL DEF BookSpec
<1>2. BookIInv => BookInv
  <2> SUFFICES ASSUME BookIInv PROVE BookTypeOK /\ SegmentsUnbroken
    BY JoinsAcross, AuditExact DEF BookInv
  <2>1. segment \in 0 .. LastSecond + 1
    BY BookAssumption DEF BookIInv, BookTyped
  <2> QED
    BY <2>1 DEF BookIInv, BookTyped, BookTypeOK
<1> QED
  BY <1>1, <1>2, PTL

-----------------------------------------------------------------------------
(***************************************************************************)
(* Grading: retention, completeness and the active segment.                *)
(***************************************************************************)
Places == 1 .. Len(Features)
Events == [feature : Places, at : Nat]

GradeTyped ==
  /\ gradeClock \in Nat
  /\ predTopic \in Seq(Events)
  /\ labels \in 0 .. Len(Features)
  /\ predPos \in 0 .. Len(predTopic) /\ outPos \in 0 .. labels
  /\ inserted \in 0 .. PruneEvery - 1 /\ outInserted \in 0 .. PruneEvery - 1
  /\ rebuilt \in Nat

\* The bridge goes forward, or scores its last row again, and time does not
\* go back.
TopicInOrder ==
  /\ \A j, k \in 1 .. Len(predTopic) :
       j <= k => /\ predTopic[j].feature <= predTopic[k].feature
                 /\ predTopic[j].at <= predTopic[k].at
  /\ \A k \in 1 .. Len(predTopic) : predTopic[k].at <= gradeClock

\* A row of the table is an event that was polled.
RowsPolled ==
  \A i \in DOMAIN predRows :
    \E k \in 1 .. predPos : predTopic[k].feature = i /\ predRows[i] = predTopic[k]

\* The table holds the newest of what was polled: what was pruned is before it.
NewestStay ==
  \A k \in 1 .. predPos :
    \/ predTopic[k].feature \in DOMAIN predRows
    \/ \A j \in DOMAIN predRows : predTopic[k].feature < j

\* No feature before i has a later time.
NoneLater(i) == \A j \in 1 .. i - 1 : Features[j].ts <= Features[i].ts

\* An outcome is pruned only when KeepRows newer ones were polled.
OutcomesStay ==
  /\ DOMAIN outRows \subseteq 1 .. outPos
  /\ \A i \in 1 .. outPos : NoneLater(i) /\ outPos < i + KeepRows => i \in DOMAIN outRows

\* The inductive invariant of the two tables.
GradeIInv == GradeTyped /\ TopicInOrder /\ RowsPolled /\ NewestStay /\ OutcomesStay

-----------------------------------------------------------------------------
LEMMA FeaturesType ==
  /\ Len(Features) \in Nat /\ DOMAIN Features = Places
  /\ \A i \in Places : Features[i].ts \in Nat
  /\ KeepRows \in Nat \ {0} /\ PruneEvery \in Nat \ {0} /\ WindowSpan \in Nat
BY GradingAssumption DEF Places

LEMMA TopicType ==
  ASSUME GradeTyped
  PROVE  /\ Len(predTopic) \in Nat /\ predPos \in Nat /\ predPos <= Len(predTopic)
         /\ DOMAIN predTopic = 1 .. Len(predTopic)
         /\ \A k \in 1 .. Len(predTopic) :
              /\ predTopic[k] \in Events /\ predTopic[k].feature \in Places
              /\ predTopic[k].feature \in Nat /\ predTopic[k].at \in Nat
<1>1. Len(predTopic) \in Nat /\ predTopic \in Seq(Events) /\ predPos \in 0 .. Len(predTopic)
  BY DEF GradeTyped
<1>2. Places \subseteq Nat
  BY DEF Places
<1>3. \A e \in Events : e.feature \in Places /\ e.at \in Nat
  BY DEF Events
<1>4. \A k \in 1 .. Len(predTopic) : predTopic[k] \in Events
  BY <1>1
<1>5. \A k \in 1 .. Len(predTopic) :
        /\ predTopic[k].feature \in Places /\ predTopic[k].feature \in Nat
        /\ predTopic[k].at \in Nat
  BY <1>2, <1>3, <1>4
<1>6. DOMAIN predTopic = 1 .. Len(predTopic) /\ predPos \in Nat /\ predPos <= Len(predTopic)
  BY <1>1
<1> QED
  BY <1>1, <1>4, <1>5, <1>6

LEMMA GradeStart == GradeInit => GradeIInv
<1> SUFFICES ASSUME GradeInit PROVE GradeIInv
  OBVIOUS
<1>1. predTopic \in Seq(Events) /\ Len(predTopic) = 0 /\ DOMAIN predRows = {} /\ DOMAIN outRows = {}
  BY DEF GradeInit
<1>2. GradeTyped
  BY <1>1, FeaturesType DEF GradeInit, GradeTyped
<1> QED
  BY <1>1, <1>2 DEF GradeInit, GradeIInv, TopicInOrder, RowsPolled, NewestStay, OutcomesStay

-----------------------------------------------------------------------------
\* The bridge publishes a row no earlier than its last one.
LEMMA ScoreKeeps ==
  ASSUME GradeIInv, NEW i \in Places, ScoreFeature(i),
         \A k \in 1 .. Len(predTopic) : predTopic[k].feature <= i,
         UNCHANGED <<gradeClock, labels, predPos, outPos, predRows, outRows, inserted,
                     outInserted, rebuilt>>
  PROVE  GradeIInv'
<1> DEFINE event == [feature |-> i, at |-> gradeClock]
<1>0. GradeTyped /\ gradeClock \in Nat /\ i \in Nat
  BY FeaturesType DEF GradeIInv, GradeTyped, Places
<1>1. event \in Events /\ event.feature = i /\ event.at = gradeClock
  BY <1>0 DEF Events
<1> HIDE DEF event
<1>2. /\ predTopic' = Append(predTopic, event) /\ predTopic \in Seq(Events)
      /\ Len(predTopic) \in Nat
  BY <1>0 DEF ScoreFeature, event, GradeTyped
<1>3. /\ predTopic' \in Seq(Events) /\ Len(predTopic') = Len(predTopic) + 1
      /\ \A k \in 1 .. Len(predTopic) : predTopic'[k] = predTopic[k]
      /\ predTopic'[Len(predTopic) + 1] = event
  BY <1>1, <1>2
<1>4. GradeTyped'
  BY <1>0, <1>2, <1>3 DEF GradeTyped
<1>5. TopicInOrder'
  <2>1. \A k \in 1 .. Len(predTopic') : predTopic'[k].at <= gradeClock'
    BY <1>0, <1>1, <1>2, <1>3 DEF GradeIInv, TopicInOrder
  <2>2. ASSUME NEW j \in 1 .. Len(predTopic'), NEW k \in 1 .. Len(predTopic'), j <= k
        PROVE  predTopic'[j].feature <= predTopic'[k].feature /\ predTopic'[j].at <= predTopic'[k].at
    <3>1. CASE k \in 1 .. Len(predTopic)
      BY <1>2, <1>3, <2>2, <3>1 DEF GradeIInv, TopicInOrder
    <3>2. CASE k = Len(predTopic) + 1 /\ j \in 1 .. Len(predTopic)
      BY <1>1, <1>2, <1>3, <3>2 DEF GradeIInv, TopicInOrder
    <3>3. CASE k = Len(predTopic) + 1 /\ j = k
      BY <1>0, <1>1, <1>3, <3>3
    <3> QED
      BY <1>2, <1>3, <2>2, <3>1, <3>2, <3>3
  <2> QED
    BY <2>1, <2>2 DEF TopicInOrder
<1>6. \A k \in 1 .. predPos : predTopic'[k] = predTopic[k]
  BY <1>0, <1>3, TopicType
<1>7. RowsPolled' /\ NewestStay' /\ OutcomesStay'
  BY <1>6 DEF GradeIInv, RowsPolled, NewestStay, OutcomesStay, NoneLater
<1> QED
  BY <1>4, <1>5, <1>7 DEF GradeIInv

LEMMA ScoredIsLast ==
  ASSUME GradeIInv
  PROVE  /\ Scored \in 0 .. Len(Features)
         /\ \A k \in 1 .. Len(predTopic) : predTopic[k].feature <= Scored
<1>0. GradeTyped /\ TopicInOrder
  BY DEF GradeIInv
<1>1. CASE predTopic = <<>>
  BY <1>0, <1>1, FeaturesType DEF Scored
<1>2. CASE predTopic # <<>>
  <2>1. Len(predTopic) \in 1 .. Len(predTopic)
    BY <1>0, <1>2 DEF GradeTyped
  <2>2. Scored = predTopic[Len(predTopic)].feature
    BY <1>2 DEF Scored, Last
  <2> QED
    BY <1>0, <2>1, <2>2, TopicType, FeaturesType DEF TopicInOrder, Places
<1> QED
  BY <1>1, <1>2

LEMMA BridgeKeeps == GradeIInv /\ (ScoreNext \/ ScoreAgain) => GradeIInv'
<1> SUFFICES ASSUME GradeIInv, ScoreNext \/ ScoreAgain PROVE GradeIInv'
  OBVIOUS
<1>1. GradeTyped
  BY DEF GradeIInv
<1>2. /\ Scored \in Nat /\ Len(Features) \in Nat
      /\ \A k \in 1 .. Len(predTopic) :
           predTopic[k].feature \in Nat /\ predTopic[k].feature <= Scored
  BY <1>1, ScoredIsLast, TopicType, FeaturesType
<1>3. CASE ScoreNext
  <2>1. Scored + 1 \in Places /\ ScoreFeature(Scored + 1)
    BY <1>2, <1>3 DEF ScoreNext, Places
  <2>2. \A k \in 1 .. Len(predTopic) : predTopic[k].feature <= Scored + 1
    BY <1>2
  <2> QED
    BY <1>3, <2>1, <2>2, ScoreKeeps DEF ScoreNext
<1>4. CASE ScoreAgain
  <2>1. Scored \in Places /\ ScoreFeature(Scored)
    BY <1>2, <1>4, ScoredIsLast DEF ScoreAgain, Places
  <2> QED
    BY <1>2, <1>4, <2>1, ScoreKeeps DEF ScoreAgain
<1> QED
  BY <1>3, <1>4

LEMMA QuietKeeps ==
  GradeIInv /\ (PublishLabel \/ RebuildTables \/ GradeTick \/ UNCHANGED gradeVars) => GradeIInv'
<1> SUFFICES ASSUME GradeIInv,
                    PublishLabel \/ RebuildTables \/ GradeTick \/ UNCHANGED gradeVars
             PROVE  GradeIInv'
  OBVIOUS
<1>0. GradeTyped /\ TopicInOrder /\ UNCHANGED predTopic
  BY DEF GradeIInv, PublishLabel, RebuildTables, GradeTick, gradeVars
<1>1. CASE PublishLabel
  <2>1. GradeTyped'
    BY <1>0, <1>1, FeaturesType DEF PublishLabel, GradeTyped
  <2> QED
    BY <1>1, <2>1 DEF PublishLabel, GradeIInv, TopicInOrder, RowsPolled, NewestStay,
       OutcomesStay, NoneLater
<1>2. CASE RebuildTables
  <2>1. /\ predPos' = 0 /\ outPos' = 0 /\ DOMAIN predRows' = {} /\ DOMAIN outRows' = {}
        /\ UNCHANGED <<gradeClock, predTopic, labels>> /\ inserted' = 0 /\ outInserted' = 0
        /\ rebuilt' = rebuilt + 1
    BY <1>2 DEF RebuildTables
  <2>2. GradeTyped'
    BY <1>0, <2>1, FeaturesType DEF GradeTyped
  <2> QED
    BY <1>0, <2>1, <2>2 DEF GradeIInv, TopicInOrder, RowsPolled, NewestStay, OutcomesStay
<1>3. CASE GradeTick
  <2>1. gradeClock' = gradeClock + 1 /\ gradeClock \in Nat
    BY <1>0, <1>3 DEF GradeTick, GradeTyped
  <2>2. GradeTyped'
    BY <1>0, <1>3, <2>1 DEF GradeTick, GradeTyped
  <2>3. TopicInOrder'
    <3>1. predTopic' = predTopic /\ gradeClock' = gradeClock + 1 BY <1>0, <2>1
    <3>2. /\ \A j, k \in 1 .. Len(predTopic) :
               j <= k => /\ predTopic[j].feature <= predTopic[k].feature
                         /\ predTopic[j].at <= predTopic[k].at
          /\ \A k \in 1 .. Len(predTopic) : predTopic[k].at <= gradeClock
      BY <1>0 DEF TopicInOrder
    <3>3. ASSUME NEW k \in 1 .. Len(predTopic) PROVE predTopic[k].at <= gradeClock + 1
      <4>1. predTopic[k].at \in Nat /\ gradeClock \in Nat BY <1>0, <2>1, TopicType
      <4>2. predTopic[k].at <= gradeClock BY <3>2
      <4> QED BY ONLY <4>1, <4>2
    <3> QED BY ONLY <3>1, <3>2, <3>3 DEF TopicInOrder
  <2> QED
    BY <1>3, <2>2, <2>3 DEF GradeTick, GradeIInv, RowsPolled, NewestStay, OutcomesStay, NoneLater
<1>4. CASE UNCHANGED gradeVars
  BY <1>4 DEF gradeVars, GradeIInv, GradeTyped, TopicInOrder, RowsPolled, NewestStay,
     OutcomesStay, NoneLater
<1> QED
  BY <1>1, <1>2, <1>3, <1>4

-----------------------------------------------------------------------------
\* A table of predictions whose rows were scored in the order of their keys.
Table(rows) ==
  /\ DOMAIN rows \subseteq Places
  /\ \A i \in DOMAIN rows : rows[i].at \in Nat
  /\ \A i, j \in DOMAIN rows : i <= j => rows[i].at <= rows[j].at

LEMMA NewerIsLater ==
  ASSUME NEW rows, Table(rows), NEW i \in DOMAIN rows, NEW j \in DOMAIN rows
  PROVE  Newer(rows, j, i) <=> j > i
<1>1. i \in Nat /\ j \in Nat /\ rows[i].at \in Nat /\ rows[j].at \in Nat
  BY DEF Table, Places
<1>2. (i <= j => rows[i].at <= rows[j].at) /\ (j <= i => rows[j].at <= rows[i].at)
  BY DEF Table
<1> QED
  BY <1>1, <1>2 DEF Newer

LEMMA PlacesFinite ==
  ASSUME NEW S \in SUBSET Places
  PROVE  IsFiniteSet(S) /\ Cardinality(S) \in Nat /\ S \subseteq Nat
<1>1. IsFiniteSet(Places)
  BY FeaturesType, FS_Interval DEF Places
<1>2. IsFiniteSet(S)
  BY <1>1, FS_Subset
<1> QED
  BY <1>2, FS_CardinalityType DEF Places

\* Pruning takes the rows scored first.
LEMMA PruneKeepsNewest ==
  ASSUME NEW rows, Table(rows)
  PROVE  /\ DOMAIN PruneRows(rows) \subseteq DOMAIN rows
         /\ \A i \in DOMAIN PruneRows(rows) : PruneRows(rows)[i] = rows[i]
         /\ \A i \in DOMAIN rows \ DOMAIN PruneRows(rows), j \in DOMAIN PruneRows(rows) : i < j
         /\ \A i \in DOMAIN rows :
              (\A j \in DOMAIN rows : j <= i) => i \in DOMAIN PruneRows(rows)
<1> DEFINE Above(i) == {j \in DOMAIN rows : Newer(rows, j, i)}
           left == {i \in DOMAIN rows : Cardinality(Above(i)) < KeepRows}
<1>1. DOMAIN PruneRows(rows) = left /\ \A i \in left : PruneRows(rows)[i] = rows[i]
  BY DEF PruneRows, Restrict
<1>2. \A i \in DOMAIN rows : Above(i) = {j \in DOMAIN rows : j > i}
  BY NewerIsLater
<1>3. DOMAIN rows \subseteq Places /\ \A i \in DOMAIN rows : Above(i) \subseteq Places
  BY DEF Table
<1>4. \A i \in DOMAIN rows : i \in Nat /\ IsFiniteSet(Above(i)) /\ Cardinality(Above(i)) \in Nat
  BY <1>3, PlacesFinite DEF Places
<1>5. KeepRows \in Nat \ {0}
  BY FeaturesType
<1> HIDE DEF Above
<1>6. ASSUME NEW i \in DOMAIN rows, i \notin left, NEW j \in left PROVE i < j
  <2>1. CASE j <= i
    <3>1. Above(i) \subseteq Above(j)
      <4>1. \A k \in DOMAIN rows : k > i => k > j
        BY <1>4, <2>1
      <4> QED
        BY <1>2, <4>1
    <3>2. Cardinality(Above(i)) <= Cardinality(Above(j))
      BY <1>4, <3>1, FS_Subset
    <3>3. Cardinality(Above(j)) < KeepRows /\ ~(Cardinality(Above(i)) < KeepRows)
      BY <1>6
    <3> QED
      BY <1>4, <1>5, <3>2, <3>3
  <2> QED
    BY <1>4, <2>1
<1>7. ASSUME NEW i \in DOMAIN rows, \A j \in DOMAIN rows : j <= i PROVE i \in left
  <2>1. Above(i) = {}
    BY <1>2, <1>4, <1>7
  <2> QED
    BY <1>5, <2>1, FS_EmptySet
<1> QED
  BY <1>1, <1>6, <1>7

LEMMA PredRowsTable == GradeIInv => Table(predRows)
<1> SUFFICES ASSUME GradeIInv PROVE Table(predRows)
  OBVIOUS
<1>1. GradeTyped /\ TopicInOrder /\ RowsPolled
  BY DEF GradeIInv
<1>2. \A i \in DOMAIN predRows : i \in Places /\ predRows[i].at \in Nat
  BY <1>1, TopicType DEF RowsPolled
<1>3. ASSUME NEW i \in DOMAIN predRows, NEW j \in DOMAIN predRows, i <= j
      PROVE  predRows[i].at <= predRows[j].at
  <2>1. PICK k \in 1 .. predPos : predTopic[k].feature = i /\ predRows[i] = predTopic[k]
    BY <1>1 DEF RowsPolled
  <2>2. PICK m \in 1 .. predPos : predTopic[m].feature = j /\ predRows[j] = predTopic[m]
    BY <1>1 DEF RowsPolled
  <2>3. k \in 1 .. Len(predTopic) /\ m \in 1 .. Len(predTopic) /\ k \in Nat /\ m \in Nat
    BY <1>1, TopicType
  <2>4. CASE k <= m
    BY <1>1, <2>1, <2>2, <2>3, <2>4 DEF TopicInOrder
  <2>5. CASE m <= k
    <3>1. j <= i /\ i \in Nat /\ j \in Nat
      BY <1>1, <2>1, <2>2, <2>3, <2>5, TopicType DEF TopicInOrder
    <3>2. i = j
      BY <1>3, <3>1
    <3> QED
      BY <1>2, <3>2
  <2> QED
    BY <2>3, <2>4, <2>5
<1> QED
  BY <1>2, <1>3 DEF Table

\* The event the consumer stores next comes after all that it stored.
LEMMA InsertedIsNewest ==
  ASSUME GradeIInv, predPos < Len(predTopic)
  PROVE  LET event == predTopic[predPos + 1]
             rows == Insert(predRows, event.feature, event)
         IN  /\ event.feature \in Places /\ event.at \in Nat
             /\ \A k \in 1 .. predPos : predTopic[k].feature <= event.feature
             /\ \A i \in DOMAIN predRows :
                  i <= event.feature /\ predRows[i].at <= event.at /\ rows[i] = predRows[i]
             /\ DOMAIN rows = DOMAIN predRows \cup {event.feature}
             /\ event.feature \notin DOMAIN predRows => rows[event.feature] = event
             /\ event.feature \in DOMAIN predRows => rows = predRows
             /\ Table(rows)
<1> DEFINE event == predTopic[predPos + 1]
           rows == Insert(predRows, event.feature, event)
<1>0. GradeTyped /\ TopicInOrder /\ RowsPolled /\ Table(predRows)
  BY PredRowsTable DEF GradeIInv
<1>1. predPos + 1 \in 1 .. Len(predTopic) /\ predPos \in Nat
  BY <1>0, TopicType
<1>2. event.feature \in Places /\ event.at \in Nat /\ event.feature \in Nat
  BY <1>0, <1>1, TopicType
<1>3. \A k \in 1 .. predPos :
        predTopic[k].feature <= event.feature /\ predTopic[k].at <= event.at
  <2> SUFFICES ASSUME NEW k \in 1 .. predPos
               PROVE  predTopic[k].feature <= event.feature /\ predTopic[k].at <= event.at
    OBVIOUS
  <2>1. k \in 1 .. Len(predTopic) /\ k <= predPos + 1
    BY <1>0, <1>1, TopicType
  <2> QED
    BY <1>0, <1>1, <2>1 DEF TopicInOrder
<1>4. \A i \in DOMAIN predRows : i <= event.feature /\ predRows[i].at <= event.at
  BY <1>0, <1>3 DEF RowsPolled
<1> HIDE DEF event
<1>5. /\ DOMAIN rows = DOMAIN predRows \cup {event.feature}
      /\ \A i \in DOMAIN predRows : rows[i] = predRows[i]
      /\ event.feature \notin DOMAIN predRows => rows[event.feature] = event
  BY DEF Insert
<1>6. event.feature \in DOMAIN predRows => rows = predRows
  BY DEF Insert
<1> HIDE DEF rows
<1>7. Table(rows)
  <2>1. CASE event.feature \in DOMAIN predRows
    BY <1>0, <1>6, <2>1
  <2>2. CASE event.feature \notin DOMAIN predRows
    <3>1. \A i \in DOMAIN rows : i \in Places /\ rows[i].at \in Nat
      BY <1>0, <1>2, <1>5, <2>2 DEF Table
    <3>2. ASSUME NEW i \in DOMAIN rows, NEW j \in DOMAIN rows, i <= j
          PROVE  rows[i].at <= rows[j].at
      <4>1. CASE i \in DOMAIN predRows /\ j \in DOMAIN predRows
        BY <1>0, <1>5, <3>2, <4>1 DEF Table
      <4>2. CASE j = event.feature
        BY <1>2, <1>4, <1>5, <2>2, <4>2
      <4>3. CASE i = event.feature /\ j \in DOMAIN predRows
        <5>1. j <= i /\ i \in Nat /\ j \in Nat
          BY <1>0, <1>2, <1>4, <4>3 DEF Table, Places
        <5> QED
          BY <2>2, <3>2, <4>3, <5>1
      <4> QED
        BY <1>5, <4>1, <4>2, <4>3
    <3> QED
      BY <3>1, <3>2 DEF Table
  <2> QED
    BY <2>1, <2>2
<1> QED
  BY <1>2, <1>3, <1>4, <1>5, <1>6, <1>7 DEF event, rows

\* What StorePrediction does, by cases.
LEMMA WhatIsStored ==
  ASSUME GradeIInv, StorePrediction
  PROVE  LET event == predTopic[predPos + 1]
         IN  /\ predPos < Len(predTopic) /\ predPos' = predPos + 1
             /\ inserted' \in 0 .. PruneEvery - 1
             /\ \/ event.feature \in DOMAIN predRows /\ predRows' = predRows
                \/ /\ event.feature \notin DOMAIN predRows
                   /\ LET rows == Insert(predRows, event.feature, event)
                      IN  predRows' \in {rows, PruneRows(rows)}
<1> DEFINE event == predTopic[predPos + 1]
           known == event.feature \in DOMAIN predRows
           rows == Insert(predRows, event.feature, event)
           n == inserted + (IF known THEN 0 ELSE 1)
<1>1. predPos < Len(predTopic) /\ predPos' = predPos + 1
  BY DEF StorePrediction
<1>2. predRows' = IF n >= PruneEvery THEN PruneRows(rows) ELSE rows
  BY DEF StorePrediction
<1>3. inserted' = n % PruneEvery
  BY DEF StorePrediction
<1>4. inserted \in 0 .. PruneEvery - 1 /\ PruneEvery \in Nat \ {0}
  BY FeaturesType DEF GradeIInv, GradeTyped
<1>5. known => rows = predRows
  BY <1>1, InsertedIsNewest
<1> HIDE DEF known, rows
<1>6. n \in Nat
  BY <1>4
<1>7. known => n < PruneEvery
  BY <1>4
<1> HIDE DEF n
<1>8. inserted' \in 0 .. PruneEvery - 1
  BY <1>3, <1>4, <1>6
<1>9. known => predRows' = predRows
  BY <1>2, <1>4, <1>5, <1>6, <1>7
<1> QED
  BY <1>1, <1>2, <1>8, <1>9 DEF known, rows

LEMMA StoreKeeps == GradeIInv /\ StorePrediction => GradeIInv'
<1> SUFFICES ASSUME GradeIInv, StorePrediction PROVE GradeIInv'
  OBVIOUS
<1> DEFINE event == predTopic[predPos + 1]
           rows == Insert(predRows, event.feature, event)
<1>0. GradeTyped /\ TopicInOrder /\ RowsPolled /\ NewestStay
  BY DEF GradeIInv
<1>1. /\ predPos < Len(predTopic) /\ predPos' = predPos + 1
      /\ inserted' \in 0 .. PruneEvery - 1
      /\ \/ event.feature \in DOMAIN predRows /\ predRows' = predRows
         \/ event.feature \notin DOMAIN predRows /\ predRows' \in {rows, PruneRows(rows)}
  BY WhatIsStored
<1>2. UNCHANGED <<gradeClock, predTopic, labels, outPos, outRows, outInserted, rebuilt>>
  BY DEF StorePrediction
<1>3. /\ event.feature \in Places
      /\ \A k \in 1 .. predPos : predTopic[k].feature <= event.feature
      /\ \A i \in DOMAIN predRows : i <= event.feature /\ rows[i] = predRows[i]
      /\ DOMAIN rows = DOMAIN predRows \cup {event.feature}
      /\ event.feature \notin DOMAIN predRows => rows[event.feature] = event
      /\ event.feature \in DOMAIN predRows => rows = predRows
      /\ Table(rows)
  BY <1>1, InsertedIsNewest
<1>4. predPos \in Nat /\ predPos + 1 \in 1 .. Len(predTopic)
  BY <1>0, <1>1, TopicType
<1> HIDE DEF rows
<1>5. /\ DOMAIN predRows' \subseteq DOMAIN rows
      /\ \A i \in DOMAIN predRows' : predRows'[i] = rows[i]
      /\ \A i \in DOMAIN rows \ DOMAIN predRows', j \in DOMAIN predRows' : i < j
  <2>1. CASE predRows' = rows
    BY <2>1
  <2>2. CASE predRows' = PruneRows(rows)
    BY <1>3, <2>2, PruneKeepsNewest
  <2>3. CASE predRows' = predRows /\ rows = predRows
    BY <2>3
  <2> QED
    BY <1>1, <1>3, <2>1, <2>2, <2>3
<1>6. GradeTyped'
  BY <1>0, <1>1, <1>2, <1>4 DEF GradeTyped
<1>7. RowsPolled'
  <2> SUFFICES ASSUME NEW i \in DOMAIN predRows'
               PROVE  \E k \in 1 .. predPos + 1 :
                        predTopic[k].feature = i /\ predRows'[i] = predTopic[k]
    BY <1>1, <1>2 DEF RowsPolled
  <2>1. CASE i \in DOMAIN predRows
    <3>1. PICK k \in 1 .. predPos : predTopic[k].feature = i /\ predRows[i] = predTopic[k]
      BY <1>0, <2>1 DEF RowsPolled
    <3>2. k \in 1 .. predPos + 1
      BY <1>4
    <3>3. predRows'[i] = predTopic[k]
      BY <1>3, <1>5, <2>1, <3>1
    <3> QED
      BY <3>1, <3>2, <3>3
  <2>2. CASE i \notin DOMAIN predRows
    <3>1. i = event.feature /\ predRows'[i] = event
      BY <1>3, <1>5, <2>2
    <3>2. predPos + 1 \in 1 .. predPos + 1
      BY <1>4
    <3> QED
      BY <3>1, <3>2
  <2> QED
    BY <2>1, <2>2
<1>8. NewestStay'
  <2> SUFFICES ASSUME NEW k \in 1 .. predPos + 1, predTopic[k].feature \notin DOMAIN predRows',
                      NEW j \in DOMAIN predRows'
               PROVE  predTopic[k].feature < j
    BY <1>1, <1>2 DEF NewestStay
  <2>1. CASE predTopic[k].feature \in DOMAIN rows
    BY <1>5, <2>1
  <2>2. CASE predTopic[k].feature \notin DOMAIN rows
    <3>1. k \in 1 .. predPos
      BY <1>3, <1>4, <2>2
    <3>2. \A i \in DOMAIN predRows : predTopic[k].feature < i
      BY <1>0, <1>3, <2>2, <3>1 DEF NewestStay
    <3>3. j \in DOMAIN predRows \/ j = event.feature
      BY <1>3, <1>5
    <3>4. predTopic[k].feature <= event.feature /\ predTopic[k].feature # event.feature
      BY <1>3, <2>2, <3>1
    <3>5. predTopic[k].feature \in Nat /\ event.feature \in Nat
      BY <1>0, <1>4, <3>1, TopicType
    <3> QED
      BY <3>2, <3>3, <3>4, <3>5
  <2> QED
    BY <2>1, <2>2
<1>9. TopicInOrder' /\ OutcomesStay'
  BY <1>2 DEF GradeIInv, TopicInOrder, OutcomesStay, NoneLater
<1> QED
  BY <1>6, <1>7, <1>8, <1>9 DEF GradeIInv
-----------------------------------------------------------------------------
LEMMA OutcomeKeeps == GradeIInv /\ StoreOutcome => GradeIInv'
<1> SUFFICES ASSUME GradeIInv, StoreOutcome PROVE GradeIInv'
  OBVIOUS
<1> DEFINE n == outPos + 1
           rows == Insert(outRows, n, gradeClock)
           count == outInserted + (IF n \in DOMAIN outRows THEN 0 ELSE 1)
<1>0. GradeTyped /\ OutcomesStay
  BY DEF GradeIInv
<1>1. /\ outPos < labels /\ outPos' = n
      /\ outInserted' = count % PruneEvery
      /\ outRows' = IF count >= PruneEvery THEN PruneOutcomes(rows) ELSE rows
      /\ UNCHANGED <<gradeClock, predTopic, labels, predPos, predRows, inserted, rebuilt>>
  BY DEF StoreOutcome
<1>2. /\ outPos \in Nat /\ n \in Nat /\ n = outPos + 1 /\ n <= labels
      /\ labels \in Nat /\ labels <= Len(Features) /\ n \in 1 .. labels
  BY <1>0, <1>1, FeaturesType DEF GradeTyped
<1>3. DOMAIN rows = DOMAIN outRows \cup {n} /\ DOMAIN rows \subseteq 1 .. n
  <2>1. DOMAIN rows = DOMAIN outRows \cup {n}
    BY DEF Insert
  <2>2. DOMAIN outRows \subseteq 1 .. outPos
    BY <1>0 DEF OutcomesStay
  <2> QED
    BY <1>2, <2>1, <2>2
<1>4. GradeTyped'
  <2>1. outInserted' \in 0 .. PruneEvery - 1
    <3>1. count \in Nat /\ PruneEvery \in Nat \ {0}
      BY <1>0, FeaturesType DEF GradeTyped
    <3> HIDE DEF count
    <3> QED
      BY <1>1, <3>1
  <2>2. outPos' \in 0 .. labels
    BY <1>1, <1>2
  <2> QED
    BY <1>0, <1>1, <2>1, <2>2 DEF GradeTyped
<1> HIDE DEF count, n, rows
<1>5. ASSUME NEW i \in 1 .. n, NoneLater(i), n < i + KeepRows
      PROVE  i \in DOMAIN rows /\ i \in DOMAIN PruneOutcomes(rows)
  <2>0. KeepRows \in Nat \ {0} /\ i \in Nat /\ i <= n
    BY <1>2, FeaturesType
  <2>1. i \in DOMAIN rows
    <3>1. CASE i = n
      BY <1>3, <3>1
    <3>2. CASE i # n
      <4>1. i \in 1 .. outPos /\ outPos < i + KeepRows
        BY <1>2, <1>5, <2>0, <3>2
      <4> QED
        BY <1>0, <1>3, <1>5, <4>1 DEF OutcomesStay
    <3> QED
      BY <3>1, <3>2
  <2> DEFINE Above == {j \in DOMAIN rows : \/ Features[j].ts > Features[i].ts
                                           \/ Features[j].ts = Features[i].ts /\ j > i}
  <2>2. Above \subseteq i + 1 .. n
    <3> SUFFICES ASSUME NEW j \in Above PROVE j \in i + 1 .. n
      OBVIOUS
    <3>1. /\ j \in 1 .. n /\ j \in Nat
          /\ Features[j].ts > Features[i].ts \/ (Features[j].ts = Features[i].ts /\ j > i)
      BY <1>2, <1>3
    <3>2. j \in Places /\ i \in Places
      BY <1>2, <2>0, <3>1, FeaturesType DEF Places
    <3>3. Features[j].ts \in Nat /\ Features[i].ts \in Nat
      BY <3>2, FeaturesType
    <3>4. CASE j < i
      <4>1. j \in 1 .. i - 1
        BY <2>0, <3>1, <3>4
      <4>2. Features[j].ts <= Features[i].ts
        BY <1>5, <4>1 DEF NoneLater
      <4> QED
        BY <2>0, <3>1, <3>3, <3>4, <4>2
    <3>5. CASE j = i
      BY <3>1, <3>3, <3>5
    <3> HIDE DEF Above
    <3> QED
      BY <1>2, <2>0, <3>1, <3>4, <3>5
  <2> HIDE DEF Above
  <2>3. Cardinality(Above) < KeepRows
    <3>1. IsFiniteSet(i + 1 .. n) /\ Cardinality(i + 1 .. n) <= n - i
      <4>1. i + 1 \in Int /\ n \in Int
        BY <1>2, <2>0
      <4>2. /\ IsFiniteSet(i + 1 .. n)
            /\ Cardinality(i + 1 .. n) = IF i + 1 > n THEN 0 ELSE n - (i + 1) + 1
        BY <4>1, FS_Interval
      <4> QED
        BY <1>2, <2>0, <4>2
    <3>2. IsFiniteSet(Above) /\ Cardinality(Above) <= Cardinality(i + 1 .. n)
      BY <2>2, <3>1, FS_Subset
    <3>3. Cardinality(Above) \in Nat /\ Cardinality(i + 1 .. n) \in Nat
      BY <3>1, <3>2, FS_CardinalityType
    <3>4. n - i < KeepRows
      BY <1>2, <1>5, <2>0
    <3> QED
      BY <1>2, <2>0, <3>1, <3>2, <3>3, <3>4
  <2>4. i \in DOMAIN PruneOutcomes(rows)
    BY <2>1, <2>3 DEF PruneOutcomes, Restrict, Above
  <2> QED
    BY <2>1, <2>4
<1>6. DOMAIN outRows' \subseteq 1 .. n
  <2>1. DOMAIN PruneOutcomes(rows) \subseteq DOMAIN rows
    BY DEF PruneOutcomes, Restrict
  <2> QED
    BY <1>1, <1>3, <2>1
<1>7. OutcomesStay'
  BY <1>1, <1>5, <1>6 DEF OutcomesStay, NoneLater
<1>8. TopicInOrder' /\ RowsPolled' /\ NewestStay'
  BY <1>1 DEF GradeIInv, TopicInOrder, RowsPolled, NewestStay
<1> QED
  BY <1>4, <1>7, <1>8 DEF GradeIInv

LEMMA GradeNextKeeps == GradeIInv /\ [GradeNext]_gradeVars => GradeIInv'
BY BridgeKeeps, QuietKeeps, StoreKeeps, OutcomeKeeps DEF GradeNext

LEMMA GradeAlways == GradeSpec => []GradeIInv
BY GradeStart, GradeNextKeeps, PTL DEF GradeSpec

-----------------------------------------------------------------------------
\* The newest row is the last one scored.
LEMMA NewestIs ==
  ASSUME NEW rows, Table(rows), NEW i \in DOMAIN rows, \A j \in DOMAIN rows : j <= i
  PROVE  Newest(rows) = i
<1>1. DOMAIN rows \subseteq Nat
  BY DEF Table, Places
<1>2. \A x, y \in DOMAIN rows : Newer(rows, x, y) <=> x > y
  BY NewerIsLater
<1>3. \A j \in DOMAIN rows \ {i} : Newer(rows, i, j)
  BY <1>1, <1>2
<1>4. ASSUME NEW x \in DOMAIN rows, \A j \in DOMAIN rows \ {x} : Newer(rows, x, j), x # i
      PROVE  FALSE
  <2>1. x > i
    BY <1>2, <1>4
  <2> QED
    BY <1>1, <2>1
<1> QED
  BY <1>3, <1>4 DEF Newest

LEMMA NewestThere ==
  ASSUME NEW rows, Table(rows), DOMAIN rows # {}
  PROVE  /\ Newest(rows) \in DOMAIN rows /\ \A j \in DOMAIN rows : j <= Newest(rows)
         /\ Segment(rows) = Features[Newest(rows)].stream
<1>1. DOMAIN rows \in SUBSET (1 .. Len(Features))
  BY DEF Table, Places
<1>2. PICK i \in DOMAIN rows : \A j \in DOMAIN rows : j <= i
  BY <1>1, LargestOf, FeaturesType
<1>3. Newest(rows) = i
  BY <1>2, NewestIs
<1> QED
  BY <1>2, <1>3 DEF Segment

\* The step of SegmentMovesOn.
LEMMA SegmentStep ==
  ASSUME GradeIInv, GradeIInv', [GradeNext]_gradeVars,
         Segment(predRows') # Segment(predRows), rebuilt' = rebuilt
  PROVE  /\ Segment(predRows') = Features[predTopic[predPos'].feature].stream
         /\ \A j \in DOMAIN predRows : predTopic[predPos'].at >= predRows[j].at
<1>1. predRows' # predRows
  OBVIOUS
<1>2. StorePrediction
  <2>1. CASE RebuildTables
    <3>1. rebuilt' = rebuilt + 1 /\ rebuilt \in Int
      BY <2>1 DEF RebuildTables, GradeIInv, GradeTyped
    <3> QED
      BY <3>1
  <2> QED
    BY <1>1, <2>1 DEF GradeNext, gradeVars, ScoreNext, ScoreAgain, PublishLabel, StoreOutcome,
       GradeTick
<1> DEFINE event == predTopic[predPos + 1]
           rows == Insert(predRows, event.feature, event)
<1>3. /\ predPos < Len(predTopic) /\ predPos' = predPos + 1
      /\ event.feature \notin DOMAIN predRows /\ predRows' \in {rows, PruneRows(rows)}
  BY <1>1, <1>2, WhatIsStored
<1>4. /\ event.feature \in Places /\ event.at \in Nat
      /\ \A i \in DOMAIN predRows : i <= event.feature /\ predRows[i].at <= event.at
      /\ DOMAIN rows = DOMAIN predRows \cup {event.feature}
      /\ Table(rows)
  BY <1>3, InsertedIsNewest
<1>5. Table(predRows) /\ Table(predRows')
  <2>1. Table(predRows)'
    BY PredRowsTable, PTL
  <2> QED
    BY <2>1, PredRowsTable DEF Table
<1> HIDE DEF rows
<1>6. \A j \in DOMAIN rows : j <= event.feature
  BY <1>4 DEF Places
<1>7. /\ event.feature \in DOMAIN predRows' /\ DOMAIN predRows' \subseteq DOMAIN rows
  <2>1. CASE predRows' = rows
    BY <1>4, <2>1
  <2>2. CASE predRows' = PruneRows(rows)
    BY <1>4, <1>6, <2>2, PruneKeepsNewest
  <2> QED
    BY <1>3, <2>1, <2>2
<1>8. Newest(predRows') = event.feature
  BY <1>5, <1>6, <1>7, NewestIs
<1>9. Segment(predRows') = Features[event.feature].stream
  BY <1>7, <1>8 DEF Segment
<1>10. \A j \in DOMAIN predRows : predRows[j].at \in Nat
  BY <1>5 DEF Table
<1> QED
  BY <1>3, <1>4, <1>9, <1>10

-----------------------------------------------------------------------------
\* Within a stream, the features come in the order of their times.
StreamsInOrder ==
  \A i, j \in Places :
    i <= j /\ Features[i].stream = Features[j].stream => Features[i].ts <= Features[j].ts

LEMMA CompleteIsWhole ==
  ASSUME GradeIInv, StreamsInOrder
  PROVE  CompleteMeansWhole
<1> SUFFICES ASSUME Complete, NEW k \in 1 .. predPos, DOMAIN predRows # {},
                    Features[predTopic[k].feature].stream = Segment(predRows),
                    Features[predTopic[k].feature].ts > Cutoff,
                    predTopic[k].feature \notin DOMAIN predRows
             PROVE  FALSE
  BY DEF CompleteMeansWhole
<1> DEFINE i == predTopic[k].feature
           times == {Features[x].ts : x \in InSegment}
<1>0. Table(predRows) /\ GradeTyped /\ NewestStay
  BY PredRowsTable DEF GradeIInv
<1>1. /\ i \in Places /\ i \in Nat
  BY <1>0, TopicType
<1>2. \A j \in DOMAIN predRows : i < j
  BY <1>0 DEF NewestStay
<1> HIDE DEF i
<1>3. /\ InSegment \in SUBSET (1 .. Len(Features)) /\ InSegment \subseteq DOMAIN predRows
      /\ InSegment \subseteq Places /\ \A x \in InSegment : x \in Nat
      /\ InSegment # {}
  BY <1>0, NewestThere DEF InSegment, Table, Places
<1>4. \A x \in InSegment : Features[x].ts \in Nat /\ Features[x].ts \in times
  BY <1>3, FeaturesType
<1>5. \A x \in InSegment : Features[i].ts <= Features[x].ts
  <2> SUFFICES ASSUME NEW x \in InSegment PROVE Features[i].ts <= Features[x].ts
    OBVIOUS
  <2>1. i <= x /\ x \in Places
    BY <1>1, <1>2, <1>3
  <2>2. Features[i].stream = Features[x].stream
    BY DEF InSegment, i
  <2> QED
    BY <1>1, <2>1, <2>2 DEF StreamsInOrder
<1>6. times \in SUBSET Nat /\ times # {}
  BY <1>3, <1>4
<1>7. OldestTs \in times
  <2>1. PICK least \in times : \A t \in times : least <= t
    BY <1>6, SmallestOf
  <2> QED
    BY <2>1 DEF OldestTs, Min
<1>8. NewestTs \in times
  <2>1. PICK last \in InSegment : \A x \in InSegment : x <= last
    BY <1>3, LargestOf, FeaturesType
  <2>2. \A x \in InSegment : Features[x].ts <= Features[last].ts
    BY <1>3, <2>1 DEF StreamsInOrder, InSegment
  <2>3. \A t \in times : Features[last].ts >= t
    BY <1>4, <2>2
  <2> QED
    BY <1>4, <2>1, <2>3 DEF NewestTs, Max
<1>9. OldestTs <= Cutoff
  BY <1>3 DEF Complete
<1>10. /\ OldestTs \in Nat /\ NewestTs \in Nat /\ WindowSpan \in Nat /\ Cutoff = NewestTs - WindowSpan
       /\ Features[i].ts \in Nat
  BY <1>1, <1>6, <1>7, <1>8, FeaturesType DEF Cutoff
<1>11. Features[i].ts <= OldestTs
  BY <1>5, <1>7
<1> QED
  BY <1>9, <1>10, <1>11 DEF i

\* A payload of /predictions/performance that calls itself complete lacks no
\* row of its window that was ever stored, whatever was pruned, scored again
\* and rebuilt, if the times of a stream do not go back.
THEOREM CompletePayloads ==
  ASSUME StreamsInOrder
  PROVE  GradeSpec => []GradingInv
<1>1. GradeIInv => GradingInv
  <2> SUFFICES ASSUME GradeIInv PROVE GradeTypeOK /\ CompleteMeansWhole
    BY DEF GradingInv
  <2>1. DOMAIN predRows \subseteq 1 .. Len(Features)
    BY PredRowsTable DEF Table, Places
  <2>2. DOMAIN outRows \subseteq 1 .. Len(Features)
    BY FeaturesType DEF GradeIInv, GradeTyped, OutcomesStay
  <2> QED
    BY <2>1, <2>2, CompleteIsWhole DEF GradeTypeOK, GradeIInv, GradeTyped
<1> QED
  BY <1>1, GradeAlways, PTL

\* A stored prediction keeps its outcome: retention by feature time takes it
\* only when KeepRows later ones were stored, or a replay brought later times.
THEOREM OutcomesOfPredictionsStay == GradeSpec => []MatchedStay
<1>1. GradeIInv => MatchedStay
  <2> SUFFICES ASSUME GradeIInv, NEW i \in DOMAIN predRows, outPos < i + KeepRows, i <= outPos,
                      NoneLater(i)
               PROVE  i \in DOMAIN outRows
    BY DEF MatchedStay, NoneLater
  <2>1. i \in 1 .. outPos
    BY PredRowsTable DEF Table, Places, GradeIInv, GradeTyped
  <2> QED
    BY <2>1 DEF GradeIInv, OutcomesStay
<1> QED
  BY <1>1, GradeAlways, PTL

\* The active segment passes only to the stream of the row just stored, which
\* is the last one scored.
THEOREM SegmentOnlyMovesOn == GradeSpec => SegmentMovesOn
<1>1. GradeIInv /\ GradeIInv' /\ [GradeNext]_gradeVars =>
        [Segment(predRows') # Segment(predRows) /\ rebuilt' = rebuilt =>
           /\ Segment(predRows') = Features[predTopic[predPos'].feature].stream
           /\ \A j \in DOMAIN predRows :
                predTopic[predPos'].at >= predRows[j].at]_gradeVars
  BY SegmentStep
<1> QED
  BY <1>1, GradeAlways, PTL DEF GradeSpec, SegmentMovesOn

-----------------------------------------------------------------------------
(***************************************************************************)
(* Grading: what the two endpoints count.                                  *)
(***************************************************************************)
\* Outcomes are stamped by the clock.
OutcomesStamped == \A i \in DOMAIN outRows : outRows[i] \in Nat

LEMMA StampsStart == GradeInit => OutcomesStamped
BY DEF GradeInit, OutcomesStamped

LEMMA StampsKeep == GradeIInv /\ OutcomesStamped /\ [GradeNext]_gradeVars => OutcomesStamped'
<1> SUFFICES ASSUME GradeIInv, OutcomesStamped, [GradeNext]_gradeVars PROVE OutcomesStamped'
  OBVIOUS
<1>1. CASE StoreOutcome
  <2> DEFINE n == outPos + 1
             rows == Insert(outRows, n, gradeClock)
  <2>1. outRows' \in {rows, PruneOutcomes(rows)}
    BY <1>1 DEF StoreOutcome
  <2>2. gradeClock \in Nat
    BY DEF GradeIInv, GradeTyped
  <2>3. \A i \in DOMAIN rows : rows[i] \in Nat
    BY <2>2 DEF Insert, OutcomesStamped
  <2> HIDE DEF rows
  <2>4. \A i \in DOMAIN PruneOutcomes(rows) :
          i \in DOMAIN rows /\ PruneOutcomes(rows)[i] = rows[i]
    BY DEF PruneOutcomes, Restrict
  <2> QED BY <2>1, <2>3, <2>4 DEF OutcomesStamped
<1>2. CASE RebuildTables
  BY <1>2 DEF RebuildTables, OutcomesStamped
<1>3. CASE UNCHANGED outRows
  BY <1>3 DEF OutcomesStamped
<1> QED
  BY <1>1, <1>2, <1>3 DEF GradeNext, gradeVars, ScoreNext, ScoreAgain, PublishLabel,
     StorePrediction, GradeTick

-----------------------------------------------------------------------------
\* The rows the two endpoints are given.
RowOk(r) ==
  /\ r.fts \in Int /\ r.apiTs \in Nat /\ r.score \in Nat
  /\ r.tau = Tau /\ r.variant = "ml" /\ r.version = 1
  /\ \/ r.writtenAt \in Nat /\ r.spike \in {0, 1}
     \/ r.writtenAt = None /\ r.spike = None

RowsOk(rows, n) ==
  /\ rows = [k \in 1 .. n |-> rows[k]]
  /\ \A k \in 1 .. n : RowOk(rows[k])

\* The places of a class of the timeline.
OfClass(rows, n, anchor, c) == {k \in 1 .. n : ClassifyRow(rows[k], anchor) = c}

LEMMA OfClassFinite ==
  ASSUME NEW n \in Nat, NEW rows, NEW anchor, NEW c
  PROVE  /\ OfClass(rows, n, anchor, c) \subseteq 1 .. n
         /\ IsFiniteSet(OfClass(rows, n, anchor, c))
         /\ Cardinality(OfClass(rows, n, anchor, c)) \in Nat
<1>1. OfClass(rows, n, anchor, c) \in SUBSET (1 .. n)
  BY DEF OfClass
<1>2. IsFiniteSet(1 .. n)
  BY FS_Interval
<1> QED BY <1>1, <1>2, FS_Subset, FS_CardinalityType

LEMMA ClassesAre ==
  ASSUME NEW r, RowOk(r), NEW anchor, Tau \in Nat
  PROVE  /\ ClassifyRow(r, anchor) \in Classes
         /\ ClassifyRow(r, anchor) = "correct_call" <=> IsGraded(r) /\ r.score >= Tau /\ r.spike # 0
         /\ ClassifyRow(r, anchor) = "false_alarm" <=> IsGraded(r) /\ r.score >= Tau /\ r.spike = 0
         /\ ClassifyRow(r, anchor) = "missed_spike" <=> IsGraded(r) /\ ~(r.score >= Tau) /\ r.spike # 0
         /\ ClassifyRow(r, anchor) = "correct_quiet" <=> IsGraded(r) /\ ~(r.score >= Tau) /\ r.spike = 0
         /\ ClassifyRow(r, anchor) \in {"pending", "unavailable"} <=> ~IsGraded(r)
         /\ IsGraded(r) \/ IsLate(r) \/ ~HasOutcome(r)
         /\ ~(IsGraded(r) /\ IsLate(r)) /\ (IsGraded(r) \/ IsLate(r) => HasOutcome(r))
         /\ HasOutcome(r) => r.spike \in {0, 1}
<1>1. CASE r.writtenAt \in Nat /\ r.spike \in {0, 1}
  <2>1. HasOutcome(r) /\ WellFormed(r) /\ Usable(r)
    BY <1>1 DEF RowOk, None, HasOutcome, WellFormed, Usable
  <2>2. ScoredOnTime(r) <=> IsGraded(r)
    BY <2>1 DEF RowOk, None, ScoredOnTime, IsGraded, WellFormed
  <2>3. r.tau = Tau
    BY DEF RowOk
  <2>4. ClassifyRow(r, anchor) = IF IsGraded(r) THEN CallClass(r.score >= Tau, r.spike = 1)
                                 ELSE "unavailable"
    BY <2>1, <2>2, <2>3 DEF ClassifyRow
  <2>5. IsLate(r) <=> ~IsGraded(r)
    BY <2>1 DEF IsLate
  <2> QED BY <1>1, <2>1, <2>4, <2>5 DEF CallClass, Classes
<1>2. CASE r.writtenAt = None /\ r.spike = None
  <2>1. ~HasOutcome(r) /\ ~IsGraded(r) /\ ~IsLate(r)
    BY <1>2 DEF HasOutcome, IsGraded, IsLate, WellFormed
  <2>2. ClassifyRow(r, anchor) \in {"pending", "unavailable"}
    BY <2>1 DEF ClassifyRow
  <2> QED BY <2>1, <2>2 DEF Classes
<1> QED BY <1>1, <1>2 DEF RowOk

-----------------------------------------------------------------------------
CallsAt(points, c) == Total(Column(points, LAMBDA p : p.classes[c]))

\* One point for each row: a class is counted once for each of its rows.
LEMMA RawCalls ==
  ASSUME NEW n \in Nat, NEW rows, RowsOk(rows, n), NEW anchor, NEW c \in Classes,
         NEW points, points = Column(rows, LAMBDA r : RawPoint(r, anchor))
  PROVE  CallsAt(points, c) = Cardinality(OfClass(rows, n, anchor, c))
<1> DEFINE is(k) == ClassifyRow(rows[k], anchor) = c
           a == [k \in 1 .. n |-> IF is(k) THEN 1 ELSE 0]
           parts == [k \in 1 .. n |-> IF is(k) THEN {k} ELSE {}]
<1>1. DOMAIN rows = 1 .. n
  BY DEF RowsOk
<1>2. points = [k \in 1 .. n |-> RawPoint(rows[k], anchor)]
  BY <1>1 DEF Column
<1>3. \A k \in 1 .. n : points[k].classes[c] = a[k]
  <2>1. \A k \in 1 .. n : RawPoint(rows[k], anchor).classes[c] = IF c = ClassifyRow(rows[k], anchor) THEN 1 ELSE 0
    BY DEF RawPoint
  <2> QED BY <1>2, <2>1
<1>4. Column(points, LAMBDA p : p.classes[c]) = a
  <2>1. Column(points, LAMBDA p : p.classes[c]) = [k \in 1 .. n |-> points[k].classes[c]]
    BY <1>2 DEF Column
  <2>2. a = [k \in 1 .. n |-> a[k]]
    OBVIOUS
  <2> HIDE DEF a
  <2> QED BY <1>3, <2>1, <2>2
<1>5. a \in [1 .. n -> Nat]
  OBVIOUS
<1>6. Sized(n, parts, a)
  <2>1. \A k : IsFiniteSet({k}) /\ Cardinality({k}) = 1
    BY FS_Singleton
  <2>2. IsFiniteSet({}) /\ Cardinality({}) = 0
    BY FS_EmptySet
  <2> SUFFICES ASSUME NEW k \in 1 .. n PROVE IsFiniteSet(parts[k]) /\ Cardinality(parts[k]) = a[k]
    BY DEF Sized
  <2> HIDE DEF is
  <2>3. CASE is(k)
    BY <2>1, <2>3
  <2>4. CASE ~is(k)
    BY <2>2, <2>4
  <2> QED BY <2>3, <2>4
<1>7. Disjoint(n, parts)
  BY DEF Disjoint
<1>8. Whole1(n, parts) = OfClass(rows, n, anchor, c)
  BY DEF Whole1, OfClass
<1> HIDE DEF a, parts
<1>9. CallsAt(points, c) = Total(a)
  BY <1>4 DEF CallsAt
<1> QED BY <1>5, <1>6, <1>7, <1>8, <1>9, TotalOfParts

\* As many rows of a bucket are of a class as are in both.
LEMMA BucketCalls ==
  ASSUME NEW n \in Nat, NEW rows, RowsOk(rows, n), NEW anchor, NEW c \in Classes,
         NEW B \in SUBSET (1 .. n), NEW bucket, bucket = Masked(rows, B), NEW start
  PROVE  /\ BucketPoint(bucket, start, anchor).classes[c]
              = Cardinality(B \cap OfClass(rows, n, anchor, c))
         /\ IsFiniteSet(B \cap OfClass(rows, n, anchor, c))
<1> DEFINE m == Cardinality(B)
           C == OfClass(rows, n, anchor, c)
<1>1. PICK at : Picks(at, rows, B)
  BY MaskedPlaces
<1>2. m \in Nat
  BY MaskedPlaces
<1>3. at \in [1 .. m -> B] /\ bucket = [k \in 1 .. m |-> rows[at[k]]]
  BY <1>1 DEF Picks
<1>4. Cardinality({k \in 1 .. m : at[k] \in C}) = Cardinality(B \cap C) /\ IsFiniteSet(B \cap C)
  <2> HIDE DEF C
  <2>1. PicksOf(at, rows, n, B)
    BY <1>1 DEF PicksOf
  <2>2. /\ IsFiniteSet(InBoth(B, C))
        /\ Cardinality(PickedIn(at, Cardinality(B), C)) = Cardinality(InBoth(B, C))
    BY <2>1, MaskedCount
  <2> QED BY <2>2 DEF PickedIn, InBoth
<1> HIDE DEF m
<1>5. {i \in DOMAIN bucket : ClassifyRow(bucket[i], anchor) = c} = {k \in 1 .. m : at[k] \in C}
  <2>1. \A k \in 1 .. m : at[k] \in 1 .. n /\ bucket[k] = rows[at[k]]
    BY <1>3
  <2>2. DOMAIN bucket = 1 .. m
    BY <1>3
  <2> QED BY <2>1, <2>2 DEF OfClass
<1>6. BucketPoint(bucket, start, anchor).classes[c]
        = Cardinality({i \in DOMAIN bucket : ClassifyRow(bucket[i], anchor) = c})
  BY DEF BucketPoint, Count
<1> QED BY <1>4, <1>5, <1>6

\* One point for each bucket: a class is counted once for each of its rows.
LEMMA BucketedCalls ==
  ASSUME NEW n \in Nat, NEW rows, RowsOk(rows, n), NEW anchor, NEW c \in Classes,
         NEW from \in Int, NEW step \in Nat \ {0},
         NEW points, points = BucketPoints(rows, from, step, anchor)
  PROVE  CallsAt(points, c) = Cardinality(OfClass(rows, n, anchor, c))
<1> DEFINE C == OfClass(rows, n, anchor, c)
           key(k) == BucketKey(rows[k], from, step)
           keys == {key(k) : k \in 1 .. n}
           of(x) == {k \in 1 .. n : key(k) = x}
           point(x) == BucketPoint(Masked(rows, of(x)), from + x * step, anchor)
           m == Cardinality(keys)
<1>1. DOMAIN rows = 1 .. n
  BY DEF RowsOk
<1>2. \A k \in 1 .. n : key(k) \in Int
  <2>1. \A k \in 1 .. n : rows[k].fts \in Int
    BY DEF RowsOk, RowOk
  <2>2. \A d \in Int : d \div step \in Int
    OBVIOUS
  <2>3. \A k \in 1 .. n : rows[k].fts - from \in Int
    BY <2>1
  <2> QED BY <2>2, <2>3 DEF BucketKey
<1>3. {BucketKey(r, from, step) : r \in ToSet(rows)} = keys
  BY <1>1 DEF ToSet
<1>4. points = Column(Ascending(keys), LAMBDA x : point(x))
  <2>1. \A x : Where(rows, LAMBDA r : BucketKey(r, from, step) = x) = Masked(rows, of(x))
    BY <1>1 DEF Where
  <2> DEFINE found == {BucketKey(r, from, step) : r \in ToSet(rows)}
             at(x) == BucketPoint(Where(rows, LAMBDA r : BucketKey(r, from, step) = x),
                                  from + x * step, anchor)
  <2>3. points = [j \in DOMAIN Ascending(found) |-> at(Ascending(found)[j])]
    BY DEF BucketPoints, Column
  <2> HIDE DEF keys
  <2>4. found = keys
    BY <1>3
  <2> HIDE DEF found
  <2>2. points = [j \in DOMAIN Ascending(keys) |->
                   BucketPoint(Where(rows, LAMBDA r : BucketKey(r, from, step) = Ascending(keys)[j]),
                               from + Ascending(keys)[j] * step, anchor)]
    BY <2>3, <2>4
  <2> QED BY <2>1, <2>2 DEF Column
<1> HIDE DEF key
<1>5. IsFiniteSet(keys)
  <2> DEFINE g == [k \in 1 .. n |-> key(k)]
  <2>1. g \in Surjection(1 .. n, keys)
    BY DEF Surjection
  <2>2. IsFiniteSet(1 .. n)
    BY FS_Interval
  <2> HIDE DEF g, keys
  <2> QED BY <2>1, <2>2, FS_Surjection
<1>6. \A x \in keys : x \in Int
  BY <1>2
<1> HIDE DEF keys
<1>7. m \in Nat /\ \E at : Picks(at, [x \in keys |-> x], keys)
  BY <1>5, <1>6, MaskedNumbers
<1>8. PICK at : Picks(at, [x \in keys |-> x], keys)
  BY <1>7
<1> HIDE DEF m
<1>9. /\ at \in [1 .. m -> keys] /\ \A j, k \in 1 .. m : j < k => at[j] < at[k]
      /\ \A x \in keys : \E k \in 1 .. m : at[k] = x
  BY <1>8 DEF Picks, m
<1>10. Ascending(keys) = [j \in 1 .. m |-> at[j]]
  <2>1. Ascending(keys) = [j \in 1 .. m |-> [x \in keys |-> x][at[j]]]
    BY <1>8 DEF Picks, Ascending, m
  <2>2. \A j \in 1 .. m : [x \in keys |-> x][at[j]] = at[j]
    BY <1>9
  <2> QED BY <2>1, <2>2
<1>11. DOMAIN points = 1 .. m /\ \A j \in 1 .. m : points[j] = point(at[j])
  <2> HIDE DEF point
  <2> QED BY <1>4, <1>10 DEF Column
<1> DEFINE parts == [j \in 1 .. m |-> of(at[j]) \cap C]
           a == [j \in 1 .. m |-> points[j].classes[c]]
<1>12. Column(points, LAMBDA p : p.classes[c]) = a
  BY <1>11 DEF Column
<1>13. Sized(m, parts, a) /\ a \in [1 .. m -> Nat]
  <2>1. ASSUME NEW j \in 1 .. m
        PROVE  IsFiniteSet(of(at[j]) \cap C) /\ points[j].classes[c] = Cardinality(of(at[j]) \cap C)
    <3> DEFINE B == of(at[j])
    <3>1. B \in SUBSET (1 .. n)
      OBVIOUS
    <3>2. points[j] = BucketPoint(Masked(rows, B), from + at[j] * step, anchor)
      BY <1>11
    <3> HIDE DEF B
    <3>3. /\ BucketPoint(Masked(rows, B), from + at[j] * step, anchor).classes[c]
                = Cardinality(B \cap OfClass(rows, n, anchor, c))
          /\ IsFiniteSet(B \cap OfClass(rows, n, anchor, c))
      BY <3>1, BucketCalls
    <3> QED BY <3>2, <3>3 DEF B
  <2> HIDE DEF of, C
  <2>2. \A j \in 1 .. m : Cardinality(of(at[j]) \cap C) \in Nat
    BY <2>1, FS_CardinalityType
  <2> QED BY <2>1, <2>2 DEF Sized
<1>14. Disjoint(m, parts)
  <2> SUFFICES ASSUME NEW j \in 1 .. m, NEW k \in 1 .. m, j # k PROVE parts[j] \cap parts[k] = {}
    BY DEF Disjoint
  <2>1. at[j] # at[k]
    <3>1. j < k \/ k < j
      BY <1>7 DEF m
    <3>2. at[j] \in Int /\ at[k] \in Int
      BY <1>6, <1>9
    <3> QED BY <1>9, <3>1, <3>2
  <2>2. of(at[j]) \cap of(at[k]) = {}
    BY <2>1
  <2> QED BY <2>2
<1>15. Whole1(m, parts) = C
  <2>1. C \subseteq 1 .. n
    BY OfClassFinite
  <2>2. \A k \in 1 .. n : \E j \in 1 .. m : k \in of(at[j])
    BY <1>9 DEF keys
  <2>3. \A x : x \in Whole1(m, parts) <=> \E j \in 1 .. m : x \in parts[j]
    BY DEF Whole1
  <2> HIDE DEF C, of
  <2>4. \A j \in 1 .. m : parts[j] = of(at[j]) \cap C
    OBVIOUS
  <2> HIDE DEF parts
  <2>5. \A x : x \in Whole1(m, parts) <=> x \in C
    BY <2>1, <2>2, <2>3, <2>4
  <2> QED BY <2>5
<1> HIDE DEF a, parts
<1>16. m \in Nat
  BY <1>7 DEF m
<1>17. Total(a) = Cardinality(Whole1(m, parts))
  BY <1>13, <1>14, <1>16, TotalOfParts
<1>18. CallsAt(points, c) = Total(a)
  BY <1>12 DEF CallsAt
<1> QED BY <1>15, <1>17, <1>18

LEMMA StepsPositive ==
  ASSUME NEW range
  PROVE  AutoResolution(range) \in Nat \ {0}
<1> DEFINE n == Len(ResolutionSteps)
           fits == {i \in DOMAIN ResolutionSteps : range <= MaxTimelinePoints * ResolutionSteps[i]}
<1>1. /\ n \in Nat \ {0} /\ DOMAIN ResolutionSteps = 1 .. n
      /\ \A i \in 1 .. n : ResolutionSteps[i] \in Nat \ {0}
  BY TimelineAssumption
<1>2. CASE fits = {}
  <2>1. AutoResolution(range) = ResolutionSteps[n]
    BY <1>2 DEF AutoResolution, Last
  <2> QED BY <1>1, <2>1
<1>3. CASE fits # {}
  <2>1. fits \in SUBSET Nat
    BY <1>1
  <2> HIDE DEF fits
  <2>2. PICK least \in fits : \A i \in fits : least <= i
    BY <1>3, <2>1, SmallestOf
  <2>3. Min(fits) \in fits
    BY <2>2 DEF Min
  <2>4. AutoResolution(range) = ResolutionSteps[Min(fits)]
    BY <1>3 DEF AutoResolution, fits
  <2>5. Min(fits) \in 1 .. n
    BY <1>1, <2>3 DEF fits
  <2> QED BY <1>1, <2>4, <2>5
<1> QED BY <1>2, <1>3

\* Either way the timeline counts the rows of each class.
LEMMA CallsOf ==
  ASSUME NEW n \in Nat, NEW rows, RowsOk(rows, n), NEW from \in Int, NEW to, NEW anchor,
         NEW points, points = BuildTimeline(rows, from, to, anchor, None), NEW c \in Classes
  PROVE  CallsAt(points, c) = Cardinality(OfClass(rows, n, anchor, c))
<1>1. CASE Len(rows) <= MaxTimelinePoints
  <2>1. points = Column(rows, LAMBDA r : RawPoint(r, anchor))
    BY <1>1 DEF BuildTimeline
  <2> QED BY <2>1, RawCalls
<1>2. CASE ~(Len(rows) <= MaxTimelinePoints)
  <2> DEFINE step == AutoResolution(to - from)
  <2>1. points = BucketPoints(rows, from, step, anchor)
    BY <1>2 DEF BuildTimeline
  <2>2. step \in Nat \ {0}
    BY StepsPositive
  <2> HIDE DEF step
  <2> QED BY <2>1, <2>2, BucketedCalls
<1> QED BY <1>1, <1>2

-----------------------------------------------------------------------------
\* When all rows have one tau, so has their series.
LEMMA OneTau ==
  ASSUME NEW n \in Nat \ {0}, NEW rows, DOMAIN rows = 1 .. n,
         \A k \in 1 .. n : rows[k].tau = Tau, Tau \in Nat
  PROVE  GroupTau(rows) = Tau
<1> DEFINE col == Column(rows, LAMBDA r : r.tau)
           kept == {k \in 1 .. n : col[k] # None}
           taus == Where(col, LAMBDA x : x # None)
           times(i) == Count(taus, LAMBDA x : x = taus[i])
           best(i) == \A j \in DOMAIN taus : times(j) < times(i) \/ (times(j) = times(i) /\ i <= j)
<1>1. col = [k \in 1 .. n |-> rows[k].tau]
  BY DEF Column
<1>0. DOMAIN col = 1 .. n /\ \A k \in 1 .. n : col[k] = Tau
  BY <1>1
<1>13. Tau # None
  BY DEF None
<1>2. kept = 1 .. n
  <2> HIDE DEF col
  <2> QED BY <1>0, <1>13
<1>3. GroupTau(rows) = IF taus = <<>> THEN FallbackTau ELSE taus[CHOOSE i \in DOMAIN taus : best(i)]
  BY DEF GroupTau
<1>14. taus = Masked(col, kept)
  <2> HIDE DEF col
  <2> QED BY <1>0 DEF Where
<1> HIDE DEF taus
<1> HIDE DEF col, kept
<1>4. PICK at : Picks(at, col, kept)
  BY <1>2, MaskedPlaces
<1>5. IsFiniteSet(1 .. n) /\ Cardinality(kept) = n
  BY <1>2, FS_Interval
<1>6. at \in [1 .. n -> 1 .. n] /\ taus = [k \in 1 .. n |-> col[at[k]]]
  BY <1>2, <1>4, <1>5, <1>14 DEF Picks
<1>7. taus = [k \in 1 .. n |-> Tau]
  BY <1>1, <1>6
<1>8. DOMAIN taus = 1 .. n /\ \A k \in 1 .. n : taus[k] = Tau
  BY <1>7
<1>9. \A i, j \in 1 .. n : times(j) = times(i)
  <2>1. \A i \in 1 .. n : times(i) = Count(taus, LAMBDA x : x = Tau)
    BY <1>8 DEF Count
  <2> HIDE DEF times
  <2> QED BY <2>1
<1> HIDE DEF times
<1>10. 1 \in DOMAIN taus /\ best(1)
  BY <1>8, <1>9
<1>11. (CHOOSE i \in DOMAIN taus : best(i)) \in DOMAIN taus
  <2> HIDE DEF best
  <2> QED BY <1>10
<1> HIDE DEF best
<1>12. taus # <<>>
  BY <1>8
<1> QED BY <1>3, <1>8, <1>11, <1>12

\* A sample of a sample that takes all of it.
LEMMA PickedTwice ==
  ASSUME NEW n \in Nat, NEW rows, NEW G, NEW at, PicksOf(at, rows, n, G),
         NEW pairs, NEW to, PicksOf(to, pairs, Cardinality(G), 1 .. Cardinality(G)),
         NEW C, C \subseteq G
  PROVE  Cardinality(PickedIn(to, Cardinality(G), PickedIn(at, Cardinality(G), C))) = Cardinality(C)
<1> DEFINE g == Cardinality(G)
           P == PickedIn(at, g, C)
<1>1. Cardinality(P) = Cardinality(InBoth(G, C))
  BY MaskedCount
<1>2. InBoth(G, C) = C
  BY DEF InBoth
<1>3. g \in Nat
  BY MaskedPlaces DEF PicksOf
<1>4. P \subseteq 1 .. g
  BY DEF PickedIn
<1> HIDE DEF P
<1>5. Cardinality(1 .. g) = g
  <2> HIDE DEF g
  <2> QED BY <1>3, FS_Interval
<1>6. Cardinality(PickedIn(to, Cardinality(1 .. g), P)) = Cardinality(InBoth(1 .. g, P))
  <2>1. PicksOf(to, pairs, g, 1 .. g)
    OBVIOUS
  <2> HIDE DEF g
  <2> QED BY <1>3, <2>1, MaskedCount
<1>7. InBoth(1 .. g, P) = P
  BY <1>4 DEF InBoth
<1> QED BY <1>1, <1>2, <1>5, <1>6, <1>7 DEF P

\* The confusion matrix of the graded rows.
LEMMA ConfusionOf ==
  ASSUME NEW n \in Nat, NEW rows, RowsOk(rows, n), Tau \in Nat, NEW anchor,
         NEW graded, graded = Where(rows, IsGraded),
         NEW m \in OfficialMode(graded)
  PROVE  m.confusion = [tp |-> Cardinality(OfClass(rows, n, anchor, "correct_call")),
                        fp |-> Cardinality(OfClass(rows, n, anchor, "false_alarm")),
                        fn |-> Cardinality(OfClass(rows, n, anchor, "missed_spike")),
                        tn |-> Cardinality(OfClass(rows, n, anchor, "correct_quiet"))]
<1> DEFINE G == {k \in 1 .. n : IsGraded(rows[k])}
           g == Cardinality(G)
           ml == <<"ml", 1>>
           pairs == Column(graded, LAMBDA r : [row |-> r, label |-> OfficialLabel(r)])
           of(k) == Where(pairs, LAMBDA p : GroupKey(p.row) = k)
           rs(k) == Column(of(k), LAMBDA p : p.row)
           ls(k) == Column(of(k), LAMBDA p : p.label)
<1>1. DOMAIN rows = 1 .. n /\ \A k \in 1 .. n : RowOk(rows[k])
  BY DEF RowsOk
<1>2. graded = Masked(rows, G)
  BY <1>1 DEF Where
<1>3. G \subseteq 1 .. n
  OBVIOUS
<1> HIDE DEF G
<1>4. g \in Nat /\ \E at : Picks(at, rows, G)
  BY <1>3, MaskedPlaces
<1>5. PICK at : Picks(at, rows, G)
  BY <1>4
<1>6. PicksOf(at, rows, n, G)
  BY <1>3, <1>5 DEF PicksOf
<1> HIDE DEF g
<1>7. at \in [1 .. g -> G] /\ graded = [k \in 1 .. g |-> rows[at[k]]]
  BY <1>2, <1>5 DEF Picks, g
<1>8. \A k \in 1 .. g : at[k] \in 1 .. n /\ RowOk(rows[at[k]]) /\ IsGraded(rows[at[k]])
  BY <1>1, <1>3, <1>7 DEF G
<1>9. /\ DOMAIN pairs = 1 .. g
      /\ \A k \in 1 .. g : pairs[k].row = rows[at[k]] /\ pairs[k].label = OfficialLabel(rows[at[k]])
  BY <1>7 DEF Column
<1>10. \A k \in 1 .. g : GroupKey(pairs[k].row) = ml
  BY <1>8, <1>9 DEF GroupKey, RowOk
<1>11. PICK x \in {GroupKey(p.row) : p \in ToSet(pairs)} :
         m = MlSeries(rs(x), ls(x))
  BY DEF OfficialMode, Mode
<1> HIDE DEF pairs
<1>12. PICK k0 \in 1 .. g : x = GroupKey(pairs[k0].row)
  BY <1>9 DEF ToSet
<1>13. x = ml /\ g \in Nat \ {0}
  <2>1. g \in Nat
    BY <1>4 DEF g
  <2> QED BY <1>10, <1>12, <2>1
<1> DEFINE all == Masked(pairs, 1 .. g)
<1>14. of(ml) = all
  <2>1. {i \in DOMAIN pairs : GroupKey(pairs[i].row) = ml} = 1 .. g
    <3> HIDE DEF ml
    <3> QED BY <1>9, <1>10
  <2> HIDE DEF ml
  <2> QED BY <2>1 DEF Where
<1>15. PICK to : Picks(to, pairs, 1 .. g)
  BY <1>13, MaskedPlaces
<1>16. PicksOf(to, pairs, g, 1 .. g)
  BY <1>15 DEF PicksOf
<1>17. Cardinality(1 .. g) = g
  BY <1>13, FS_Interval
<1>18. to \in [1 .. g -> 1 .. g] /\ all = [j \in 1 .. g |-> pairs[to[j]]]
  BY <1>15, <1>17 DEF Picks
<1> HIDE DEF all
<1> DEFINE place(j) == at[to[j]]
           rr == rs(ml)
           ll == ls(ml)
<1>19. \A j \in 1 .. g : place(j) \in G /\ RowOk(rows[place(j)]) /\ IsGraded(rows[place(j)])
  BY <1>7, <1>8, <1>18
<1>20. /\ DOMAIN rr = 1 .. g /\ \A j \in 1 .. g : rr[j] = rows[place(j)]
       /\ DOMAIN ll = 1 .. g /\ \A j \in 1 .. g : ll[j] = OfficialLabel(rows[place(j)])
  <2>1. rr = [j \in DOMAIN of(ml) |-> of(ml)[j].row] /\ ll = [j \in DOMAIN of(ml) |-> of(ml)[j].label]
    BY DEF Column
  <2> HIDE DEF of, ml
  <2>2. rr = [j \in DOMAIN all |-> all[j].row] /\ ll = [j \in DOMAIN all |-> all[j].label]
    BY <1>14, <2>1
  <2>3. DOMAIN all = 1 .. g /\ \A j \in 1 .. g : to[j] \in 1 .. g /\ all[j] = pairs[to[j]]
    BY <1>18
  <2> HIDE DEF rr, ll
  <2> QED BY <1>9, <2>2, <2>3
<1>21. \A j \in 1 .. g : ll[j] = rows[place(j)].spike /\ rr[j].score = rows[place(j)].score
  <2>1. \A j \in 1 .. g : HasOutcome(rows[place(j)]) /\ rows[place(j)].spike \in {0, 1}
    BY <1>19 DEF IsGraded, WellFormed, RowOk, HasOutcome, None
  <2> HIDE DEF rr, ll, place
  <2> QED BY <1>20, <2>1 DEF OfficialLabel, None
<1> HIDE DEF rr, ll, place
<1>22. GroupTau(rr) = Tau
  <2>1. \A j \in 1 .. g : rr[j].tau = Tau
    BY <1>19, <1>20 DEF RowOk
  <2> QED BY <1>13, <1>20, <2>1, OneTau
<1> DEFINE scores == Column(rr, LAMBDA r : r.score)
           cell(alert, spike) ==
             Cardinality({i \in DOMAIN scores :
               (scores[i] >= Tau) = alert /\ (ll[i] # 0) = spike})
<1>23. m.confusion = [tp |-> cell(TRUE, TRUE), fp |-> cell(TRUE, FALSE),
                      fn |-> cell(FALSE, TRUE), tn |-> cell(FALSE, FALSE)]
  <2>1. m = MlSeries(rr, ll)
    BY <1>11, <1>13 DEF rr, ll
  <2>2. m.confusion = Confusion(scores, ll, GroupTau(rr))
    BY <2>1 DEF MlSeries
  <2>3. m.confusion = Confusion(scores, ll, Tau)
    BY <1>22, <2>2
  <2> HIDE DEF scores
  <2> QED BY <2>3 DEF Confusion
<1>24. DOMAIN scores = 1 .. g /\ \A j \in 1 .. g : scores[j] = rows[place(j)].score
  BY <1>20, <1>21 DEF Column
<1> HIDE DEF scores
<1>25. ASSUME NEW c \in Classes, NEW alert \in BOOLEAN, NEW spike \in BOOLEAN,
              \A k \in 1 .. n : k \in OfClass(rows, n, anchor, c)
                <=> /\ k \in G
                    /\ (rows[k].score >= Tau) = alert /\ (rows[k].spike # 0) = spike
       PROVE  cell(alert, spike) = Cardinality(OfClass(rows, n, anchor, c))
  <2> DEFINE C == OfClass(rows, n, anchor, c)
             S == {i \in DOMAIN scores : (scores[i] >= Tau) = alert /\ (ll[i] # 0) = spike}
  <2>1. C \subseteq G
    BY <1>25, OfClassFinite
  <2>2. Cardinality(PickedIn(to, g, PickedIn(at, g, C))) = Cardinality(C)
    <3> HIDE DEF C
    <3> QED BY <1>6, <1>16, <2>1, PickedTwice DEF g
  <2>3. PickedIn(to, g, PickedIn(at, g, C)) = {j \in 1 .. g : place(j) \in C}
    BY <1>18 DEF PickedIn, place
  <2>4. \A j \in 1 .. g : place(j) \in C <=> (scores[j] >= Tau) = alert /\ (ll[j] # 0) = spike
    <3>1. \A j \in 1 .. g : place(j) \in G /\ place(j) \in 1 .. n
      BY <1>3, <1>19
    <3>2. \A j \in 1 .. g : scores[j] = rows[place(j)].score /\ ll[j] = rows[place(j)].spike
      BY <1>21, <1>24
    <3> QED BY <1>25, <3>1, <3>2
  <2>5. S = {j \in 1 .. g : place(j) \in C}
    <3> HIDE DEF C
    <3> QED BY <1>24, <2>4
  <2> HIDE DEF C, S
  <2>6. cell(alert, spike) = Cardinality(S)
    BY DEF S
  <2> QED BY <2>2, <2>3, <2>5, <2>6 DEF C
<1> HIDE DEF cell
<1>26. ASSUME NEW k \in 1 .. n
       PROVE  /\ k \in OfClass(rows, n, anchor, "correct_call")
                    <=> k \in G /\ rows[k].score >= Tau /\ rows[k].spike # 0
              /\ k \in OfClass(rows, n, anchor, "false_alarm")
                    <=> k \in G /\ rows[k].score >= Tau /\ ~(rows[k].spike # 0)
              /\ k \in OfClass(rows, n, anchor, "missed_spike")
                    <=> k \in G /\ ~(rows[k].score >= Tau) /\ rows[k].spike # 0
              /\ k \in OfClass(rows, n, anchor, "correct_quiet")
                    <=> k \in G /\ ~(rows[k].score >= Tau) /\ ~(rows[k].spike # 0)
  <2>1. RowOk(rows[k]) /\ (k \in G <=> IsGraded(rows[k]))
    BY <1>1 DEF G
  <2>2. \A c : k \in OfClass(rows, n, anchor, c) <=> ClassifyRow(rows[k], anchor) = c
    BY DEF OfClass
  <2> QED BY <2>1, <2>2, ClassesAre
<1>27. /\ cell(TRUE, TRUE) = Cardinality(OfClass(rows, n, anchor, "correct_call"))
       /\ cell(TRUE, FALSE) = Cardinality(OfClass(rows, n, anchor, "false_alarm"))
       /\ cell(FALSE, TRUE) = Cardinality(OfClass(rows, n, anchor, "missed_spike"))
       /\ cell(FALSE, FALSE) = Cardinality(OfClass(rows, n, anchor, "correct_quiet"))
  <2>1. "correct_call" \in Classes /\ "false_alarm" \in Classes
        /\ "missed_spike" \in Classes /\ "correct_quiet" \in Classes
    BY DEF Classes
  <2>2. cell(TRUE, TRUE) = Cardinality(OfClass(rows, n, anchor, "correct_call"))
    <3>1. \A k \in 1 .. n : k \in OfClass(rows, n, anchor, "correct_call")
            <=> /\ k \in G
                /\ (rows[k].score >= Tau) = TRUE /\ (rows[k].spike # 0) = TRUE
      BY <1>26
    <3> QED BY <1>25, <2>1, <3>1
  <2>3. cell(TRUE, FALSE) = Cardinality(OfClass(rows, n, anchor, "false_alarm"))
    <3>1. \A k \in 1 .. n : k \in OfClass(rows, n, anchor, "false_alarm")
            <=> /\ k \in G
                /\ (rows[k].score >= Tau) = TRUE /\ (rows[k].spike # 0) = FALSE
      BY <1>26
    <3> QED BY <1>25, <2>1, <3>1
  <2>4. cell(FALSE, TRUE) = Cardinality(OfClass(rows, n, anchor, "missed_spike"))
    <3>1. \A k \in 1 .. n : k \in OfClass(rows, n, anchor, "missed_spike")
            <=> /\ k \in G
                /\ (rows[k].score >= Tau) = FALSE /\ (rows[k].spike # 0) = TRUE
      BY <1>26
    <3> QED BY <1>25, <2>1, <3>1
  <2>5. cell(FALSE, FALSE) = Cardinality(OfClass(rows, n, anchor, "correct_quiet"))
    <3>1. \A k \in 1 .. n : k \in OfClass(rows, n, anchor, "correct_quiet")
            <=> /\ k \in G
                /\ (rows[k].score >= Tau) = FALSE /\ (rows[k].spike # 0) = FALSE
      BY <1>26
    <3> QED BY <1>25, <2>1, <3>1
  <2> QED BY <2>2, <2>3, <2>4, <2>5
<1> QED BY <1>23, <1>27

\* What is graded, late and unmatched adds up, and the rest of the timeline is
\* what is not graded.
LEMMA SplitOf ==
  ASSUME NEW n \in Nat, NEW rows, RowsOk(rows, n), Tau \in Nat, NEW anchor,
         NEW split, split = SplitGraded(rows)
  PROVE  /\ split.graded = Where(rows, IsGraded)
         /\ Len(split.graded) + split.late + split.unmatched = n
         /\ Cardinality(OfClass(rows, n, anchor, "pending"))
              + Cardinality(OfClass(rows, n, anchor, "unavailable"))
              = split.late + split.unmatched
<1> DEFINE G == {k \in 1 .. n : IsGraded(rows[k])}
           L == {k \in 1 .. n : IsLate(rows[k])}
           U == {k \in 1 .. n : ~HasOutcome(rows[k])}
           P == OfClass(rows, n, anchor, "pending")
           V == OfClass(rows, n, anchor, "unavailable")
<1>1. DOMAIN rows = 1 .. n /\ \A k \in 1 .. n : RowOk(rows[k])
  BY DEF RowsOk
<1>2. /\ split.graded = Where(rows, IsGraded) /\ Where(rows, IsGraded) = Masked(rows, G)
      /\ split.late = Cardinality(L) /\ split.unmatched = Cardinality(U)
  BY <1>1 DEF SplitGraded, Where, Count
<1>3. \A k \in 1 .. n :
        /\ IsGraded(rows[k]) \/ IsLate(rows[k]) \/ ~HasOutcome(rows[k])
        /\ ~(IsGraded(rows[k]) /\ IsLate(rows[k]))
        /\ IsGraded(rows[k]) \/ IsLate(rows[k]) => HasOutcome(rows[k])
        /\ ClassifyRow(rows[k], anchor) \in {"pending", "unavailable"} <=> ~IsGraded(rows[k])
  BY <1>1, ClassesAre
<1>4. /\ G \cup (L \cup U) = 1 .. n /\ G \cap (L \cup U) = {} /\ L \cap U = {}
      /\ P \cup V = L \cup U /\ P \cap V = {}
  BY <1>3 DEF OfClass
<1>5. G \in SUBSET (1 .. n) /\ L \in SUBSET (1 .. n) /\ U \in SUBSET (1 .. n)
      /\ P \in SUBSET (1 .. n) /\ V \in SUBSET (1 .. n)
  BY DEF OfClass
<1>6. IsFiniteSet(1 .. n) /\ Cardinality(1 .. n) = n
  BY FS_Interval
<1> HIDE DEF G, L, U, P, V
<1>7. IsFiniteSet(G) /\ IsFiniteSet(L) /\ IsFiniteSet(U) /\ IsFiniteSet(P) /\ IsFiniteSet(V)
  BY <1>5, <1>6, FS_Subset
<1>8. /\ Cardinality(G) \in Nat /\ Cardinality(L) \in Nat /\ Cardinality(U) \in Nat
      /\ Cardinality(P) \in Nat /\ Cardinality(V) \in Nat
  BY <1>7, FS_CardinalityType
<1>9. IsFiniteSet(L \cup U) /\ Cardinality(L \cup U) = Cardinality(L) + Cardinality(U)
  BY <1>4, <1>7, TwoParts
<1>10. Cardinality(G \cup (L \cup U)) = Cardinality(G) + Cardinality(L \cup U)
  <2> DEFINE W == L \cup U
  <2>1. IsFiniteSet(W) /\ G \cap W = {}
    BY <1>4, <1>9
  <2> HIDE DEF W
  <2>2. Cardinality(G \cup W) = Cardinality(G) + Cardinality(W)
    BY <1>7, <2>1, TwoParts
  <2> QED BY <2>2 DEF W
<1>11. Cardinality(P \cup V) = Cardinality(P) + Cardinality(V)
  BY <1>4, <1>7, TwoParts
<1>12. Len(split.graded) = Cardinality(G)
  <2>1. PICK at : Picks(at, rows, G)
    BY <1>5, MaskedPlaces
  <2> DEFINE g == Cardinality(G)
  <2>2. split.graded = [k \in 1 .. g |-> rows[at[k]]]
    BY <1>2, <2>1 DEF Picks
  <2> HIDE DEF g
  <2>3. g \in Nat
    BY <1>8 DEF g
  <2>4. Len(split.graded) = g
    BY <2>2, <2>3
  <2> QED BY <2>4 DEF g
<1>13. n = Cardinality(G) + (Cardinality(L) + Cardinality(U))
  <2>1. Cardinality(G \cup (L \cup U)) = n
    BY <1>4, <1>6
  <2> QED BY <1>9, <1>10, <2>1
<1>14. Cardinality(P) + Cardinality(V) = Cardinality(L) + Cardinality(U)
  <2>1. Cardinality(P \cup V) = Cardinality(L \cup U)
    BY <1>4
  <2> QED BY <1>9, <1>11, <2>1
<1>15. Len(split.graded) + split.late + split.unmatched = n
  BY <1>2, <1>8, <1>12, <1>13
<1>16. split.graded = Where(rows, IsGraded)
  BY <1>2
<1>17. Cardinality(P) + Cardinality(V) = split.late + split.unmatched
  BY <1>2, <1>14
<1> QED BY <1>15, <1>16, <1>17 DEF P, V

-----------------------------------------------------------------------------
\* The bridge gets a score for each row, and a label is 0 or 1.
ScoredAndLabelled ==
  /\ Tau \in Nat
  /\ \A i \in Places : Features[i].score \in Nat /\ Features[i].spike \in {0, 1}

LEMMA MostOf ==
  ASSUME NEW S, IsFiniteSet(S), S \subseteq Nat, S # {}
  PROVE  Max(S) \in S
<1> DEFINE m == Cardinality(S)
<1>1. \A a \in S : a \in Int
  OBVIOUS
<1>2. m \in Nat /\ \E at : Picks(at, S, S)
  BY <1>1, MaskedNumbers
<1>3. PICK at : Picks(at, S, S)
  BY <1>2
<1> HIDE DEF m
<1>4. /\ at \in [1 .. m -> S] /\ \A j, k \in 1 .. m : j < k => at[j] < at[k]
      /\ \A p \in S : \E k \in 1 .. m : at[k] = p
  BY <1>3 DEF Picks, m
<1>5. m \in 1 .. m /\ \A k \in 1 .. m : k = m \/ k < m
  <2>1. m \in Nat
    BY <1>2
  <2>2. PICK p \in S : TRUE
    OBVIOUS
  <2>3. PICK k \in 1 .. m : at[k] = p
    BY <1>4
  <2> QED BY <2>1, <2>3
<1>6. at[m] \in S /\ \A p \in S : at[m] >= p
  <2> SUFFICES ASSUME NEW p \in S PROVE at[m] \in S /\ at[m] >= p
    BY <1>5
  <2>1. PICK k \in 1 .. m : at[k] = p
    BY <1>4
  <2>2. at[m] \in S /\ at[m] \in Int /\ p \in Int
    BY <1>1, <1>4, <1>5
  <2> QED BY <1>4, <1>5, <2>1, <2>2
<1> QED BY <1>6 DEF Max

\* Rows as they are joined.
LEMMA JoinedRows ==
  ASSUME NEW ids \in SUBSET Places, \A i \in ids : RowOk(JoinedRow(i))
  PROVE  /\ Cardinality(ids) \in Nat
         /\ RowsOk(Joined(ids), Cardinality(ids))
<1> DEFINE before(j, i) == Features[j].ts < Features[i].ts
                             \/ (Features[j].ts = Features[i].ts /\ j < i)
           R == {p \in ids \X ids : before(p[1], p[2])}
           n == Cardinality(ids)
           to(k) == CHOOSE i \in ids : Cardinality({j \in ids : before(j, i)}) = k - 1
           one(k) == CHOOSE i \in ids : Cardinality({j \in ids : <<j, i>> \in R}) = k - 1
<1>1. \A j, i \in ids : <<j, i>> \in R <=> before(j, i)
  OBVIOUS
<1>2. \A i \in ids : i \in Nat /\ Features[i].ts \in Nat
  BY FeaturesType DEF Places
<1>3. IsFiniteSet(ids)
  BY PlacesFinite
<1> HIDE DEF R
<1>4. \A a \in ids : <<a, a>> \notin R
  BY <1>1, <1>2
<1>5. \A a, b \in ids : a # b => <<a, b>> \in R \/ <<b, a>> \in R
  BY <1>1, <1>2
<1>6. \A a, b, c \in ids : <<a, b>> \in R /\ <<b, c>> \in R => <<a, c>> \in R
  BY <1>1, <1>2
<1>7. n \in Nat /\ ByRank(ids, R) \in [1 .. n -> ids]
  BY <1>3, <1>4, <1>5, <1>6, RankedInOrder
<1>8. \A k \in 1 .. n : to(k) \in ids
  <2>1. \A i \in ids : {j \in ids : <<j, i>> \in R} = {j \in ids : before(j, i)}
    BY <1>1
  <2>2. \A k : one(k) = to(k)
    <3> HIDE DEF before
    <3> QED BY <2>1
  <2>3. ByRank(ids, R) = [k \in 1 .. n |-> one(k)]
    BY DEF ByRank
  <2> HIDE DEF to, one, n
  <2> QED BY <1>7, <2>2, <2>3
<1>9. Joined(ids) = [k \in 1 .. n |-> JoinedRow(to(k))]
  BY DEF Joined
<1> HIDE DEF to, n
<1>10. RowsOk(Joined(ids), n)
  BY <1>8, <1>9 DEF RowsOk
<1> QED BY <1>7, <1>10 DEF n

\* A chart that counts every class of a row or more has a point.
LEMMA PointsShown ==
  ASSUME NEW n \in Nat \ {0}, NEW rows, RowsOk(rows, n), NEW anchor, Tau \in Nat,
         NEW points,
         \A c \in Classes : CallsAt(points, c) = Cardinality(OfClass(rows, n, anchor, c))
  PROVE  points # <<>>
<1> SUFFICES ASSUME points = <<>> PROVE FALSE
  OBVIOUS
<1> DEFINE c == ClassifyRow(rows[1], anchor)
           C == OfClass(rows, n, anchor, c)
<1>1. c \in Classes
  <2>1. RowOk(rows[1])
    BY DEF RowsOk
  <2> QED BY <2>1, ClassesAre
<1>2. 1 \in C
  BY DEF OfClass
<1> HIDE DEF c
<1>3. IsFiniteSet(C) /\ CallsAt(points, c) = Cardinality(C)
  BY <1>1, OfClassFinite
<1>4. Cardinality(C) # 0
  <2> HIDE DEF C
  <2> QED BY <1>2, <1>3, FS_EmptySet
<1>5. CallsAt(points, c) = Total(<<>>)
  <2>1. Column(points, LAMBDA p : p.classes[c]) = <<>>
    BY DEF Column
  <2> QED BY <2>1 DEF CallsAt
<1>6. Total(<<>>) = 0
  <2> DEFINE z == 0
             none == [k \in 1 .. z |-> 0]
             empty == [k \in 1 .. z |-> {}]
  <2>1. Sized(z, empty, none) /\ Disjoint(z, empty) /\ none \in [1 .. z -> Nat] /\ none = <<>>
    BY DEF Sized, Disjoint
  <2>2. Whole1(z, empty) = {} /\ z \in Nat
    BY DEF Whole1
  <2> HIDE DEF none, empty, z
  <2>3. Total(none) = Cardinality(Whole1(z, empty))
    BY <2>1, <2>2, TotalOfParts
  <2> QED BY <2>1, <2>2, <2>3, FS_EmptySet
<1> QED BY <1>3, <1>4, <1>5, <1>6

LEMMA StoryTold ==
  ASSUME GradeIInv, OutcomesStamped, ScoredAndLabelled
  PROVE  OneStory
<1> SUFFICES ASSUME InSegment # {} PROVE OneStory
  BY DEF OneStory
<1> DEFINE ids == {i \in InSegment : Features[i].ts >= Cutoff}
           n == Cardinality(ids)
           rows == WindowRows
           points == TimelinePoints
           split == SplitGraded(rows)
           calls(c) == Total(Column(points, LAMBDA p : p.classes[c]))
           of(c) == Cardinality(OfClass(rows, n, NewestTs, c))
<1>1. Table(predRows) /\ InSegment \subseteq DOMAIN predRows
  BY PredRowsTable DEF InSegment
<1>2. InSegment \in SUBSET Places
  BY <1>1 DEF Table
<1>3. Tau \in Nat
  BY DEF ScoredAndLabelled
<1>4. Cutoff \in Int /\ ids # {}
  <2> DEFINE times == {Features[i].ts : i \in InSegment}
             g == [i \in InSegment |-> Features[i].ts]
  <2>1. IsFiniteSet(InSegment)
    BY <1>2, PlacesFinite
  <2>2. g \in Surjection(InSegment, times)
    BY DEF Surjection
  <2>3. times \subseteq Nat /\ times # {}
    BY <1>2, FeaturesType
  <2>4. NewestTs = Max(times)
    BY DEF NewestTs
  <2> HIDE DEF times, g
  <2>5. IsFiniteSet(times)
    BY <2>1, <2>2, FS_Surjection
  <2>6. NewestTs \in Nat
    BY <2>3, <2>4, <2>5, MostOf
  <2>7. WindowSpan \in Nat
    BY FeaturesType
  <2>8. Cutoff \in Int /\ NewestTs >= Cutoff
    BY <2>6, <2>7 DEF Cutoff
  <2>9. NewestTs \in times
    BY <2>3, <2>4, <2>5, MostOf
  <2>10. PICK i \in InSegment : Features[i].ts = NewestTs
    BY <2>9 DEF times
  <2> QED BY <2>8, <2>10
<1>5. ids \in SUBSET Places /\ ids \subseteq DOMAIN predRows
  BY <1>1, <1>2
<1>6. ASSUME NEW i \in ids PROVE RowOk(JoinedRow(i))
  <2>1. /\ i \in Places /\ predRows[i].at \in Nat /\ Features[i].ts \in Nat
        /\ Features[i].score \in Nat /\ Features[i].spike \in {0, 1}
    BY <1>1, <1>5, FeaturesType DEF Table, ScoredAndLabelled
  <2>2. i \in DOMAIN outRows => outRows[i] \in Nat
    BY DEF OutcomesStamped
  <2> QED BY <2>1, <2>2 DEF JoinedRow, RowOk
<1>7. rows = Joined(ids)
  BY DEF WindowRows
<1> HIDE DEF ids, n
<1>8. n \in Nat \ {0} /\ RowsOk(rows, n)
  <2>1. Cardinality(ids) \in Nat /\ RowsOk(Joined(ids), Cardinality(ids))
    BY <1>5, <1>6, JoinedRows
  <2>2. Cardinality(ids) # 0
    <3>1. IsFiniteSet(ids)
      BY <1>5, PlacesFinite
    <3> QED BY <1>4, <3>1, FS_EmptySet
  <2> QED BY <1>7, <2>1, <2>2 DEF n
<1>9. points = BuildTimeline(rows, Cutoff, NewestTs + 1, NewestTs, None)
  BY DEF TimelinePoints
<1> HIDE DEF rows, points
<1>10. Len(rows) = n
  BY <1>8 DEF RowsOk
<1>11. \A c \in Classes : calls(c) = of(c)
  <2> SUFFICES ASSUME NEW c \in Classes PROVE calls(c) = of(c)
    OBVIOUS
  <2>1. CallsAt(points, c) = Cardinality(OfClass(rows, n, NewestTs, c))
    <3> DEFINE to == NewestTs + 1
    <3>1. points = BuildTimeline(rows, Cutoff, to, NewestTs, None)
      BY <1>9
    <3> HIDE DEF to
    <3> QED BY <1>4, <1>8, <3>1, CallsOf
  <2> QED BY <2>1 DEF CallsAt
<1>12. /\ split.graded = Where(rows, IsGraded)
       /\ Len(split.graded) + split.late + split.unmatched = n
       /\ of("pending") + of("unavailable") = split.late + split.unmatched
  BY <1>3, <1>8, SplitOf
<1>13. ASSUME NEW m \in OfficialMode(split.graded)
       PROVE  m.confusion = [tp |-> of("correct_call"), fp |-> of("false_alarm"),
                             fn |-> of("missed_spike"), tn |-> of("correct_quiet")]
  <2> HIDE DEF split
  <2> QED BY <1>3, <1>8, <1>12, <1>13, ConfusionOf
<1>14. /\ calls("correct_call") = of("correct_call") /\ calls("false_alarm") = of("false_alarm")
       /\ calls("missed_spike") = of("missed_spike") /\ calls("correct_quiet") = of("correct_quiet")
       /\ calls("pending") = of("pending") /\ calls("unavailable") = of("unavailable")
  <2> HIDE DEF calls, of
  <2> QED BY <1>11 DEF Classes
<1>15. rows # <<>> /\ points # <<>>
  <2>1. DOMAIN rows = 1 .. n
    BY <1>8 DEF RowsOk
  <2>2. rows # <<>>
    BY <1>8, <2>1
  <2>3. \A c \in Classes : CallsAt(points, c) = Cardinality(OfClass(rows, n, NewestTs, c))
    BY <1>11 DEF CallsAt
  <2> HIDE DEF of, calls
  <2> QED BY <1>3, <1>8, <2>2, <2>3, PointsShown
<1>16. /\ Len(split.graded) + split.late + split.unmatched = Len(rows)
       /\ \A m \in OfficialMode(split.graded) :
            m.confusion = [tp |-> calls("correct_call"), fp |-> calls("false_alarm"),
                           fn |-> calls("missed_spike"), tn |-> calls("correct_quiet")]
       /\ calls("pending") + calls("unavailable") = split.late + split.unmatched
  <2> HIDE DEF calls, of, split
  <2> QED BY <1>10, <1>12, <1>13, <1>14
<1> QED BY <1>15, <1>16 DEF OneStory, rows, points

\* The timeline and the performance page count the same rows alike, one point
\* for each row or for each bucket: for any features that were all scored,
\* any pruning, and rows that are graded, late or without an outcome.
THEOREM PagesTellOneStory ==
  ASSUME ScoredAndLabelled
  PROVE  GradeSpec => []OneStory
<1>1. GradeInit => OutcomesStamped
  BY StampsStart
<1>2. GradeIInv /\ OutcomesStamped /\ [GradeNext]_gradeVars => OutcomesStamped'
  BY StampsKeep
<1>3. GradeIInv /\ OutcomesStamped => OneStory
  BY StoryTold
<1> QED BY <1>1, <1>2, <1>3, GradeAlways, PTL DEF GradeSpec
=============================================================================
