----------------------- MODULE PackedRecordsRefinement -----------------------
(***************************************************************************)
(* PackedRecords implements AtomicStore: a step of the files that share    *)
(* blocks is one step of the store, or none that the store can see.        *)
(***************************************************************************)
EXTENDS PackedRecordsProofs

\* What the files of a manifest read as when every entry finds its record.
Meaning(m) == [n \in Names |-> IF IsNamed(m, n) THEN m[Find(m, n)].content ELSE Absent]

\* What the entries of a plan make of the files.
Overlay(place, v) ==
    [n \in Names |-> IF IsNamed(place, n) THEN place[Find(place, n)].content ELSE v[n]]

\* A sequence that says one thing of each name, and one that says no more than
\* another does.
Agrees(x)     == \A i, j \in DOMAIN x : x[i].name = x[j].name => x[i].content = x[j].content
Repeats(x, m) == \A k \in DOMAIN x : Tells(x[k], m)

Changes == {"put", "remove"}
Intended ==
    IF job.task \notin Changes THEN Absent
    ELSE IF LastCommit THEN Meaning(entries)
    ELSE Overlay(job.put.place, Meaning(entries))

\* Which operation is where, and what it may do to the files: only a put
\* searches, and what a compaction moves says what the manifest says.
Purpose ==
    /\ ~Mounted \/ pc = "idle" => job = NoJob
    /\ job.task = "remove" => LastCommit
    /\ pc = "search" => job.task = "put"
    /\ pc = "program" /\ job.stage = "final" => job.task = "put"
    /\ LastCommit => job.task \in Changes
    /\ Agrees(job.put.place)
    /\ pc = "program" /\ job.stage = "move" => Repeats(job.move.place, entries)
    /\ pc = "commit" /\ job.stage = "move" => Meaning(job.old) = Meaning(entries)
    /\ Mounted => sb[active].gen = generation

\* The store's variables in terms of manifests.
Reads ==
    /\ Viewed = IF Mounted THEN Meaning(Visible) ELSE Absent
    /\ \A s \in {0, 1} : IsNewest(s) => Durable = Meaning(sb[s].man)
    /\ Wanted = Intended

RInv == Inv /\ Purpose
-----------------------------------------------------------------------------
(* What files read as.                                                     *)

\* The first element of a name says what every one of that name says.
LEMMA FoundSays ==
    ASSUME NEW E, NEW m \in Seq(E), Agrees(m), NEW i \in DOMAIN m
    PROVE  IsNamed(m, m[i].name) /\ m[Find(m, m[i].name)].content = m[i].content
<1>1. IsNamed(m, m[i].name)
  BY DEF IsNamed
<1>2. Find(m, m[i].name) \in DOMAIN m /\ m[Find(m, m[i].name)].name = m[i].name
  BY <1>1, FoundIs
<1>3. QED
  BY <1>1, <1>2 DEF Agrees

\* A manifest says one thing of each name.
LEMMA ManifestAgrees ==
    ASSUME NEW m, Distinct(m)
    PROVE  Agrees(m)
  BY DEF Distinct, Agrees

\* A map of the files is neither missing nor outside the store's maps.
LEMMA MeaningType ==
    ASSUME NEW m \in Seq(Entries)
    PROVE  Meaning(m) \in [Names -> Contents \cup {Absent}] /\ Meaning(m) # Absent
<1>1. ASSUME NEW n \in Names, IsNamed(m, n) PROVE m[Find(m, n)].content \in Contents
  <2>1. Find(m, n) \in DOMAIN m
    BY <1>1, FoundIs
  <2>2. m[Find(m, n)] \in Entries
    BY <2>1
  <2>3. QED
    BY <2>2 DEF Entries
<1>2. Meaning(m) \in [Names -> Contents \cup {Absent}]
  BY <1>1 DEF Meaning
<1>3. QED
  BY <1>2, PackedConstantsAssumption

\* So is what a plan makes of one; it differs only in files it has contents for.
LEMMA OverlayType ==
    ASSUME NEW place \in Seq(Entries), NEW v \in [Names -> Contents \cup {Absent}]
    PROVE  /\ Overlay(place, v) \in [Names -> Contents \cup {Absent}]
           /\ Overlay(place, v) # Absent
           /\ \A n \in Names : Overlay(place, v)[n] # v[n] => Overlay(place, v)[n] \in Contents
<1>1. ASSUME NEW n \in Names, IsNamed(place, n) PROVE place[Find(place, n)].content \in Contents
  <2>1. Find(place, n) \in DOMAIN place
    BY <1>1, FoundIs
  <2>2. place[Find(place, n)] \in Entries
    BY <2>1
  <2>3. QED
    BY <2>2 DEF Entries
<1>2. Overlay(place, v) \in [Names -> Contents \cup {Absent}]
  BY <1>1 DEF Overlay
<1>3. \A n \in Names : Overlay(place, v)[n] # v[n] => Overlay(place, v)[n] \in Contents
  BY <1>1 DEF Overlay
<1>4. QED
  BY <1>2, <1>3, PackedConstantsAssumption

\* Two manifests that say the same of every name mean the same, and a name that
\* neither has is no file of either.
LEMMA MeaningFrom ==
    ASSUME NEW m \in Seq(Entries), Agrees(m), NEW v,
           v = [n \in Names |-> v[n]],
           \A i \in DOMAIN m : m[i].name \in Names => v[m[i].name] = m[i].content,
           \A n \in Names : ~IsNamed(m, n) => v[n] = Absent
    PROVE  Meaning(m) = v
<1>1. ASSUME NEW n \in Names, IsNamed(m, n) PROVE m[Find(m, n)].content = v[n]
  <2>1. Find(m, n) \in DOMAIN m /\ m[Find(m, n)].name = n
    BY <1>1, FoundIs
  <2>2. QED
    BY <2>1
<1>2. QED
  BY <1>1 DEF Meaning

\* Installing a plan does to the files what the plan says.
LEMMA InstallMeaning ==
    ASSUME NEW m \in Manifests, NEW place \in Seq(Entries), Agrees(place),
           NEW first \in Nat
    PROVE  Meaning(Install(m, place, first)) = Overlay(place, Meaning(m))
<1> DEFINE new == Install(m, place, first)
           v == Overlay(place, Meaning(m))
<1>1. m \in Seq(Entries) /\ Distinct(m) /\ Agrees(m)
  BY ManifestAgrees DEF Manifests
<1>2. /\ new \in Seq(Entries) /\ Distinct(new)
      /\ \A i \in DOMAIN new : Stays(new[i], m, place) \/ Comes(new[i], place, first)
      /\ \A q : IsNamed(m, q) \/ IsNamed(place, q) => IsNamed(new, q)
  BY <1>1, InstallEntries
<1> HIDE DEF new
<1>3. ASSUME NEW i \in DOMAIN new, new[i].name \in Names
      PROVE  v[new[i].name] = new[i].content
  <2>1. CASE Stays(new[i], m, place)
    <3>1. PICK j \in DOMAIN m : new[i] = m[j] /\ ~IsNamed(place, m[j].name)
      BY <2>1 DEF Stays
    <3>2. IsNamed(m, m[j].name) /\ m[Find(m, m[j].name)].content = m[j].content
      BY <1>1, FoundSays
    <3>3. QED
      BY <1>3, <3>1, <3>2 DEF Overlay, Meaning
  <2>2. CASE Comes(new[i], place, first)
    <3>1. PICK k \in DOMAIN place : new[i] = At(place[k], first)
      BY <2>2 DEF Comes
    <3>2. place[k] \in Entries
      OBVIOUS
    <3>3. new[i].name = place[k].name /\ new[i].content = place[k].content
      BY <3>1, <3>2, AtIs
    <3>4. IsNamed(place, place[k].name) /\ place[Find(place, place[k].name)].content = place[k].content
      BY FoundSays
    <3>5. QED
      BY <1>3, <3>3, <3>4 DEF Overlay
  <2>3. QED
    BY <1>2, <2>1, <2>2
<1>4. ASSUME NEW n \in Names, ~IsNamed(new, n) PROVE v[n] = Absent
  BY <1>2, <1>4 DEF Overlay, Meaning
<1>5. v = [n \in Names |-> v[n]]
  BY DEF Overlay
<1> HIDE DEF v
<1>6. Meaning(new) = v
  BY <1>2, <1>3, <1>4, <1>5, ManifestAgrees, MeaningFrom
<1>7. QED
  BY <1>6 DEF new, v

\* A plan that repeats what a manifest says does nothing to the files.
LEMMA RepeatsMeaning ==
    ASSUME NEW m \in Manifests, NEW place \in Seq(Entries), Repeats(place, m)
    PROVE  Agrees(place) /\ Overlay(place, Meaning(m)) = Meaning(m)
<1>1. m \in Seq(Entries) /\ Distinct(m) /\ Agrees(m)
  BY ManifestAgrees DEF Manifests
<1>2. Agrees(place)
  BY <1>1 DEF Repeats, Tells, Agrees
<1>3. ASSUME NEW n \in Names, IsNamed(place, n)
      PROVE  place[Find(place, n)].content = Meaning(m)[n]
  <2>1. Find(place, n) \in DOMAIN place /\ place[Find(place, n)].name = n
    BY <1>3, FoundIs
  <2>2. PICK i \in DOMAIN m : /\ m[i].name = n
                              /\ m[i].content = place[Find(place, n)].content
    BY <2>1 DEF Repeats, Tells
  <2>3. IsNamed(m, n) /\ m[Find(m, n)].content = m[i].content
    BY <1>1, <2>2, FoundSays
  <2>4. QED
    BY <2>2, <2>3 DEF Meaning
<1>4. Meaning(m) = [n \in Names |-> Meaning(m)[n]]
  BY DEF Meaning
<1>5. QED
  BY <1>2, <1>3, <1>4 DEF Overlay

\* Without an entry a file is gone, and the others are as they were.
LEMMA RemovedMeaning ==
    ASSUME NEW m \in Manifests, NEW n \in Names, IsNamed(m, n)
    PROVE  Meaning(RemoveAt(m, Find(m, n))) = [Meaning(m) EXCEPT ![n] = Absent]
<1> DEFINE l == Find(m, n)
           r == RemoveAt(m, l)
           v == [Meaning(m) EXCEPT ![n] = Absent]
<1>1. m \in Seq(Entries) /\ Distinct(m) /\ Agrees(m)
  BY ManifestAgrees DEF Manifests
<1>2. l \in DOMAIN m /\ m[l].name = n
  BY <1>1, FoundIs
<1> HIDE DEF l
<1>3. r \in Seq(Entries) /\ Distinct(r) /\ Lists(r, m, DOMAIN m \ {l})
  BY <1>2, Removed DEF Manifests
<1> HIDE DEF r
<1>4. ASSUME NEW k \in DOMAIN r, r[k].name \in Names PROVE v[r[k].name] = r[k].content
  <2>1. PICK j \in DOMAIN m : j # l /\ r[k] = m[j]
    BY <1>3 DEF Lists
  <2>2. m[j].name # n
    BY <1>1, <1>2, <2>1 DEF Distinct
  <2>3. IsNamed(m, m[j].name) /\ m[Find(m, m[j].name)].content = m[j].content
    BY <1>1, FoundSays
  <2>4. QED
    BY <1>4, <2>1, <2>2, <2>3 DEF Meaning
<1>5. ASSUME NEW q \in Names, ~IsNamed(r, q) PROVE v[q] = Absent
  <2>1. CASE q = n
    BY <2>1 DEF Meaning
  <2>2. CASE q # n
    <3>1. ~IsNamed(m, q)
      <4>1. SUFFICES ASSUME NEW j \in DOMAIN m, m[j].name = q PROVE FALSE
        BY DEF IsNamed
      <4>2. j # l
        BY <1>2, <2>2, <4>1
      <4>3. PICK k \in DOMAIN r : r[k] = m[j]
        BY <1>3, <4>2 DEF Lists
      <4>4. QED
        BY <1>5, <4>1, <4>3 DEF IsNamed
    <3>2. QED
      BY <2>2, <3>1 DEF Meaning
  <2>3. QED
    BY <2>1, <2>2
<1>6. v = [q \in Names |-> v[q]]
  BY DEF Meaning
<1> HIDE DEF v
<1>7. Meaning(r) = v
  BY <1>3, <1>4, <1>5, <1>6, ManifestAgrees, MeaningFrom
<1>8. QED
  BY <1>7 DEF r, v, l
-----------------------------------------------------------------------------
(* What plans say.                                                         *)

\* A compaction of the packed blocks repeats what the manifest says.
LEMMA PackPlanRepeats ==
    ASSUME entries \in Seq(Entries), Readable(entries, data)
    PROVE  Repeats(PackPlan.place, entries)
<1> DEFINE S == PackedIn(entries)
           records == Renumbered(RecordsByBlock)
<1>1. S \in SUBSET DOMAIN entries /\ \A i \in S : entries[i] \in Entries /\ IsPacked(entries[i])
  BY DEF PackedIn
<1> HIDE DEF S
<1>2. /\ RecordsByBlock \in Seq(Entries)
      /\ \A k \in DOMAIN RecordsByBlock : \E i \in S : RecordsByBlock[k] = entries[i]
  <2>1. RecordsByBlock = ByBlock(S)
    BY DEF RecordsByBlock, S
  <2>2. QED
    BY <1>1, <2>1, ByBlockElements
<1>3. \A k \in DOMAIN RecordsByBlock : /\ RecordsByBlock[k].name \in Names
                                       /\ RecordsByBlock[k].content \in Small
  <2>1. \A i \in S : entries[i].name \in Names /\ entries[i].content \in Small
    BY <1>1 DEF Entries, IsPacked
  <2>2. QED
    BY <1>2, <2>1
<1>4. /\ records \in Seq(Records) /\ DOMAIN records = DOMAIN RecordsByBlock
      /\ \A k \in DOMAIN RecordsByBlock : /\ records[k].name = RecordsByBlock[k].name
                                          /\ records[k].content = RecordsByBlock[k].content
  <2> DEFINE r == RecordsByBlock
  <2>1. r \in Seq(Entries) /\ \A k \in DOMAIN r : r[k].name \in Names /\ r[k].content \in Small
    BY <1>2, <1>3
  <2>2. records = [k \in DOMAIN r |-> [name |-> r[k].name, id |-> k, content |-> r[k].content]]
    BY DEF Renumbered
  <2> HIDE DEF r, records
  <2>3. /\ DOMAIN records = DOMAIN r
        /\ \A k \in DOMAIN r : /\ records[k].name = r[k].name
                               /\ records[k].content = r[k].content
    BY <2>2
  <2>4. \A k \in DOMAIN r : k \in Nat /\ records[k] \in Records
    BY <2>1, <2>2 DEF Records
  <2>5. records \in Seq(Records)
    BY <2>1, <2>2, <2>4
  <2>6. QED
    BY <2>3, <2>5 DEF r
<1> HIDE DEF records
<1>5. \A p : Among(p, PackPlan.place) => Tells(p, records) \/ Tells(p, <<>>)
  <2>1. NextPackedGeneration \in Nat
    BY NextType
  <2>2. <<>> \in Seq(Entries) /\ DOMAIN <<>> = {}
    OBVIOUS
  <2>3. \A p : Among(p, Plan(NextPackedGeneration, records, <<>>).place)
                 => Tells(p, records) \/ Tells(p, <<>>)
    BY <1>4, <2>1, <2>2, PlanSound
  <2>4. PackPlan = Plan(NextPackedGeneration, records, <<>>)
    BY DEF PackPlan, records
  <2>5. QED
    BY <2>3, <2>4
<1>6. ASSUME NEW p, Tells(p, records) PROVE Tells(p, entries)
  <2>1. PICK k \in DOMAIN records : p.name = records[k].name /\ p.content = records[k].content
    BY <1>6 DEF Tells
  <2>2. PICK i \in S : RecordsByBlock[k] = entries[i]
    BY <1>2, <1>4, <2>1
  <2>3. QED
    BY <1>1, <1>4, <2>1, <2>2 DEF Tells
<1>7. \A p : ~Tells(p, <<>>)
  BY DEF Tells
<1>8. \A k \in DOMAIN PackPlan.place : Among(PackPlan.place[k], PackPlan.place)
  BY Zenon DEF Among
<1>9. QED
  BY <1>5, <1>6, <1>7, <1>8 DEF Repeats

\* So does the move of a large file.
LEMMA FileRepeats ==
    ASSUME NEW i \in DOMAIN entries, entries[i].name \in Names, entries[i].content \in Large
    PROVE  Repeats(Plan(0, <<>>, <<entries[i]>>).place, entries)
<1> DEFINE f == entries[i]
           place == Plan(0, <<>>, <<f>>).place
<1>1. /\ Plan(0, <<>>, <<f>>) = WithFile(NoPlan, f)
      /\ \A p : Among(p, WithFile(NoPlan, f).place)
                   => Among(p, NoPlan.place) \/ (p.name = f.name /\ p.content = f.content)
  <2> HIDE DEF f
  <2>1. f.name \in Names /\ f.content \in Large
    BY DEF f
  <2>2. QED
    BY <2>1, PlanOfFile, NoPlanSound, WithFileSound
<1>2. \A p : ~Among(p, NoPlan.place)
  BY DEF Among, NoPlan
<1>3. \A k \in DOMAIN place : Among(place[k], place)
  BY Zenon DEF Among
<1>4. \A k \in DOMAIN place : place[k].name = f.name /\ place[k].content = f.content
  BY <1>1, <1>2, <1>3
<1> HIDE DEF place
<1>5. Repeats(place, entries)
  BY <1>4, Zenon DEF Repeats, Tells
<1>6. QED
  BY <1>5 DEF place

\* What a put carries is not in its batch, and what it plans says one thing of
\* each name.
FromOld(p, batch) ==
    \E i \in DOMAIN entries : /\ ~IsNamed(batch, entries[i].name)
                              /\ p.name = entries[i].name /\ p.content = entries[i].content
LEMMA PendingFrom ==
    ASSUME entries \in Seq(Entries), NEW batch \in Batches, NEW p,
           Tells(p, Pending(batch)) \/ Tells(p, LargeOf(batch))
    PROVE  FromOld(p, batch) \/ Tells(p, batch)
<1> DEFINE S == {i \in PackedIn(entries) : /\ entries[i].block \in RepackBlocks(batch)
                                           /\ ~IsNamed(batch, entries[i].name)}
           small == SmallOf(batch)
           new == [i \in DOMAIN small |-> [name |-> small[i].name, id |-> NextId + i - 1,
                                           content |-> small[i].content]]
<1>1. batch \in Seq(Files)
  BY PackedConstantsAssumption
<1>2. /\ small \in Seq(Files) /\ \A k \in DOMAIN small : \E i \in DOMAIN batch : small[k] = batch[i]
      /\ \A k \in DOMAIN LargeOf(batch) : \E i \in DOMAIN batch : LargeOf(batch)[k] = batch[i]
  <2>1. /\ small \in Seq(Files)
        /\ Lists(small, batch, PackedIn(batch))
    BY <1>1, SelectedElements DEF SmallOf
  <2>2. Lists(LargeOf(batch), batch, DOMAIN batch \ PackedIn(batch))
    BY <1>1, SelectedElements DEF LargeOf
  <2> HIDE DEF small
  <2>3. QED
    BY <2>1, <2>2, Zenon DEF Lists
<1> HIDE DEF small
<1>3. \A q : Tells(q, small) \/ Tells(q, LargeOf(batch)) => Tells(q, batch)
  BY <1>2, Zenon DEF Tells
<1>4. S \in SUBSET DOMAIN entries /\ \A i \in S : ~IsNamed(batch, entries[i].name)
  BY DEF PackedIn
<1>5. /\ Carried(batch) \in Seq(Entries)
      /\ \A k \in DOMAIN Carried(batch) : \E i \in S : Carried(batch)[k] = entries[i]
  <2>1. Carried(batch) = ByBlock(S)
    BY DEF Carried
  <2> HIDE DEF S
  <2>2. QED
    BY <1>4, <2>1, ByBlockElements
<1> HIDE DEF S
<1>6. \A q : Tells(q, Carried(batch)) => FromOld(q, batch)
  BY <1>4, <1>5, Zenon DEF Tells, FromOld
<1>7. /\ DOMAIN new = DOMAIN small
      /\ \A k \in DOMAIN small : new[k].name = small[k].name /\ new[k].content = small[k].content
  OBVIOUS
<1> DEFINE old == Carried(batch)
<1>8. Pending(batch) = old \o new
  BY DEF Pending, small
<1> DEFINE N == Len(small)
<1>9. N \in Nat /\ DOMAIN new = 1 .. N /\ new = [k \in 1 .. N |-> new[k]]
  BY <1>2
<1> HIDE DEF new, old, N
<1>10. ASSUME NEW k \in DOMAIN (old \o new)
       PROVE  \/ \E j \in DOMAIN old : (old \o new)[k] = old[j]
              \/ \E j \in DOMAIN new : (old \o new)[k] = new[j]
  <2>1. old \in Seq(Entries)
    BY <1>5 DEF old
  <2> DEFINE X == {new[j] : j \in 1 .. N}
  <2>2. new \in Seq(X)
    BY <1>9
  <2> HIDE DEF X
  <2>3. /\ Len(old) \in Nat /\ Len(new) \in Nat
        /\ DOMAIN old = 1 .. Len(old) /\ DOMAIN new = 1 .. Len(new)
        /\ DOMAIN (old \o new) = 1 .. Len(old) + Len(new)
        /\ \A j \in 1 .. Len(old) : (old \o new)[j] = old[j]
        /\ \A j \in 1 .. Len(new) : (old \o new)[Len(old) + j] = new[j]
    BY <2>1, <2>2
  <2>4. CASE k <= Len(old)
    BY <2>3, <2>4
  <2>5. CASE ~(k <= Len(old))
    <3>1. k - Len(old) \in 1 .. Len(new) /\ k = Len(old) + (k - Len(old))
      BY <2>3, <2>5
    <3>2. QED
      BY <2>3, <3>1
  <2>6. QED
    BY <2>4, <2>5
<1>11. ASSUME Tells(p, Pending(batch)) PROVE Tells(p, old) \/ Tells(p, new)
  <2>1. PICK k \in DOMAIN (old \o new) : /\ p.name = (old \o new)[k].name
                                         /\ p.content = (old \o new)[k].content
    BY <1>8, <1>11 DEF Tells
  <2>2. QED
    BY <1>10, <2>1, Zenon DEF Tells
<1>12. Tells(p, new) => Tells(p, small)
  BY <1>7, Zenon DEF Tells
<1>13. QED
  BY <1>3, <1>6, <1>11, <1>12 DEF old

LEMMA PutPlanAgrees ==
    ASSUME entries \in Manifests, NEW batch \in Batches
    PROVE  Agrees(PutPlan(batch).place)
<1> DEFINE place == PutPlan(batch).place
<1>1. entries \in Seq(Entries) /\ Distinct(entries)
  BY DEF Manifests
<1>2. \A p : Among(p, place) => Tells(p, Pending(batch)) \/ Tells(p, LargeOf(batch))
  <2>1. NextPackedGeneration \in Nat /\ Pending(batch) \in Seq(Records)
    BY <1>1, NextType, PendingType
  <2>2. /\ LargeOf(batch) \in Seq(Files)
        /\ \A i \in DOMAIN LargeOf(batch) : /\ LargeOf(batch)[i].name \in Names
                                            /\ LargeOf(batch)[i].content \in Large
    BY BatchParts
  <2>3. QED
    BY <2>1, <2>2, PlanSound DEF PutPlan
<1> HIDE DEF place
<1>3. ASSUME NEW k \in DOMAIN place PROVE FromOld(place[k], batch) \/ Tells(place[k], batch)
  <2>1. Among(place[k], place)
    BY Zenon DEF Among
  <2>2. QED
    BY <1>1, <1>2, <2>1, PendingFrom
<1>4. \A i, j \in DOMAIN batch : batch[i].name = batch[j].name => i = j
  BY PackedConstantsAssumption
<1>5. ASSUME NEW k \in DOMAIN place, NEW l \in DOMAIN place, place[k].name = place[l].name
      PROVE  place[k].content = place[l].content
  <2>1. CASE FromOld(place[k], batch) /\ FromOld(place[l], batch)
    BY <1>1, <1>5, <2>1 DEF FromOld, Distinct
  <2>2. CASE Tells(place[k], batch) /\ Tells(place[l], batch)
    BY <1>4, <1>5, <2>2 DEF Tells
  <2>3. CASE FromOld(place[k], batch) /\ Tells(place[l], batch)
    BY <1>5, <2>3 DEF FromOld, Tells, IsNamed
  <2>4. CASE Tells(place[k], batch) /\ FromOld(place[l], batch)
    BY <1>5, <2>4 DEF FromOld, Tells, IsNamed
  <2>5. QED
    BY <1>3, <2>1, <2>2, <2>3, <2>4
<1>6. QED
  BY <1>5 DEF Agrees, place
-----------------------------------------------------------------------------
(* The store's variables in terms of manifests.                            *)

\* A readable manifest reads as it says.
LEMMA ReadsAs ==
    ASSUME NEW m \in Seq(Entries), Readable(m, data)
    PROVE  ReadBack(m) = Meaning(m)
<1>1. \A n \in Names : IsNamed(m, n) => Resolves(m[Find(m, n)], data)
  BY FoundIs DEF Readable
<1>2. QED
  BY <1>1 DEF ReadBack, Meaning

\* The superblock a mount takes is the one that is newest.
LEMMA NewestChosen ==
    ASSUME sb \in Superblocks, NEW s, IsNewest(s)
    PROVE  s = CHOOSE t \in {0, 1} : IsNewest(t)
<1> DEFINE c == CHOOSE t \in {0, 1} : IsNewest(t)
<1>1. s \in {0, 1}
  BY DEF IsNewest, Valid
<1>2. IsNewest(c) /\ c \in {0, 1}
  BY <1>1
<1> HIDE DEF c
<1>3. \A t \in {0, 1} : sb[t].gen \in Nat
  BY DEF Superblocks
<1>4. s = c
  BY <1>1, <1>2, <1>3 DEF IsNewest
<1>5. QED
  BY <1>4 DEF c

\* Some superblock is the newest.
LEMMA NewestExists ==
    ASSUME sb \in Superblocks, Valid # {}
    PROVE  \E s \in {0, 1} : IsNewest(s)
<1>1. PICK s \in Valid : TRUE
  OBVIOUS
<1>2. \A x \in {0, 1} : sb[x].gen \in Nat
  BY DEF Superblocks
<1>3. CASE 0 \in Valid /\ 1 \in Valid
  BY <1>2, <1>3 DEF IsNewest, Valid
<1>4. CASE ~(0 \in Valid /\ 1 \in Valid)
  BY <1>1, <1>2, <1>4 DEF IsNewest, Valid
<1>5. QED
  BY <1>3, <1>4

\* What the invariant says that the refinement needs.
LEMMA Facts ==
    ASSUME RInv
    PROVE  /\ sb \in Superblocks /\ Valid # {} /\ active \in {0, 1} /\ generation \in Nat
           /\ \A s \in {0, 1} : sb[s].gen \in Nat /\ sb[s].man \in Manifests
           /\ \A s \in Valid : Readable(sb[s].man, data)
           /\ entries \in Manifests /\ entries \in Seq(Entries) /\ Readable(entries, data)
           /\ job \in Jobs /\ job.put.place \in Seq(Entries) /\ job.move.place \in Seq(Entries)
           /\ Mounted => active \in Valid /\ sb[active].man = Committed
  BY DEF RInv, Inv, Types, Usable, BothManifestsResolve, Superblocks, Manifests, Jobs,
     Plans

\* So the store's variables are what the manifests say.
LEMMA ReadsNow == RInv => Reads
<1> SUFFICES ASSUME RInv PROVE Reads
  OBVIOUS
<1>1. Purpose
  BY DEF RInv
<1>2. Viewed = IF Mounted THEN Meaning(Visible) ELSE Absent
  <2>1. ASSUME Mounted PROVE Visible \in Seq(Entries) /\ Readable(Visible, data)
    <3>1. CASE LastCommit
      <4>1. Visible = Committed
        BY <3>1 DEF LastCommit, Visible, Committed
      <4>2. QED
        BY <2>1, <4>1, Facts DEF Manifests, Valid
    <3>2. CASE ~LastCommit
      BY <3>2, Facts DEF Visible
    <3>3. QED
      BY <3>1, <3>2
  <2>2. QED
    BY <2>1, ReadsAs DEF Viewed
<1>3. ASSUME NEW s \in {0, 1}, IsNewest(s)
      PROVE  Durable = Meaning(sb[s].man)
  <2>1. Readable(sb[s].man, data) /\ sb[s].man \in Seq(Entries)
    BY <1>3, Facts DEF IsNewest, Manifests
  <2>2. Durable = ReadBack(sb[s].man)
    BY <1>3, Facts, NewestChosen DEF Durable
  <2>3. QED
    BY <2>1, <2>2, ReadsAs
<1>4. Wanted = Intended
  <2>1. CASE job.task \notin Changes
    BY <2>1 DEF Wanted, Intended, Changes
  <2>2. CASE job.task \in Changes
    <3>1. ReadBack(entries) = Meaning(entries)
      BY Facts, ReadsAs
    <3>2. QED
      BY <2>2, <3>1 DEF Wanted, Intended, Changes, Overlay
  <2>3. QED
    BY <2>1, <2>2
<1>5. QED
  BY <1>2, <1>3, <1>4 DEF Reads

\* And after a step.
LEMMA ReadsNext == RInv' => Reads'
  BY ReadsNow, PTL

\* A state in which the store's variables are known.
Known == RInv /\ Reads

\* With an operation under way, or none, what is committed reads as the view.
LEMMA CommittedIsViewed ==
    ASSUME Known, Mounted
    PROVE  /\ Viewed = Meaning(Visible) /\ Viewed = Meaning(Committed)
           /\ Viewed \in [Names -> Contents \cup {Absent}] /\ Viewed # Absent
<1>1. Purpose /\ Reads /\ RInv
  BY DEF Known, RInv
<1>2. Viewed = Meaning(Visible) /\ Meaning(Committed) = Meaning(Visible)
  BY <1>1 DEF Reads, Purpose, Visible, Committed, LastCommit
<1>3. Committed \in Seq(Entries)
  BY <1>1, Facts DEF Manifests
<1>4. QED
  BY <1>2, <1>3, MeaningType

\* Superblocks that stay leave what a mount would find.
LEMMA DurableStays ==
    ASSUME Known, Reads', sb' = sb
    PROVE  Durable' = Durable
<1>1. PICK s \in {0, 1} : IsNewest(s)
  BY NewestExists, Facts DEF Known
<1>2. IsNewest(s)'
  BY <1>1 DEF IsNewest, Valid
<1>3. Durable = Meaning(sb[s].man) /\ Durable' = Meaning(sb'[s].man)
  BY <1>1, <1>2 DEF Known, Reads
<1>4. QED
  BY <1>3

\* A superblock that is valid and later than every other one is what a mount
\* would find.
LEMMA DurableIs ==
    ASSUME Reads', sb' \in Superblocks, NEW s \in {0, 1}, sb'[s].ok,
           \A t \in {0, 1} : t # s /\ sb'[t].ok => sb'[t].gen < sb'[s].gen
    PROVE  Durable' = Meaning(sb'[s].man)
<1>1. \A t \in {0, 1} : sb'[t].gen \in Nat
  BY DEF Superblocks
<1>2. IsNewest(s)'
  BY <1>1 DEF IsNewest, Valid
<1>3. QED
  BY <1>2 DEF Reads

\* A rewrite of the superblock that is not active, done or cut short, makes the
\* entries durable, or the view, or does nothing.
LEMMA DurableRewritten ==
    ASSUME Known, RInv', Reads', Mounted, sb' \in Rewrites
    PROVE  /\ Durable' \in {Durable, Viewed, Meaning(entries)}
           /\ sb' = [sb EXCEPT ![1 - active] = Image(generation + 1, entries)]
                 => Durable' = Meaning(entries)
<1> DEFINE new == Image(generation + 1, entries)
<1>1. /\ sb \in Superblocks /\ active \in {0, 1} /\ generation \in Nat
      /\ active \in Valid /\ sb[active].man = Committed
      /\ sb[active].gen = generation /\ sb' \in Superblocks
  BY Facts DEF Known, RInv, Purpose, Inv, Types
<1>2. /\ 1 - active \in {0, 1} /\ active # 1 - active
      /\ \A s \in {0, 1} : s \in {active, 1 - active}
  BY <1>1
<1>3. /\ new.ok /\ new.man = entries /\ new.gen = generation + 1
      /\ ~Invalid.ok /\ sb[active].ok
  BY <1>1 DEF Image, Invalid, Valid
<1> HIDE DEF new
<1>4. CASE sb' = [sb EXCEPT ![1 - active] = new]
  <2>1. sb'[1 - active] = new /\ sb'[active] = sb[active]
    BY <1>1, <1>2, <1>4 DEF Superblocks
  <2>2. \A t \in {0, 1} : t # 1 - active /\ sb'[t].ok => sb'[t].gen < sb'[1 - active].gen
    BY <1>1, <1>2, <1>3, <2>1
  <2>3. QED
    BY <1>1, <1>2, <1>3, <2>1, <2>2, DurableIs DEF new
<1>5. CASE sb' = [sb EXCEPT ![1 - active] = Invalid]
  <2>1. sb'[1 - active] = Invalid /\ sb'[active] = sb[active]
    BY <1>1, <1>2, <1>5 DEF Superblocks
  <2>2. \A t \in {0, 1} : t # active /\ sb'[t].ok => sb'[t].gen < sb'[active].gen
    BY <1>2, <1>3, <2>1
  <2>3. Durable' = Meaning(Committed)
    BY <1>1, <1>2, <1>3, <2>1, <2>2, DurableIs
  <2>4. sb' # [sb EXCEPT ![1 - active] = new]
    BY <1>1, <1>2, <1>3, <2>1 DEF Superblocks
  <2>5. QED
    BY <2>3, <2>4, CommittedIsViewed DEF new
<1>6. CASE sb' = sb
  BY <1>4, <1>6, DurableStays DEF new
<1>7. QED
  BY <1>4, <1>5, <1>6 DEF Rewrites, new
-----------------------------------------------------------------------------
(* Steps as steps of the store.                                            *)

Step == [Atomic!StoreNext]_(Atomic!storeVars)

\* An operation that goes on shows the store nothing, unless it makes durable
\* what the files already read as.
LEMMA GoesOn ==
    ASSUME Known, Mounted, Viewed' = Viewed, Wanted' = Wanted,
           Durable' \in {Durable, Viewed}
    PROVE  Step
<1>1. CASE Durable' = Durable
  BY <1>1 DEF Step, Atomic!storeVars
<1>2. CASE Durable' = Viewed
  BY <1>2, CommittedIsViewed DEF Step, Atomic!StoreNext, Atomic!Sync
<1>3. QED
  BY <1>1, <1>2

\* An operation that ends without success leaves the view, and may have become
\* durable.
LEMMA GivesUp ==
    ASSUME Known, Mounted, Viewed' = Viewed, Wanted' = Absent,
           \/ Durable' \in {Durable, Viewed}
           \/ Wanted # Absent /\ Durable' = Wanted
    PROVE  Step
<1>1. CASE Wanted # Absent
  BY <1>1 DEF Step, Atomic!StoreNext, Atomic!Fail
<1>2. CASE Wanted = Absent
  BY <1>2, GoesOn
<1>3. QED
  BY <1>1, <1>2

\* A mount that ends leaves durable what was, or what the files read as, or what
\* the operation wanted.
LEMMA LosesPower ==
    ASSUME Known, Mounted, Viewed' = Absent, Wanted' = Absent,
           \/ Durable' \in {Durable, Viewed}
           \/ Wanted # Absent /\ Durable' = Wanted
    PROVE  Step
  BY CommittedIsViewed DEF Step, Atomic!StoreNext, Atomic!PowerLoss

\* What a step that keeps the operation and the files' meaning leaves as it was.
LEMMA SameView ==
    ASSUME Known, Reads', Mounted, Mounted', ~LastCommit, ~LastCommit',
           job'.task = job.task, job'.put = job.put,
           Meaning(entries') = Meaning(entries)
    PROVE  Viewed' = Viewed /\ Wanted' = Wanted
<1>1. Visible = entries /\ Visible' = entries'
  BY DEF Visible
<1>2. Viewed' = Viewed
  BY <1>1 DEF Known, Reads
<1>3. Intended' = Intended
  BY DEF Intended
<1>4. QED
  BY <1>2, <1>3 DEF Known, Reads

\* What a step that ends the operation leaves.
LEMMA ViewAtReturn ==
    ASSUME Reads', Return
    PROVE  Mounted' /\ Viewed' = Meaning(entries') /\ Wanted' = Absent
<1>1. Mounted' /\ ~LastCommit' /\ job'.task = "none"
  BY DEF Return, Mounted, LastCommit, NoJob
<1>2. QED
  BY <1>1 DEF Reads, Visible, Intended, Changes

\* What a step that ends the mount leaves.
LEMMA ViewAtForget ==
    ASSUME Reads', Forget
    PROVE  Viewed' = Absent /\ Wanted' = Absent
<1>1. ~Mounted' /\ job'.task = "none"
  BY DEF Forget, Mounted, NoJob
<1>2. QED
  BY <1>1 DEF Reads, Intended, Changes

\* The last commit of a change stands between the old files and the new ones.
LEMMA AtLastCommit ==
    ASSUME Known, LastCommit
    PROVE  /\ Mounted /\ Viewed = Meaning(job.old) /\ Wanted = Meaning(entries)
           /\ Wanted # Absent /\ Committed = job.old
<1>1. Purpose /\ Reads /\ entries \in Seq(Entries)
  BY Facts DEF Known, RInv
<1>2. Mounted /\ Visible = job.old /\ Committed = job.old
  BY DEF LastCommit, Mounted, Visible, Committed
<1>3. QED
  BY <1>1, <1>2, MeaningType DEF Purpose, Reads, Intended

\* Elsewhere the files read as the entries say.
LEMMA AtOtherTimes ==
    ASSUME Known, Mounted, ~LastCommit
    PROVE  Viewed = Meaning(entries) /\ Visible = entries
  BY DEF Known, Reads, Visible
-----------------------------------------------------------------------------
(* One lemma per kind of action.  RInv and Reads hold before and after.     *)

\* Mounting is a recovery.
LEMMA StepOpen ==
    ASSUME Known, RInv', Reads', Open
    PROVE  Step
<1>1. PICK s \in {0, 1} : IsNewest(s) /\ entries' = sb[s].man
  BY DEF Open
<1>2. pc = "unmounted" /\ sb' = sb /\ pc' = "idle" /\ job' = job
  BY DEF Open, device
<1>3. job = NoJob
  BY <1>2 DEF Known, RInv, Purpose, Mounted
<1>4. Durable = Meaning(sb[s].man) /\ Durable' = Durable /\ Viewed = Absent
  BY <1>1, <1>2, DurableStays DEF Known, Reads, Mounted
<1>5. Mounted' /\ ~LastCommit' /\ job'.task = "none"
  BY <1>2, <1>3 DEF Mounted, LastCommit, NoJob
<1>6. Viewed' = Durable /\ Wanted' = Absent
  BY <1>1, <1>4, <1>5 DEF Reads, Visible, Intended, Changes
<1>7. QED
  BY <1>4, <1>6 DEF Step, Atomic!StoreNext, Atomic!Recover

\* A clean unmount loses nothing that was viewed.
LEMMA StepClose ==
    ASSUME Known, RInv', Reads', Close
    PROVE  Step
<1>1. Mounted /\ Forget /\ sb' = sb
  BY DEF Close, Mounted, device
<1>2. QED
  BY <1>1, DurableStays, ViewAtForget, LosesPower

\* What a commit that was cut short may leave durable.
LEMMA CutShort ==
    ASSUME Known, RInv', Reads', pc = "commit", sb' \in Rewrites
    PROVE  \/ Durable' \in {Durable, Viewed}
           \/ Wanted # Absent /\ Durable' = Wanted
<1>1. Mounted
  BY DEF Mounted
<1>2. Durable' \in {Durable, Viewed, Meaning(entries)}
  BY <1>1, DurableRewritten
<1>3. CASE LastCommit
  BY <1>2, <1>3, AtLastCommit
<1>4. CASE ~LastCommit
  BY <1>1, <1>2, <1>4, AtOtherTimes
<1>5. QED
  BY <1>3, <1>4

\* A power loss leaves durable what was, what was viewed, or what was wanted.
LEMMA StepCrash ==
    ASSUME Known, RInv', Reads', Crash
    PROVE  Step
<1>1. Mounted /\ Forget /\ (sb' = sb \/ (pc = "commit" /\ sb' \in Rewrites))
  BY DEF Crash, device
<1>2. \/ Durable' \in {Durable, Viewed}
      \/ Wanted # Absent /\ Durable' = Wanted
  BY <1>1, DurableStays, CutShort
<1>3. QED
  BY <1>1, <1>2, ViewAtForget, LosesPower

\* A request begins an operation of the store, if it changes files.
LEMMA Begins ==
    ASSUME Known, Reads', pc = "idle", sb' = sb, Viewed' = Viewed,
           Wanted' \in Atomic!Results(Viewed)
    PROVE  Step
<1>1. job.task = "none" /\ Mounted
  BY DEF Known, RInv, Purpose, NoJob, Mounted
<1>2. Wanted = Absent
  BY <1>1 DEF Known, Reads, Intended, Changes
<1>3. QED
  BY <1>1, <1>2, DurableStays, CommittedIsViewed DEF Step, Atomic!StoreNext, Atomic!Begin

\* A removal falls back to the old entries, and wants the new ones.
LEMMA StepRemoveFile ==
    ASSUME Known, RInv', Reads', NEW n \in Names, RemoveFile(n)
    PROVE  Step
<1>1. /\ pc = "idle" /\ pc' = "commit" /\ sb' = sb /\ IsNamed(entries, n)
      /\ entries' = RemoveAt(entries, Find(entries, n))
      /\ job'.task = "remove" /\ job'.stage = "final" /\ job'.old = entries
  BY DEF RemoveFile, CanStart, NoJob, device
<1>2. Mounted /\ ~LastCommit /\ Mounted' /\ LastCommit' /\ Visible' = entries
  BY <1>1 DEF Mounted, LastCommit, Visible
<1>3. Viewed = Meaning(entries) /\ Viewed' = Viewed /\ Wanted' = Meaning(entries')
  BY <1>1, <1>2, AtOtherTimes DEF Reads, Intended, Changes
<1>4. Wanted' = [Viewed EXCEPT ![n] = Absent]
  BY <1>1, <1>3, RemovedMeaning, Facts DEF Known
<1>5. Wanted' \in Atomic!Results(Viewed)
  <2> DEFINE A == {w \in Atomic!Maps : \A k \in Names : w[k] # Viewed[k] => w[k] \in Contents}
             B == {[Viewed EXCEPT ![k] = Absent] : k \in Names}
             C == {[Viewed EXCEPT ![k] = Absent, ![l] = Viewed[k]] : k, l \in Names}
  <2>1. Wanted' \in B
    BY <1>4
  <2>2. Atomic!Results(Viewed) = (A \cup B) \cup C
    BY DEF Atomic!Results
  <2> HIDE DEF A, B, C
  <2>3. QED
    BY <2>1, <2>2
<1>6. QED
  BY <1>1, <1>3, <1>5, Begins

\* A request to write files.
LEMMA StepPutFiles ==
    ASSUME Known, RInv', Reads', NEW batch \in Batches, PutFiles(batch)
    PROVE  Step
<1>1. /\ pc = "idle" /\ pc' = "search" /\ sb' = sb /\ entries' = entries
      /\ job'.task = "put"
  BY DEF PutFiles, CanStart, NoJob, device, memory
<1>2. Mounted /\ ~LastCommit /\ Mounted' /\ ~LastCommit' /\ Visible' = entries
  BY <1>1 DEF Mounted, LastCommit, Visible
<1>3. Viewed = Meaning(entries) /\ Viewed' = Viewed
  BY <1>2, AtOtherTimes DEF Reads
<1>4. Wanted' = Overlay(job'.put.place, Meaning(entries))
  BY <1>1, <1>2 DEF Reads, Intended, Changes
<1>5. job'.put.place \in Seq(Entries) /\ entries \in Seq(Entries)
  BY Facts DEF Known, RInv, Inv, Types, Jobs, Plans
<1>6. Wanted' \in Atomic!Results(Viewed)
  <2>1. Viewed \in [Names -> Contents \cup {Absent}]
    BY <1>3, <1>5, MeaningType
  <2>2. /\ Wanted' \in [Names -> Contents \cup {Absent}]
        /\ \A k \in Names : Wanted'[k] # Viewed[k] => Wanted'[k] \in Contents
    BY <1>3, <1>4, <1>5, <2>1, OverlayType
  <2>3. QED
    BY <2>2 DEF Atomic!Results, Atomic!Maps
<1>7. QED
  BY <1>1, <1>3, <1>6, Begins

\* A collection changes no file.
LEMMA StepCollect ==
    ASSUME Known, RInv', Reads', NEW task \in {"gc", "compact"}, Collect(task)
    PROVE  Step
<1>1. /\ pc = "idle" /\ pc' = "collect" /\ sb' = sb /\ entries' = entries
      /\ job'.task \in {"gc", "compact"}
  BY DEF Collect, CanStart, NoJob, device, memory
<1>2. job.task = "none"
  BY <1>1 DEF Known, RInv, Purpose, NoJob
<1>3. Mounted /\ ~LastCommit /\ Mounted' /\ ~LastCommit' /\ Visible' = entries
  BY <1>1 DEF Mounted, LastCommit, Visible
<1>4. Viewed' = Viewed /\ Wanted' = Wanted
  BY <1>1, <1>2, <1>3, AtOtherTimes DEF Known, Reads, Intended, Changes
<1>5. QED
  BY <1>1, <1>3, <1>4, DurableStays, GoesOn

\* Steps on the way: searches, plans, failed programs, erases.
LEMMA StepOnTheWay ==
    ASSUME Known, RInv', Reads', Mounted, ~LastCommit, sb' = sb, entries' = entries,
           \/ Return
           \/ /\ job'.task = job.task /\ job'.put = job.put
              /\ ~LastCommit' /\ Mounted'
    PROVE  Step
<1>1. Durable' = Durable
  BY DurableStays
<1>2. CASE Return
  <2>1. Viewed' = Viewed /\ Wanted' = Absent
    BY <1>2, ViewAtReturn, AtOtherTimes
  <2>2. QED
    BY <1>1, <2>1, GivesUp
<1>3. CASE /\ job'.task = job.task /\ job'.put = job.put
           /\ ~LastCommit' /\ Mounted'
  BY <1>1, <1>3, SameView, GoesOn
<1>4. QED
  BY <1>2, <1>3

\* They keep the task of the operation and the plan of its put, or end it.
GoingOn ==
    \/ Return
    \/ /\ job'.task = job.task /\ job'.put = job.put
       /\ ~LastCommit' /\ Mounted'

LEMMA AfterCollectGoesOn ==
    ASSUME job \in Jobs, AfterCollect
    PROVE  GoingOn
  BY DEF AfterCollect, GoingOn, LastCommit, Mounted, Jobs

LEMMA QuietSteps ==
    ASSUME RInv,
           \/ SearchFinds \/ SearchFails \/ ProgramFails \/ CollectScan \/ PackMove
           \/ PackNot \/ CompactMove \/ CompactDone \/ EraseBlocks \/ EraseBlocksFails
    PROVE  /\ pc \in {"search", "program", "collect", "pack", "compact", "erase"}
           /\ sb' = sb /\ entries' = entries
           /\ GoingOn
<1>1. job \in Jobs
  BY Facts
<1>2. CASE SearchFinds
  <2>1. PICK s \in Found(Len(job.put.image)) : job' = [job EXCEPT !.dest = s]
    BY <1>2 DEF SearchFinds
  <2>2. QED
    BY <1>1, <1>2, <2>1 DEF SearchFinds, GoingOn, LastCommit, Mounted, Jobs, device, memory
<1>3. CASE SearchFails
  <2>1. Return \/ (job' = job /\ pc' \in {"collect", "pack"})
    BY <1>3 DEF SearchFails
  <2>2. QED
    BY <1>3, <2>1 DEF SearchFails, GoingOn, LastCommit, Mounted, device, memory
<1>4. CASE ProgramFails
  <2>1. \/ Return
        \/ pc' = "search" /\ job' = [job EXCEPT !.attempt = @ + 1, !.round = 1]
    BY <1>4 DEF ProgramFails
  <2>2. QED
    BY <1>1, <1>4, <2>1 DEF ProgramFails, GoingOn, LastCommit, Mounted, Jobs, memory
<1>5. CASE CollectScan
  <2>1. ASSUME NEW garbage, pc' = "commit",
               job' = [job EXCEPT !.stage = "collect", !.victims = garbage]
        PROVE  GoingOn
    BY <1>1, <2>1 DEF GoingOn, LastCommit, Mounted, Jobs
  <2>2. GoingOn
    BY <1>1, <1>5, <2>1, AfterCollectGoesOn DEF CollectScan
  <2>3. QED
    BY <1>5, <2>2 DEF CollectScan, device, memory
<1>6. CASE PackMove
  <2>1. PICK s : job' = [job EXCEPT !.stage = "move", !.move = PackPlan, !.dest = s,
                                    !.victims = PackedBlocks(entries)]
    BY <1>6 DEF PackMove
  <2>2. job'.task = job.task /\ job'.put = job.put
    BY <1>1, <2>1 DEF Jobs
  <2>3. QED
    BY <1>6, <2>2 DEF PackMove, GoingOn, LastCommit, Mounted, device, memory
<1>7. CASE PackNot
  BY <1>7 DEF PackNot, GoingOn, LastCommit, Mounted, device, memory
<1>8. CASE CompactMove
  <2>1. PICK i \in DOMAIN entries : \E s \in Room(i) :
          job' = [job EXCEPT !.stage = "move", !.move = Plan(0, <<>>, <<entries[i]>>),
                             !.dest = s, !.victims = Span(entries[i])]
    BY <1>8 DEF CompactMove
  <2>2. job'.task = job.task /\ job'.put = job.put
    BY <1>1, <2>1 DEF Jobs
  <2>3. QED
    BY <1>8, <2>2 DEF CompactMove, GoingOn, LastCommit, Mounted, device, memory
<1>9. CASE CompactDone
  <2>1. \/ Return
        \/ pc' = "search" /\ job' = [job EXCEPT !.round = 3, !.stage = "final"]
    BY <1>9 DEF CompactDone
  <2>2. QED
    BY <1>1, <1>9, <2>1 DEF CompactDone, GoingOn, LastCommit, Mounted, Jobs, device, memory
<1>10. CASE EraseBlocks
  <2>1. CASE job.stage = "sync"
    <3>1. /\ pc' = "compact"
          /\ job' = [job EXCEPT !.stage = "none", !.move = NoPlan,
                                !.dest = FirstData, !.victims = {}, !.old = <<>>]
      BY <1>10, <2>1 DEF EraseBlocks
    <3>2. job'.task = job.task /\ job'.put = job.put
      BY <1>1, <3>1 DEF Jobs
    <3>3. QED
      BY <1>10, <3>1, <3>2 DEF EraseBlocks, GoingOn, LastCommit, Mounted, memory
  <2>2. CASE job.stage # "sync"
    <3>1. GoingOn
      BY <1>1, <1>10, <2>2, AfterCollectGoesOn DEF EraseBlocks
    <3>2. QED
      BY <1>10, <3>1 DEF EraseBlocks, memory
  <2>3. QED
    BY <2>1, <2>2
<1>11. CASE EraseBlocksFails
  BY <1>11 DEF EraseBlocksFails, GoingOn, memory
<1>12. QED
  BY <1>2, <1>3, <1>4, <1>5, <1>6, <1>7, <1>8, <1>9, <1>10, <1>11

LEMMA StepQuiet ==
    ASSUME Known, RInv', Reads',
           \/ SearchFinds \/ SearchFails \/ ProgramFails \/ CollectScan \/ PackMove
           \/ PackNot \/ CompactMove \/ CompactDone \/ EraseBlocks \/ EraseBlocksFails
    PROVE  Step
<1>1. /\ pc \in {"search", "program", "collect", "pack", "compact", "erase"}
      /\ sb' = sb /\ entries' = entries
      /\ GoingOn
  BY QuietSteps DEF Known
<1>2. Mounted /\ ~LastCommit
  BY <1>1 DEF Mounted, LastCommit
<1>3. QED
  BY <1>1, <1>2, StepOnTheWay DEF GoingOn

\* What is programmed does to the files what the operation wants, if it is a
\* put, and nothing, if it is a move.
LEMMA Programs ==
    ASSUME RInv, Program
    PROVE  /\ job.stage = "final" => Meaning(entries') = Overlay(job.put.place, Meaning(entries))
           /\ job.stage # "final" => Meaning(entries') = Meaning(entries)
<1>1. /\ entries \in Manifests /\ job \in Jobs /\ job.put.place \in Seq(Entries)
      /\ job.move.place \in Seq(Entries) /\ Purpose /\ job.dest \in Nat
      /\ pc = "program" /\ job.stage \in {"final", "move"}
      /\ entries' = Install(entries, Current.place, job.dest)
  <2>1. job.dest \in FirstData .. EndData
    BY Facts DEF Jobs
  <2>2. job.dest \in Nat
    BY <2>1, PackedConstantsAssumption
  <2>3. QED
    BY <2>2, Facts DEF Program, RInv, Inv, Types
<1>2. CASE job.stage = "final"
  <2>1. Current.place = job.put.place /\ Agrees(job.put.place)
    BY <1>1, <1>2 DEF Current, Purpose
  <2>2. QED
    BY <1>1, <1>2, <2>1, InstallMeaning
<1>3. CASE job.stage = "move"
  <2>1. Current.place = job.move.place /\ Repeats(job.move.place, entries)
    BY <1>1, <1>3 DEF Current, Purpose
  <2>2. /\ Agrees(job.move.place)
        /\ Overlay(job.move.place, Meaning(entries)) = Meaning(entries)
    BY <1>1, <2>1, RepeatsMeaning
  <2>3. QED
    BY <1>1, <1>3, <2>1, <2>2, InstallMeaning
<1>4. QED
  BY <1>1, <1>2, <1>3

\* Programming brings a put to its last commit, and is otherwise not seen.
LEMMA StepProgram ==
    ASSUME Known, RInv', Reads', Program
    PROVE  Step
<1>1. /\ RInv /\ job \in Jobs /\ pc = "program" /\ pc' = "commit" /\ sb' = sb
      /\ job' = [job EXCEPT !.old = entries] /\ job.stage \in {"final", "move"}
  BY Facts DEF Known, RInv, Inv, Types, Program
<1>2. /\ job'.task = job.task /\ job'.put = job.put /\ job'.stage = job.stage
      /\ job'.old = entries
  BY <1>1 DEF Jobs
<1>3. Mounted /\ Mounted' /\ ~LastCommit
  BY <1>1 DEF Mounted, LastCommit
<1>4. Viewed = Meaning(entries) /\ Durable' = Durable
  BY <1>1, <1>3, AtOtherTimes, DurableStays
<1>5. CASE job.stage = "final"
  <2>1. job.task = "put"
    BY <1>1, <1>5 DEF RInv, Purpose
  <2>2. LastCommit' /\ Visible' = entries
    BY <1>1, <1>2, <1>5 DEF LastCommit, Visible
  <2>3. Meaning(entries') = Overlay(job.put.place, Meaning(entries))
    BY <1>1, <1>5, Programs
  <2>4. Viewed' = Viewed
    BY <1>3, <1>4, <2>2 DEF Reads
  <2>5. Wanted' = Wanted
    BY <1>2, <1>3, <2>1, <2>2, <2>3 DEF Known, Reads, Intended, Changes
  <2>6. QED
    BY <1>3, <1>4, <2>4, <2>5, GoesOn
<1>6. CASE job.stage # "final"
  <2>1. Meaning(entries') = Meaning(entries) /\ ~LastCommit'
    BY <1>1, <1>2, <1>6, Programs DEF LastCommit
  <2>2. Viewed' = Viewed /\ Wanted' = Wanted
    BY <1>2, <1>3, <2>1, SameView
  <2>3. QED
    BY <1>3, <1>4, <2>2, GoesOn
<1>7. QED
  BY <1>5, <1>6

\* The last commit of a change finishes it; the others make the view durable.
LEMMA StepCommit ==
    ASSUME Known, RInv', Reads', Commit
    PROVE  Step
<1>1. /\ pc = "commit" /\ entries' = entries /\ job \in Jobs
      /\ sb' = [sb EXCEPT ![1 - active] = Image(generation + 1, entries)]
  BY Facts DEF Commit, Known
<1>2. Mounted /\ sb' \in Rewrites
  BY <1>1 DEF Mounted, Rewrites
<1>3. Durable' = Meaning(entries)
  BY <1>1, <1>2, DurableRewritten
<1>4. CASE job.stage = "final"
  <2>1. Return /\ LastCommit
    BY <1>1, <1>4 DEF Commit, LastCommit
  <2>2. /\ Viewed' = Meaning(entries) /\ Wanted' = Absent
        /\ Wanted = Meaning(entries) /\ Wanted # Absent
    BY <1>1, <2>1, ViewAtReturn, AtLastCommit
  <2>3. QED
    BY <1>3, <2>2 DEF Step, Atomic!StoreNext, Atomic!Finish
<1>5. CASE job.stage # "final"
  <2>1. \/ job' = [job EXCEPT !.stage = "sync"] /\ pc' = "commit"
        \/ job' = job /\ pc' = "erase"
    BY <1>5 DEF Commit
  <2>2. /\ job'.task = job.task /\ job'.put = job.put
        /\ ~LastCommit /\ ~LastCommit' /\ Mounted'
    BY <1>1, <1>5, <2>1 DEF Jobs, LastCommit, Mounted
  <2>3. Viewed' = Viewed /\ Wanted' = Wanted /\ Viewed = Meaning(entries)
    BY <1>1, <1>2, <2>2, SameView, AtOtherTimes
  <2>4. QED
    BY <1>2, <1>3, <2>3, GoesOn
<1>6. QED
  BY <1>4, <1>5

\* A failed commit leaves the view, and may have made its manifest durable.
LEMMA StepCommitFails ==
    ASSUME Known, RInv', Reads', CommitFails
    PROVE  Step
<1>1. /\ pc = "commit" /\ Mounted /\ Return /\ sb' \in Rewrites
      /\ entries' = Committed
  BY DEF CommitFails, Mounted, Committed
<1>2. Viewed' = Viewed /\ Wanted' = Absent
  BY <1>1, ViewAtReturn, CommittedIsViewed
<1>3. QED
  BY <1>1, <1>2, CutShort, GivesUp

\* Every step is a step of the store or a stutter.
LEMMA StepNext ==
    ASSUME RInv, RInv', [Next]_vars
    PROVE  Step
<1>1. Known /\ Reads'
  BY ReadsNow, ReadsNext DEF Known
<1>2. CASE Open \/ Close
  BY <1>1, <1>2, StepOpen, StepClose
<1>3. CASE Request
  BY <1>1, <1>3, StepPutFiles, StepRemoveFile, StepCollect DEF Request
<1>4. CASE Proceed
  BY <1>1, <1>4, StepQuiet, StepProgram, StepCommit DEF Proceed
<1>5. CASE Fault
  BY <1>1, <1>5, StepQuiet, StepCommitFails, StepCrash DEF Fault
<1>6. CASE UNCHANGED vars
  <2>1. Durable' = Durable
    BY <1>1, <1>6, DurableStays DEF vars
  <2>2. Mounted' = Mounted /\ Visible' = Visible /\ Intended' = Intended
    BY <1>6 DEF vars, Mounted, Visible, Intended, LastCommit
  <2>3. Viewed' = Viewed /\ Wanted' = Wanted
    BY <1>1, <2>2 DEF Known, Reads
  <2>4. QED
    BY <2>1, <2>3 DEF Step, Atomic!storeVars
<1>7. QED
  BY <1>2, <1>3, <1>4, <1>5, <1>6 DEF Next
-----------------------------------------------------------------------------
(* Which operation is where, and the refinement.                           *)

\* A formatted filesystem is an empty store.
LEMMA RefinesInit == Init => RInv /\ Atomic!StoreInit
<1> SUFFICES ASSUME Init PROVE RInv /\ Atomic!StoreInit
  OBVIOUS
<1>1. job = NoJob /\ pc = "unmounted" /\ ~Mounted /\ ~LastCommit
  BY DEF Init, Mounted, LastCommit
<1>2. job.task = "none" /\ Agrees(job.put.place)
  BY <1>1 DEF NoJob, NoPlan, Agrees
<1>3. Purpose
  BY <1>1, <1>2 DEF Purpose
<1>4. RInv /\ Reads
  BY <1>3, InvInit, ReadsNow DEF RInv
<1>5. IsNewest(1) /\ sb[1].man = <<>>
  BY DEF Init, IsNewest, Valid, Image, Invalid
<1>6. Durable = [n \in Names |-> Absent]
  BY <1>4, <1>5 DEF Reads, Meaning, IsNamed
<1>7. Viewed = Absent /\ Wanted = Absent
  BY <1>1, <1>2, <1>4 DEF Reads, Intended, Changes
<1>8. QED
  BY <1>4, <1>6, <1>7 DEF Atomic!StoreInit

\* The active superblock is the one of the current generation: it changes with a
\* commit alone, and no rewrite touches it.
LEMMA GenerationNext ==
    ASSUME RInv, [Next]_vars
    PROVE  Mounted' => sb'[active'].gen = generation'
<1>1. /\ sb \in Superblocks /\ active \in {0, 1} /\ generation \in Nat
      /\ Mounted => sb[active].gen = generation
      /\ Types /\ Usable
  BY Facts DEF RInv, Inv, Purpose
<1>2. CASE Open
  BY <1>2 DEF Open, device
<1>3. CASE Forget
  BY <1>3 DEF Forget, Mounted
<1>4. CASE Commit
  BY <1>1, <1>4 DEF Commit, Image, Superblocks
<1>5. CASE CommitFails
  <2>1. sb' \in Rewrites /\ active' = active /\ generation' = generation /\ Mounted
    BY <1>5 DEF CommitFails, Mounted
  <2>2. sb'[active] = sb[active]
    BY <1>1, <2>1, RewritesKept
  <2>3. QED
    BY <1>1, <2>1, <2>2
<1>6. CASE Mounted /\ sb' = sb /\ active' = active /\ generation' = generation
  BY <1>1, <1>6
<1>7. CASE UNCHANGED vars
  BY <1>1, <1>7 DEF vars, Mounted
<1>8. CASE Request
  BY <1>6, <1>8 DEF Request, PutFiles, RemoveFile, Collect, CanStart, Mounted, device, memory
<1>9. CASE Proceed /\ ~Commit
  BY <1>6, <1>9 DEF Proceed, SearchFinds, SearchFails, CollectScan, PackMove, PackNot,
     CompactMove, CompactDone, Program, EraseBlocks, Mounted, device, memory
<1>10. CASE ProgramFails \/ EraseBlocksFails
  BY <1>6, <1>10 DEF ProgramFails, EraseBlocksFails, Mounted, memory
<1>11. QED
  BY <1>2, <1>3, <1>4, <1>5, <1>7, <1>8, <1>9, <1>10 DEF Next, Close, Fault, Crash

\* An operation that has ended has no purpose left.
LEMMA PurposeEnds ==
    ASSUME Mounted' => sb'[active'].gen = generation',
           job' = NoJob, pc' \in {"idle", "unmounted"}
    PROVE  Purpose'
<1>1. job'.task = "none" /\ ~LastCommit' /\ Agrees(job'.put.place)
  BY DEF NoJob, NoPlan, Agrees, LastCommit
<1>2. QED
  BY <1>1 DEF Purpose, Mounted

\* One that is between its programs and commits keeps its task and its put.
LEMMA PurposeGoesOn ==
    ASSUME Mounted' => sb'[active'].gen = generation',
           Agrees(job'.put.place), job'.task # "remove",
           \/ pc' \in {"collect", "pack", "compact", "erase"}
           \/ pc' = "search" /\ job'.task = "put"
           \/ pc' = "commit" /\ job'.stage \in {"collect", "sync"}
    PROVE  Purpose'
<1>1. ~LastCommit' /\ Mounted'
  BY DEF LastCommit, Mounted
<1>2. QED
  BY <1>1 DEF Purpose

\* Every step keeps each operation to its places, and what it plans to what it
\* was asked for.
LEMMA PurposeNext ==
    ASSUME RInv, [Next]_vars
    PROVE  Purpose'
<1>1. /\ job \in Jobs /\ entries \in Manifests /\ entries \in Seq(Entries)
      /\ Readable(entries, data) /\ Purpose /\ Types /\ Agrees(job.put.place)
  BY Facts DEF RInv, Inv, Purpose
<1>2. Mounted' => sb'[active'].gen = generation'
  BY GenerationNext
<1>3. CASE Return
  BY <1>2, <1>3, PurposeEnds DEF Return
<1>4. CASE Open
  <2>1. job' = NoJob /\ pc' = "idle"
    BY <1>1, <1>4 DEF Open, Purpose, Mounted
  <2>2. QED
    BY <1>2, <2>1, PurposeEnds
<1>5. CASE Forget
  BY <1>2, <1>5, PurposeEnds DEF Forget
<1>6. CASE UNCHANGED vars
  <2>1. /\ UNCHANGED <<pc, job, entries>> /\ LastCommit' = LastCommit /\ Mounted' = Mounted
        /\ Meaning(job.old)' = Meaning(job.old) /\ Meaning(entries)' = Meaning(entries)
        /\ Repeats(job.move.place, entries)' = Repeats(job.move.place, entries)
        /\ Agrees(job.put.place)' = Agrees(job.put.place)
    BY <1>6 DEF vars, LastCommit, Mounted
  <2>2. QED
    BY <1>1, <1>2, <2>1 DEF Purpose
<1>7. ASSUME NEW batch \in Batches, PutFiles(batch) PROVE Purpose'
  <2>1. job'.task = "put" /\ job'.put = PutPlan(batch) /\ pc' = "search"
    BY <1>7 DEF PutFiles, NoJob
  <2>2. QED
    BY <1>1, <1>2, <2>1, PutPlanAgrees, PurposeGoesOn
<1>8. ASSUME NEW n \in Names, RemoveFile(n) PROVE Purpose'
  <2>1. /\ job'.task = "remove" /\ job'.stage = "final" /\ job'.put = NoPlan /\ pc' = "commit"
    BY <1>8 DEF RemoveFile, NoJob
  <2>2. LastCommit' /\ Agrees(job'.put.place) /\ Mounted'
    BY <2>1 DEF LastCommit, NoPlan, Agrees, Mounted
  <2>3. QED
    BY <1>2, <2>1, <2>2 DEF Purpose, Changes
<1>9. ASSUME NEW task \in {"gc", "compact"}, Collect(task) PROVE Purpose'
  <2>1. job'.task = task /\ job'.put = NoPlan /\ pc' = "collect"
    BY <1>9 DEF Collect, NoJob
  <2>2. Agrees(job'.put.place)
    BY <2>1 DEF NoPlan, Agrees
  <2>3. QED
    BY <1>2, <2>1, <2>2, PurposeGoesOn
<1>10. CASE SearchFinds
  <2>1. PICK s \in Found(Len(job.put.image)) : job' = [job EXCEPT !.dest = s]
    BY <1>10 DEF SearchFinds
  <2>2. /\ job'.task = job.task /\ job'.put = job.put /\ job'.stage = job.stage
    BY <1>1, <2>1 DEF Jobs
  <2>3. pc = "search" /\ pc' = "program" /\ job.task = "put" /\ job.stage = "final"
    BY <1>1, <1>10 DEF SearchFinds, Purpose, Types
  <2>4. ~LastCommit' /\ Mounted'
    BY <2>3 DEF LastCommit, Mounted
  <2>5. QED
    BY <1>1, <1>2, <2>2, <2>3, <2>4 DEF Purpose
<1>11. CASE SearchFails
  <2>1. Return \/ (job' = job /\ pc' \in {"collect", "pack"} /\ job.task = "put")
    BY <1>1, <1>11 DEF SearchFails, Purpose
  <2>2. QED
    BY <1>1, <1>2, <1>3, <2>1, PurposeGoesOn
<1>12. CASE ProgramFails
  <2>1. \/ Return
        \/ /\ pc' = "search" /\ job' = [job EXCEPT !.attempt = @ + 1, !.round = 1]
           /\ job.task = "put"
    BY <1>1, <1>12 DEF ProgramFails, Purpose
  <2>2. QED
    BY <1>1, <1>2, <1>3, <2>1, PurposeGoesOn DEF Jobs
<1>13. CASE AfterCollect /\ pc \in {"collect", "erase"}
  <2>1. \/ Return
        \/ /\ job.task = "put" /\ pc' = "search"
           /\ job' = [job EXCEPT !.round = 2, !.stage = "final", !.victims = {}]
        \/ /\ job.task = "compact" /\ pc' = "pack"
           /\ job' = [job EXCEPT !.stage = "none", !.victims = {}]
    BY <1>13 DEF AfterCollect
  <2>2. QED
    BY <1>1, <1>2, <1>3, <2>1, PurposeGoesOn DEF Jobs
<1>14. ASSUME pc # "commit" PROVE job.task # "remove"
  BY <1>1, <1>14 DEF Purpose, LastCommit
<1>15. CASE CollectScan
  <2>1. ASSUME NEW garbage, pc' = "commit",
               job' = [job EXCEPT !.stage = "collect", !.victims = garbage]
        PROVE  Purpose'
    <3>1. job'.task = job.task /\ job'.put = job.put /\ job'.stage = "collect"
      BY <1>1, <2>1 DEF Jobs
    <3>2. job.task # "remove"
      BY <1>14, <1>15 DEF CollectScan
    <3>3. QED
      BY <1>1, <1>2, <2>1, <3>1, <3>2, PurposeGoesOn
  <2>2. QED
    BY <1>13, <1>15, <2>1 DEF CollectScan
<1>16. CASE PackMove
  <2>1. PICK s : job' = [job EXCEPT !.stage = "move", !.move = PackPlan, !.dest = s,
                                    !.victims = PackedBlocks(entries)]
    BY <1>16 DEF PackMove
  <2>2. /\ job'.task = job.task /\ job'.put = job.put /\ job'.stage = "move"
        /\ job'.move = PackPlan
    BY <1>1, <2>1 DEF Jobs
  <2>3. pc' = "program" /\ entries' = entries /\ job.task # "remove"
    BY <1>14, <1>16 DEF PackMove, memory
  <2>4. Repeats(job'.move.place, entries') /\ Agrees(job'.put.place)
    BY <1>1, <2>2, <2>3, PackPlanRepeats
  <2>5. ~LastCommit' /\ Mounted'
    BY <2>3 DEF LastCommit, Mounted
  <2>6. QED
    BY <1>2, <2>2, <2>3, <2>4, <2>5 DEF Purpose
<1>17. CASE PackNot
  <2>1. job' = job /\ pc' = "compact" /\ job.task # "remove"
    BY <1>14, <1>17 DEF PackNot
  <2>2. QED
    BY <1>1, <1>2, <2>1, PurposeGoesOn
<1>18. CASE CompactMove
  <2>1. PICK i \in DOMAIN entries : \E s \in Room(i) :
          job' = [job EXCEPT !.stage = "move", !.move = Plan(0, <<>>, <<entries[i]>>),
                             !.dest = s, !.victims = Span(entries[i])]
    BY <1>18 DEF CompactMove
  <2>2. /\ job'.task = job.task /\ job'.put = job.put /\ job'.stage = "move"
        /\ job'.move = Plan(0, <<>>, <<entries[i]>>)
    BY <1>1, <2>1 DEF Jobs
  <2>3. pc' = "program" /\ entries' = entries /\ job.task # "remove"
    BY <1>14, <1>18 DEF CompactMove, memory
  <2>4. entries[i].name \in Names /\ entries[i].content \in Large
    <3>1. entries[i] \in Entries
      BY <1>1
    <3>2. ~IsPacked(entries[i])
      BY <2>1 DEF Room
    <3>3. QED
      BY <3>1, <3>2 DEF Entries, IsPacked, Contents
  <2>5. Repeats(job'.move.place, entries') /\ Agrees(job'.put.place)
    BY <1>1, <2>2, <2>3, <2>4, FileRepeats
  <2>6. ~LastCommit' /\ Mounted'
    BY <2>3 DEF LastCommit, Mounted
  <2>7. QED
    BY <1>2, <2>2, <2>3, <2>5, <2>6 DEF Purpose
<1>19. CASE CompactDone
  <2>1. \/ Return
        \/ /\ pc' = "search" /\ job' = [job EXCEPT !.round = 3, !.stage = "final"]
           /\ job.task = "put"
    BY <1>19 DEF CompactDone
  <2>2. QED
    BY <1>1, <1>2, <1>3, <2>1, PurposeGoesOn DEF Jobs
<1>20. CASE Program
  <2>1. /\ pc = "program" /\ pc' = "commit" /\ job' = [job EXCEPT !.old = entries]
        /\ job.stage \in {"final", "move"}
    BY <1>1, <1>20 DEF Program, Types
  <2>2. /\ job'.task = job.task /\ job'.put = job.put /\ job'.stage = job.stage
        /\ job'.old = entries /\ Mounted'
    BY <1>1, <2>1 DEF Jobs, Mounted
  <2>3. job.task # "remove" /\ (LastCommit' <=> job.stage = "final")
    BY <1>14, <2>1, <2>2 DEF LastCommit
  <2>4. job.stage = "final" => job.task \in Changes
    BY <1>1, <2>1 DEF Purpose, Changes
  <2>5. job.stage = "move" => Meaning(job'.old) = Meaning(entries')
    BY <1>20, <2>2, Programs
  <2>6. QED
    BY <1>1, <1>2, <2>1, <2>2, <2>3, <2>4, <2>5 DEF Purpose
<1>21. CASE Commit
  <2>1. CASE job.stage = "final"
    BY <1>3, <1>21, <2>1 DEF Commit
  <2>2. CASE job.stage # "final"
    <3>1. pc = "commit" /\ job.stage \in {"move", "collect", "sync"} /\ job.task # "remove"
      BY <1>1, <1>21, <2>2 DEF Commit, Types, Jobs, Purpose, LastCommit
    <3>2. \/ job' = [job EXCEPT !.stage = "sync"] /\ pc' = "commit"
          \/ job' = job /\ pc' = "erase"
      BY <1>21, <2>2 DEF Commit
    <3>3. job'.task = job.task /\ job'.put = job.put /\ (pc' = "commit" => job'.stage = "sync")
      BY <1>1, <3>2 DEF Jobs
    <3>4. QED
      BY <1>1, <1>2, <3>1, <3>2, <3>3, PurposeGoesOn
  <2>3. QED
    BY <2>1, <2>2
<1>22. CASE EraseBlocks
  <2>1. pc = "erase" /\ job.task # "remove"
    BY <1>14, <1>22 DEF EraseBlocks
  <2>2. CASE job.stage = "sync"
    <3>1. /\ pc' = "compact"
          /\ job' = [job EXCEPT !.stage = "none", !.move = NoPlan,
                                !.dest = FirstData, !.victims = {}, !.old = <<>>]
      BY <1>22, <2>2 DEF EraseBlocks
    <3>2. job'.task = job.task /\ job'.put = job.put
      BY <1>1, <3>1 DEF Jobs
    <3>3. QED
      BY <1>1, <1>2, <2>1, <3>1, <3>2, PurposeGoesOn
  <2>3. CASE job.stage # "sync"
    BY <1>13, <1>22, <2>1, <2>3 DEF EraseBlocks
  <2>4. QED
    BY <2>2, <2>3
<1>23. QED
  BY <1>3, <1>4, <1>5, <1>6, <1>7, <1>8, <1>9, <1>10, <1>11, <1>12, <1>15, <1>16,
     <1>17, <1>18, <1>19, <1>20, <1>21, <1>22
     DEF Next, Close, Request, Proceed, Fault, Crash, CommitFails, EraseBlocksFails

\* live::Filesystem is an atomic store for the small files that share blocks, too:
\* a put happens as a whole or not at all, through failed calls and power losses,
\* and the records it copies along, the ones that a collection leaves, and the ones
\* that a compaction moves and renumbers, read as before at every step.
THEOREM PackedFilesAreAtomic == Spec => ImplementsAtomicStore
<1>1. Init => RInv /\ Atomic!StoreInit
  BY RefinesInit
<1>2. RInv /\ [Next]_vars => RInv'
  BY InvStep, PurposeNext DEF RInv
<1>3. RInv /\ RInv' /\ [Next]_vars => [Atomic!StoreNext]_(Atomic!storeVars)
  BY StepNext DEF Step
<1>4. QED
  BY <1>1, <1>2, <1>3, PTL DEF Spec, ImplementsAtomicStore, Atomic!StoreSpec
=============================================================================
