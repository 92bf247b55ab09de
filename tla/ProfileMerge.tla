----------------------------- MODULE ProfileMerge ------------------------------
(* internal/pprof/profile/merge.go. profileMerger is a record: the profile p   *)
(* it builds and the tables from the IDs of the source it reads to entries of  *)
(* p. Its other tables, from keys to entries, hold exactly the entries of p    *)
(* and are searches in it.                                                     *)
EXTENDS Profile

CONSTANT PageSize       \* mapsizeRounding

NoIDs == [id \in {} |-> Nil]
Entered(byID, id, value) ==
    [k \in DOMAIN byID \cup {id} |-> IF k = id THEN value ELSE byID[k]]

(* key of a Mapping: the size in whole pages, the offset and one of the names. *)
Pages(m) == (m.limit - m.start + PageSize - 1) \div PageSize
SameRegion(m1, m2) == Pages(m1) = Pages(m2) /\ m1.offset = m2.offset
ByBuild(mappings, m) ==
    IF m.build = "" THEN 0
    ELSE SelectInSeq(mappings, LAMBDA x : SameRegion(x, m) /\ x.build = m.build)
ByFile(mappings, m) ==
    IF m.file = "" THEN 0
    ELSE SelectInSeq(mappings, LAMBDA x : SameRegion(x, m) /\ x.file = m.file)

(* Mutant: IDs count from 0. *)
IDFromZero(table) == Len(table)

(* The ID of the next entry of a table of p. *)
NewID(table) == Len(table) + 1

(* mapMapping of a mapping that is not nil; the mapInfo is left in the table.  *)
KnownMapping(mappings, m) ==
    IF ByBuild(mappings, m) # 0 THEN ByBuild(mappings, m) ELSE ByFile(mappings, m)
ReuseMapping(pm, m, known) ==
    [pm EXCEPT !.mappingsByID =
        Entered(@, m.id, [m |-> known, offset |-> pm.p.mappings[known].start - m.start])]
NewMapping(pm, m, id) ==
    [pm EXCEPT !.mappingsByID = Entered(@, m.id, [m |-> Len(pm.p.mappings) + 1, offset |-> 0]),
               !.p.mappings = Append(@, [m EXCEPT !.id = id])]
FindMapping(pm, m, known) ==
    IF known # 0 THEN ReuseMapping(pm, m, known) ELSE NewMapping(pm, m, NewID(pm.p.mappings))
MapMapping(pm, m) ==
    IF m.id \in DOMAIN pm.mappingsByID THEN pm
    ELSE FindMapping(pm, m, KnownMapping(pm.p.mappings, m))

(* mapFunction; a function's key is all of it but its ID. *)
KnownFunction(functions, f) ==
    SelectInSeq(functions, LAMBDA x : x.name = f.name /\ x.file = f.file)
FindFunction(pm, f, known) ==
    IF known # 0
    THEN [pm EXCEPT !.functionsByID = Entered(@, f.id, known)]
    ELSE [pm EXCEPT !.functionsByID = Entered(@, f.id, Len(pm.p.functions) + 1),
                    !.p.functions = Append(@, [f EXCEPT !.id = NewID(pm.p.functions)])]
MapFunction(pm, f) ==
    IF f.id \in DOMAIN pm.functionsByID THEN pm
    ELSE FindFunction(pm, f, KnownFunction(pm.p.functions, f))

(* key of a Location of p: its address in its mapping, the mapping, its lines. *)
LocationKey(p, l) ==
    [address |-> IF l.mapping = Nil THEN l.address ELSE l.address - p.mappings[l.mapping].start,
     mapping |-> l.mapping,
     lines   |-> l.lines]

(* The mapping and the functions of a location, and then its counterpart.      *)
WithReferences(pm, src, l) ==
    FoldLeft(LAMBDA acc, ln : IF ln.function = Nil THEN acc
                              ELSE MapFunction(acc, src.functions[ln.function]),
             IF l.mapping = Nil THEN pm ELSE MapMapping(pm, src.mappings[l.mapping]),
             l.lines)
MapInfo(pm, src, l) ==
    IF l.mapping = Nil THEN [m |-> Nil, offset |-> 0]
    ELSE pm.mappingsByID[src.mappings[l.mapping].id]
LineCounterpart(pm, src, ln) ==
    [ln EXCEPT !.function = IF @ = Nil THEN Nil ELSE pm.functionsByID[src.functions[@].id]]
Counterpart(pm, src, l) ==
    [id      |-> NewID(pm.p.locations),
     mapping |-> MapInfo(pm, src, l).m,
     address |-> l.address + MapInfo(pm, src, l).offset,
     lines   |-> [i \in DOMAIN l.lines |-> LineCounterpart(pm, src, l.lines[i])]]

(* mapLocation. *)
KnownLocation(p, new) ==
    SelectInSeq(p.locations, LAMBDA x : LocationKey(p, x) = LocationKey(p, new))
FindLocation(pm, l, new, known) ==
    IF known # 0
    THEN [pm EXCEPT !.locationsByID = Entered(@, l.id, known)]
    ELSE [pm EXCEPT !.locationsByID = Entered(@, l.id, Len(pm.p.locations) + 1),
                    !.p.locations = Append(@, new)]
AddLocation(pm, l, new) == FindLocation(pm, l, new, KnownLocation(pm.p, new))
AddCounterpart(pm, src, l) == AddLocation(pm, l, Counterpart(pm, src, l))
MapLocation(pm, src, l) ==
    IF l.id \in DOMAIN pm.locationsByID THEN pm
    ELSE AddCounterpart(WithReferences(pm, src, l), src, l)

(* Mutant: a sample that is there already is not added to. *)
NotAdded(values, more) == values

(* mapSample; a sample's key is its locations and its labels. *)
Added(values, more) == [i \in DOMAIN values |-> values[i] + more[i]]
SameKey(s, t) == [s EXCEPT !.values = t.values] = t
FindSample(pm, s, known) ==
    IF known # 0
    THEN [pm EXCEPT !.p.samples[known].values = Added(@, s.values)]
    ELSE [pm EXCEPT !.p.samples = Append(@, s)]
AddMapped(pm, s) == FindSample(pm, s, SelectInSeq(pm.p.samples, LAMBDA x : SameKey(x, s)))
AddSampleOf(pm, src, s) ==
    AddMapped(pm, [s EXCEPT !.locations =
        [i \in DOMAIN @ |-> pm.locationsByID[src.locations[@[i]].id]]])
MapSample(pm, src, s) ==
    AddSampleOf(FoldLeft(LAMBDA acc, l : MapLocation(acc, src, src.locations[l]), pm, s.locations),
                src, s)

IsZeroSample(s) == \A i \in DOMAIN s.values : s.values[i] = 0

--------------------------------------------------------------------------------

(* compatible *)
Compatible(p, q) == p.periodType = q.periodType /\ p.types = q.types

(* combineHeaders *)
CombineHeaders(srcs) ==
    LET Earliest(time, s) == IF time = 0 \/ s.time < time THEN s.time ELSE time
        Longest(period, s) == IF period = 0 \/ period < s.period THEN s.period ELSE period
    IN [srcs[1] EXCEPT
            !.samples = <<>>, !.mappings = <<>>, !.locations = <<>>, !.functions = <<>>,
            !.time = FoldLeft(Earliest, 0, srcs),
            !.duration = FoldLeft(LAMBDA total, s : total + s.duration, 0, srcs),
            !.period = FoldLeft(Longest, 0, srcs)]

(* The mapping Merge takes first, while the merger knows no name of any: that  *)
(* of the first profile, whichever it is reading.                              *)
NoNames(mappings) == \A m \in ToSet(mappings) : m.build = "" /\ m.file = ""
WithMainBinary(pm, srcs, src) ==
    IF NoNames(pm.p.mappings) /\ src.mappings # <<>>
    THEN MapMapping(pm, srcs[1].mappings[1]) ELSE pm

(* One pass of Merge over its sources, with tables that are new for each. *)
WithFreshTables(pm) ==
    [pm EXCEPT !.locationsByID = NoIDs, !.functionsByID = NoIDs, !.mappingsByID = NoIDs]
MergeSource(pm, srcs, src) ==
    FoldLeft(LAMBDA acc, s : IF IsZeroSample(s) THEN acc ELSE MapSample(acc, src, s),
             WithMainBinary(WithFreshTables(pm), srcs, src), src.samples)
NewMerger(srcs) ==
    [p |-> CombineHeaders(srcs),
     locationsByID |-> NoIDs, functionsByID |-> NoIDs, mappingsByID |-> NoIDs]
MergeOnce(srcs) ==
    FoldLeft(LAMBDA pm, src : MergeSource(pm, srcs, src), NewMerger(srcs), srcs).p

(* Mutant: no second pass. *)
MergeInOnePass(srcs) == MergeOnce(srcs)

(* Merge: once more if samples cancelled out. The samples of a merged profile  *)
(* differ in their keys, so a second pass adds none up and is the last.        *)
WithoutZeroSamples(merged) ==
    IF \E s \in ToSet(merged.samples) : IsZeroSample(s) THEN MergeOnce(<<merged>>) ELSE merged
Merge(srcs) == WithoutZeroSamples(MergeOnce(srcs))
Compact(p) == Merge(<<p>>)

(* srcs[0].Mapping[0] is out of range: the first profile has no mappings and   *)
(* a later one does.                                                           *)
MergePanics(srcs) == srcs[1].mappings = <<>> /\ \E src \in ToSet(srcs) : src.mappings # <<>>
================================================================================
