-------------------------------- MODULE Profile --------------------------------
(* Values of internal/pprof/profile/profile.go and the operations that read,   *)
(* check and rewrite one of them. A profile is a record of tables; a pointer   *)
(* to a mapping, location or function is its index in the table, nil is 0. On  *)
(* the wire an entry refers to another by its ID instead, and labels are a     *)
(* sequence. A name, a file or a type with its unit is a string, the symbol    *)
(* flags of a mapping are a set, a regular expression is the set of names it   *)
(* matches, a sample type's ratio is a fraction.                               *)
EXTENDS Integers, Sequences, SequencesExt

CONSTANTS
    Libraries,      \* files massageMappings does not take for the main binary
    FuncForPC       \* address -> what the runtime knows of it: name, file, line

(* What is not named has the empty name; the provers have to be told that a    *)
(* literal is a string.                                                        *)
ASSUME EmptyName == "" \in STRING

Nil == 0

(* The entries of the tables, on the wire and as pointers. *)
Mappings == [id : Nat, start : Int, limit : Int, offset : Int,
             file : STRING, build : STRING, has : SUBSET STRING]
Functions == [id : Nat, name : STRING, file : STRING]
Lines == [function : Nat, line : Int]
Locations == [id : Nat, mapping : Nat, address : Int, lines : Seq(Lines)]

(* What a decoded message is made of. *)
IsMessage(w) ==
    /\ {"types", "samples", "mappings", "functions", "locations"} \subseteq DOMAIN w
    /\ w.types \in Seq(STRING)
    /\ w.mappings \in Seq(Mappings) /\ w.functions \in Seq(Functions) /\ w.locations \in Seq(Locations)
    /\ w.samples \in Seq(ToSet(w.samples))
    /\ \A s \in ToSet(w.samples) :
        /\ {"locations", "values", "labels"} \subseteq DOMAIN s
        /\ s.locations \in Seq(Nat) /\ s.values \in Seq(Int)

(* A profile in memory: pointers are nil or point to what is in the tables. *)
IsProfile(p) ==
    /\ IsMessage(p)
    /\ \A s \in ToSet(p.samples) :
        /\ "numLabels" \in DOMAIN s
        /\ ToSet(s.locations) \subseteq {Nil} \cup DOMAIN p.locations
    /\ \A l \in ToSet(p.locations) :
        /\ l.mapping \in {Nil} \cup DOMAIN p.mappings
        /\ \A ln \in ToSet(l.lines) : ln.function \in {Nil} \cup DOMAIN p.functions

(* The entry with this ID: of several, the last one written to mappingIds,     *)
(* locationIds or functionIds; nil when there is none.                         *)
Lookup(table, id) == SelectLastInSeq(table, LAMBDA x : x.id = id)

(* A Go map of slices from a sequence of key and value, in their order. *)
ByKey(pairs) ==
    [k \in {pairs[i].key : i \in DOMAIN pairs} |->
        LET ofKey == SelectSeq(pairs, LAMBDA x : x.key = k)
        IN [i \in DOMAIN ofKey |-> ofKey[i].value]]

(* The string labels of a sample on the wire, and the numeric ones. A label    *)
(* whose string is the empty one and whose number is 0 is neither.             *)
StringLabels(wire) ==
    LET labels == SelectSeq(wire, LAMBDA x : x.str # "")
    IN ByKey([i \in DOMAIN labels |-> [key |-> labels[i].key, value |-> labels[i].str]])
NumberLabels(wire) ==
    LET labels == SelectSeq(wire, LAMBDA x : x.str = "" /\ x.num # 0)
    IN ByKey([i \in DOMAIN labels |-> [key |-> labels[i].key, value |-> labels[i].num]])

(* postDecode: IDs become pointers. *)
DecodedLine(wire, ln) ==
    [ln EXCEPT !.function = IF @ = 0 THEN Nil ELSE Lookup(wire.functions, @)]
DecodedLocation(wire, l) ==
    [l EXCEPT !.mapping = Lookup(wire.mappings, @),
              !.lines = [j \in DOMAIN @ |-> DecodedLine(wire, @[j])]]
DecodedSample(wire, s) ==
    [locations |-> [j \in DOMAIN s.locations |-> Lookup(wire.locations, s.locations[j])],
     values    |-> s.values,
     labels    |-> StringLabels(s.labels),
     numLabels |-> NumberLabels(s.labels)]
PostDecode(wire) ==
    [wire EXCEPT
        !.locations = [i \in DOMAIN @ |-> DecodedLocation(wire, @[i])],
        !.samples = [i \in DOMAIN @ |-> DecodedSample(wire, @[i])]]

(* Mutant: the place in the table instead of the ID. *)
PlaceOf(table, pointer) == pointer

(* preEncode: pointers become IDs, and the two maps of labels one sequence.    *)
(* The code sorts the keys; the order of different keys is lost again by       *)
(* postDecode, so any will do.                                                 *)
IDOf(table, pointer) == IF pointer = Nil THEN 0 ELSE table[pointer].id

Pairs(labels) ==
    LET keys == SetToSeq(DOMAIN labels)
    IN FlattenSeq([i \in DOMAIN keys |->
            [j \in DOMAIN labels[keys[i]] |-> [key |-> keys[i], value |-> labels[keys[i]][j]]]])
WireLabels(s) ==
    LET strings == Pairs(s.labels)
        numbers == Pairs(s.numLabels)
    IN [i \in DOMAIN strings |-> [key |-> strings[i].key, str |-> strings[i].value, num |-> 0]]
       \o [i \in DOMAIN numbers |-> [key |-> numbers[i].key, str |-> "", num |-> numbers[i].value]]
EncodedLine(p, ln) == [ln EXCEPT !.function = IDOf(p.functions, @)]
EncodedLocation(p, l) ==
    [l EXCEPT !.mapping = IDOf(p.mappings, @), !.lines = [j \in DOMAIN @ |-> EncodedLine(p, @[j])]]
EncodedSample(p, s) ==
    [locations |-> [j \in DOMAIN s.locations |-> IDOf(p.locations, s.locations[j])],
     values    |-> s.values,
     labels    |-> WireLabels(s)]
PreEncode(p) ==
    [p EXCEPT
        !.locations = [i \in DOMAIN @ |-> EncodedLocation(p, @[i])],
        !.samples = [i \in DOMAIN @ |-> EncodedSample(p, @[i])]]

(* Copy, which is also what Write and Parse do to a valid profile. *)
Copy(p) == PostDecode(PreEncode(p))

--------------------------------------------------------------------------------

(* CheckValid, its checks in groups: the samples fit the types and have no nil *)
(* location; IDs are positive and unique; what a location refers to is in the  *)
(* tables, which a pointer that is an index always is.                         *)
SamplesValid(p) ==
    /\ p.types = <<>> => p.samples = <<>>
    /\ \A s \in ToSet(p.samples) :
        /\ Len(s.values) = Len(p.types)
        /\ Nil \notin ToSet(s.locations)
IDsValid(table) ==
    /\ \A x \in ToSet(table) : x.id # 0
    /\ \A i, j \in DOMAIN table : table[i].id = table[j].id => i = j
ReferencesValid(p) ==
    \A l \in ToSet(p.locations) :
        /\ l.mapping \in {Nil} \cup DOMAIN p.mappings
        /\ \A ln \in ToSet(l.lines) : ln.function \in {Nil} \cup DOMAIN p.functions
CheckValid(p) ==
    /\ SamplesValid(p)
    /\ IDsValid(p.mappings) /\ IDsValid(p.functions) /\ IDsValid(p.locations)
    /\ ReferencesValid(p)

(* ParseData: a message whose strings are out of the string table, like any    *)
(* other the decoder rejects, goes to the legacy parsers, which do not know    *)
(* it; what is decoded has to be valid.                                        *)
Parses(wire) == ~wire.malformed /\ CheckValid(PostDecode(wire))
Parse(wire) == PostDecode(wire)

--------------------------------------------------------------------------------

(* Aggregate; keep is the set of the attributes given as true. *)
AggregatedMapping(m, keep) == [m EXCEPT !.has = @ \cap keep]
AggregatedFunction(f, keep) ==
    [f EXCEPT !.name = IF "functions" \in keep THEN @ ELSE "",
              !.file = IF "filenames" \in keep THEN @ ELSE ""]
AggregatedLine(ln, keep) == [ln EXCEPT !.line = IF "lines" \in keep THEN @ ELSE 0]
AggregatedLocation(l, keep) ==
    LET lines == IF "inlines" \notin keep /\ Len(l.lines) > 1 THEN <<Last(l.lines)>> ELSE l.lines
    IN [l EXCEPT !.lines = [j \in DOMAIN lines |-> AggregatedLine(lines[j], keep)],
                 !.address = IF "addresses" \in keep THEN @ ELSE 0]
Aggregate(p, keep) ==
    [p EXCEPT
        !.mappings = [i \in DOMAIN @ |-> AggregatedMapping(@[i], keep)],
        !.functions = [i \in DOMAIN @ |-> AggregatedFunction(@[i], keep)],
        !.locations = [i \in DOMAIN @ |-> AggregatedLocation(@[i], keep)]]

(* ScaleN: int64(float64(v) * ratio) cuts towards zero. *)
Truncated(n, d) == IF n < 0 THEN -((-n) \div d) ELSE n \div d
ScaledSample(s, ratios) ==
    [s EXCEPT !.values = [j \in DOMAIN @ |-> Truncated(@[j] * ratios[j].num, ratios[j].den)]]
ScaleN(p, ratios) == [p EXCEPT !.samples = [i \in DOMAIN @ |-> ScaledSample(@[i], ratios)]]

(* adjacent: two entries of one mapping that has been split. *)
Adjacent(m1, m2) ==
    /\ m1.file # "" /\ m2.file # "" => m1.file = m2.file
    /\ m1.build # "" /\ m2.build # "" => m1.build = m2.build
    /\ m1.limit = m2.start
    /\ m1.offset # 0 /\ m2.offset # 0 => m1.offset + (m1.limit - m1.start) = m2.offset

(* The first loop of massageMappings: the mappings that are left, and for each *)
(* old mapping the one that took it over (updateLocationMapping).              *)
Named(new, old) == IF new # "" THEN new ELSE old
Extended(old, m) ==
    [old EXCEPT !.limit = m.limit, !.file = Named(m.file, @), !.build = Named(m.build, @)]
Join(acc, m) ==
    IF acc.kept # <<>> /\ Adjacent(Last(acc.kept), m)
    THEN [kept |-> [acc.kept EXCEPT ![Len(acc.kept)] = Extended(@, m)],
          into |-> Append(acc.into, Len(acc.kept))]
    ELSE [kept |-> Append(acc.kept, m), into |-> Append(acc.into, Len(acc.kept) + 1)]
Joined(mappings) == FoldLeft(Join, [kept |-> <<>>, into |-> <<>>], mappings)

(* massageMappings: join, move the main binary to the top, renumber. *)
MassageMappings(p) ==
    LET joined == Joined(p.mappings)
        main == SelectInSeq(joined.kept, LAMBDA m : m.file \notin Libraries \cup {""})
        Place(i) == IF main = 0 THEN i ELSE IF i = main THEN 1 ELSE IF i = 1 THEN main ELSE i
        Moved(l) == [l EXCEPT !.mapping = IF @ = Nil THEN Nil ELSE Place(joined.into[@])]
    IN [p EXCEPT
            !.mappings = [i \in DOMAIN joined.kept |-> [joined.kept[Place(i)] EXCEPT !.id = i]],
            !.locations = [i \in DOMAIN @ |-> Moved(@[i])]]

--------------------------------------------------------------------------------

(* symbolizeProfile of internal/cpu_reporter.go: locations without lines get   *)
(* the function the runtime knows at their address, one new function for each  *)
(* name, numbered from the length of the table.                                *)
Unsymbolized(l) == l.address # 0 /\ l.lines = <<>> /\ l.address \in DOMAIN FuncForPC
NewNames(p) ==
    LET Add(names, l) == IF Unsymbolized(l) /\ FuncForPC[l.address].name \notin ToSet(names)
                         THEN Append(names, FuncForPC[l.address].name) ELSE names
    IN FoldLeft(Add, <<>>, p.locations)
SymbolizeProfile(p) ==
    LET names == NewNames(p)
        File(name) == LET l == SelectInSeq(p.locations, LAMBDA x :
                                Unsymbolized(x) /\ FuncForPC[x.address].name = name)
                      IN FuncForPC[p.locations[l].address].file
        Known(m) == \E l \in ToSet(p.locations) : Unsymbolized(l) /\ l.mapping = m
        old == Len(p.functions)
    IN [p EXCEPT
            !.functions = @ \o [i \in DOMAIN names |->
                [id |-> old + i, name |-> names[i], file |-> File(names[i])]],
            !.locations = [i \in DOMAIN @ |->
                IF Unsymbolized(@[i])
                THEN LET known == FuncForPC[@[i].address]
                     IN [@[i] EXCEPT !.lines = <<
                            [function |-> old + SelectInSeq(names, LAMBDA n : n = known.name),
                             line |-> known.line]>>]
                ELSE @[i]],
            !.mappings = [i \in DOMAIN @ |->
                IF Known(i) THEN [@[i] EXCEPT !.has = @ \cup {"functions", "filenames", "lines"}]
                ELSE @[i]]]
================================================================================
