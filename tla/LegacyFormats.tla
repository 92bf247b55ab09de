----------------------------- MODULE LegacyFormats -----------------------------
(* internal/pprof/profile/legacy_profile.go and legacy_java_profile.go: the     *)
(* parsers of the formats before profile.proto, and the memory map that follows *)
(* the samples in most of them.                                              *)
(*                                                                              *)
(* A text is a sequence of lines, and a line a record of its kind and what the  *)
(* regular expression for that kind takes out of it.  The words of a binary CPU *)
(* profile are one line of kind "words", since a text follows them.  A parser   *)
(* returns a profile and the error "", or another error.                        *)
EXTENDS Profile, FiniteSets

CONSTANTS
    MaxAddress,      \* 2^64 - 1
    ExpectedStart,   \* where a main binary is expected to be loaded
    SimilarSamples,  \* of so many samples one may lack the signal handler's frame
    FrameRegexps,    \* alloc, allocSkip, lock and cpu: names of frames to drop or keep
    Weight(_, _, _)  \* count, size, rate -> the fraction 1 / (1 - exp(-(size/count)/rate))

ASSUME LegacyAssumption ==
    /\ MaxAddress \in Nat /\ ExpectedStart \in 0..MaxAddress /\ SimilarSamples \in Nat /\ SimilarSamples > 2
    /\ DOMAIN FrameRegexps = {"alloc", "allocSkip", "lock", "cpu"}

(* What is read of a text: addresses have 64 bits, and a region of a memory map *)
(* ends where it begins or later, and before the last of them. A parser looks   *)
(* at a first line.                                                             *)
Addressable == 0..MaxAddress
LineFits(l) ==
    /\ l.kind \in {"count", "heap", "pair"} => "addrs" \in DOMAIN l
    /\ "addrs" \in DOMAIN l => l.addrs \in Seq(Addressable)
    /\ l.kind = "map" =>
        /\ l.start \in Addressable /\ l.limit \in 0..MaxAddress - 1 /\ l.start <= l.limit
        /\ l.offset \in Int
    /\ l.kind = "words" =>
        /\ l.records \in Seq(ToSet(l.records))
        /\ \A r \in ToSet(l.records) : r.stack \in Seq(Addressable)
IsText(lines) == lines # <<>> /\ lines \in Seq(ToSet(lines)) /\ \A l \in ToSet(lines) : LineFits(l)

(* Addresses are unsigned: 0 - 1 is the largest. *)
Minus(a, b) == (a - b) % (MaxAddress + 1)

WithoutRepeats(seq) ==
    FoldLeft(LAMBDA seen, x : IF Contains(seen, x) THEN seen ELSE Append(seen, x), <<>>, seq)
Place(seq, x) == SelectInSeq(seq, LAMBDA y : y = x)

From(lines, i) == SubSeq(lines, i, Len(lines))
(* The first line with such a property, or the place after the last line. *)
FirstPlace(lines, Test(_)) ==
    LET i == SelectInSeq(lines, Test) IN IF i = 0 THEN Len(lines) + 1 ELSE i

IsSpaceOrComment(l) == l.kind \in {"blank", "comment"}
WithoutComments(lines) ==
    FoldLeft(LAMBDA rest, l : IF IsSpaceOrComment(l) THEN rest ELSE Append(rest, l), <<>>, lines)
IsMemoryMapSentinel(l) == l.kind \in {"memory map", "mapped libraries"}
Dashed(l) ==
    l.kind \in {"memory map", "section", "threadz", "thread", "no stack trace", "mutex", "contentionz", "heapz"}
Addresses(l) == IF "addrs" \in DOMAIN l THEN l.addrs ELSE <<>>

Unrecognized == [error |-> "unrecognized"]
Malformed    == [error |-> "malformed"]
Panic        == [error |-> "panic"]
Parsed(p)    == [error |-> "", profile |-> p]

NewProfile(types, periodType, period) ==
    [malformed |-> FALSE, types |-> types, periodType |-> periodType, period |-> period,
     time |-> 0, duration |-> 0, drop |-> {}, keep |-> {},
     mappings |-> <<>>, functions |-> <<>>, locations |-> <<>>, samples |-> <<>>]

NoLabels == [k \in {} |-> <<>>]
Stack(addrs, values) == [stack |-> addrs, values |-> values, numLabels |-> NoLabels]

(* The address of a call, from that of the instruction after it. *)
OfCalls(addrs) == [i \in DOMAIN addrs |-> Minus(addrs[i], 1)]
OfCallers(addrs) == [i \in DOMAIN addrs |-> IF i > 1 THEN Minus(addrs[i], 1) ELSE addrs[i]]

(* One location for each address, made when it is first seen. *)
WithStacks(p, stacks) ==
    LET seen == WithoutRepeats(FlattenSeq([i \in DOMAIN stacks |-> stacks[i].stack]))
    IN [p EXCEPT
            !.locations = [i \in DOMAIN seen |-> [id |-> 0, mapping |-> Nil, address |-> seen[i], lines |-> <<>>]],
            !.samples = [i \in DOMAIN stacks |->
                [locations |-> [j \in DOMAIN stacks[i].stack |-> Place(seen, stacks[i].stack[j])],
                 values    |-> stacks[i].values,
                 labels    |-> NoLabels,
                 numLabels |-> stacks[i].numLabels]]]
-------------------------------------------------------------------------------
(* What no sample, or no location, refers to is left out, the rest numbered.    *)
RemapLocationIDs(p) ==
    LET used == WithoutRepeats(FlattenSeq([i \in DOMAIN p.samples |-> p.samples[i].locations]))
    IN [p EXCEPT
            !.locations = [i \in DOMAIN used |-> [p.locations[used[i]] EXCEPT !.id = i]],
            !.samples = [i \in DOMAIN @ |->
                [@[i] EXCEPT !.locations = [j \in DOMAIN @ |-> Place(used, @[j])]]]]
UsedFunctions(p) ==
    LET lines == FlattenSeq([i \in DOMAIN p.locations |-> p.locations[i].lines])
    IN WithoutRepeats(SelectSeq([i \in DOMAIN lines |-> lines[i].function], LAMBDA f : f # Nil))
WithFunctions(l, used) ==
    [l EXCEPT !.lines = [j \in DOMAIN l.lines |-> [l.lines[j] EXCEPT !.function = Place(used, @)]]]
RemapFunctionIDs(p) ==
    LET used == UsedFunctions(p)
    IN [p EXCEPT
            !.functions = [i \in DOMAIN used |-> [p.functions[used[i]] EXCEPT !.id = i]],
            !.locations = [i \in DOMAIN @ |-> WithFunctions(@[i], used)]]

(* Two heuristics on the first mapping. *)
WithoutHugePage(mappings) ==
    IF Len(mappings) > 1 /\ mappings[1].file = "/anon_hugepage" /\ mappings[1].limit = mappings[2].start
    THEN Tail(mappings) ELSE mappings
FromExpectedStart(mappings) ==
    IF mappings # <<>> /\ Minus(mappings[1].start, mappings[1].offset) = ExpectedStart
    THEN [mappings EXCEPT ![1] = [@ EXCEPT !.start = ExpectedStart, !.offset = 0]] ELSE mappings

FakeMapping ==
    [id |-> 1, start |-> 0, limit |-> MaxAddress, offset |-> 0, file |-> "", build |-> "", has |-> {}]
InMapping(m, a) == m.start <= a /\ a < m.limit
(* The first part of a mapping in two adjacent ranges was not encoded. *)
BeginsBefore(m, a) == m.offset # 0 /\ Minus(m.start, m.offset) <= a /\ a < m.start
FromFirstPart(m) == [m EXCEPT !.start = Minus(m.start, m.offset), !.offset = 0]
WithFirstPart(p, m) == [p EXCEPT !.mappings[m] = FromFirstPart(@)]

(* Mutant: the mapping that takes the location keeps its range. *)
MapLocationAsIs(acc, i) ==
    LET a      == acc.p.locations[i].address
        within == SelectInSeq(acc.p.mappings, LAMBDA m : InMapping(m, a) \/ BeginsBefore(m, a))
        Mapped(p, m) == [p EXCEPT !.locations[i].mapping = m]
    IN IF a = 0 \/ acc.p.locations[i].mapping # Nil THEN acc
       ELSE IF within # 0 THEN [acc EXCEPT !.p = Mapped(@, within)]
       ELSE IF acc.fake # Nil THEN [acc EXCEPT !.p = Mapped(@, acc.fake)]
       ELSE [p    |-> Mapped([acc.p EXCEPT !.mappings = Append(@, FakeMapping)], Len(acc.p.mappings) + 1),
             fake |-> Len(acc.p.mappings) + 1]

(* The mapping of one location: the one it is in, the one whose first part it   *)
(* is in, which begins there from now on, or one made up.                       *)
MapAddress(acc, i) ==
    LET a      == acc.p.locations[i].address
        within == SelectInSeq(acc.p.mappings, LAMBDA m : InMapping(m, a))
        before == SelectInSeq(acc.p.mappings, LAMBDA m : BeginsBefore(m, a))
        Mapped(p, m) == [p EXCEPT !.locations[i].mapping = m]
    IN IF a = 0 \/ acc.p.locations[i].mapping # Nil THEN acc
       ELSE IF within # 0 THEN [acc EXCEPT !.p = Mapped(@, within)]
       ELSE IF before # 0
       THEN [acc EXCEPT !.p = Mapped(WithFirstPart(@, before), before)]
       ELSE IF acc.fake # Nil THEN [acc EXCEPT !.p = Mapped(@, acc.fake)]
       ELSE [p    |-> Mapped([acc.p EXCEPT !.mappings = Append(@, FakeMapping)], Len(acc.p.mappings) + 1),
             fake |-> Len(acc.p.mappings) + 1]

RemapMappingIDs(p) ==
    LET prepared == [p EXCEPT !.mappings = FromExpectedStart(WithoutHugePage(@))]
        mapped   == FoldLeft(MapAddress, [p |-> prepared, fake |-> Nil], [i \in DOMAIN p.locations |-> i]).p
    IN [mapped EXCEPT !.mappings = [i \in DOMAIN @ |-> [@[i] EXCEPT !.id = i]]]

(* The lines of a memory map: mappings, of which only the executable ones       *)
(* count, assignments of an attribute, the first of which replaces it from then *)
(* on, and lines nobody knows.                                                  *)
FileOf(attrs, l) == IF l.attr \in DOMAIN attrs THEN attrs[l.attr] ELSE l.file
ParseProcMaps(lines) ==
    LET Add(acc, l) ==
            IF l.kind = "map" /\ l.executable
            THEN [acc EXCEPT !.mappings = Append(@,
                    [id |-> 0, start |-> l.start, limit |-> l.limit, offset |-> l.offset,
                     file |-> FileOf(acc.attrs, l), build |-> l.build, has |-> {}])]
            ELSE IF l.kind = "attribute" /\ l.key \notin DOMAIN acc.attrs
            THEN [acc EXCEPT !.attrs = [k \in DOMAIN @ \cup {l.key} |-> IF k = l.key THEN l.value ELSE @[k]]]
            ELSE acc
    IN FoldLeft(Add, [mappings |-> <<>>, attrs |-> NoLabels], lines).mappings

ParseMemoryMap(p, lines) ==
    RemapMappingIDs(RemapFunctionIDs(RemapLocationIDs(MassageMappings(
        [p EXCEPT !.mappings = @ \o ParseProcMaps(lines)]))))

(* Whatever comes before the memory map is skipped, and no map at all is one    *)
(* without mappings.                                                            *)
ParseAdditionalSections(p, lines) ==
    ParseMemoryMap(p, From(lines, FirstPlace(lines, IsMemoryMapSentinel) + 1))
-------------------------------------------------------------------------------
(* Profiles of counts, of goroutines or threads made. *)
ParseGoCount(text) ==
    LET header  == FirstPlace(text, LAMBDA l : ~IsSpaceOrComment(l))
        rest    == From(text, header + 1)
        end     == FirstPlace(rest, Dashed)
        rows    == WithoutComments(SubSeq(rest, 1, end - 1))
        type    == text[header].type
        stacks  == [i \in DOMAIN rows |-> Stack(OfCalls(rows[i].addrs), <<rows[i].count>>)]
    IN IF header > Len(text) \/ text[header].kind # "count profile" THEN Unrecognized
       ELSE IF \E l \in ToSet(rows) : l.kind # "count" THEN Malformed
       ELSE Parsed(ParseAdditionalSections(WithStacks(NewProfile(<<type>>, type, 1), stacks), From(rest, end)))

(* Heap profiles.  The header says whether a sample counts allocations as well, *)
(* and how the samples were taken.                                           *)
HasAlloc(header) ==
    \/ header.alloc[1] \notin {header.inuse[1], 0}
    \/ header.alloc[2] \notin {header.inuse[2], 0}
Sampling(header) ==
    CASE header.kind = "growth"                      -> [v2 |-> FALSE, period |-> 1, known |-> TRUE]
      [] header.format \in {"heapz_v2", "heap_v2"}   -> [v2 |-> TRUE, period |-> header.rate, known |-> TRUE]
      [] header.format = "heapprofile"               -> [v2 |-> FALSE, period |-> 1, known |-> TRUE]
      [] header.format = "heap"                      -> [v2 |-> TRUE, period |-> header.rate \div 2, known |-> TRUE]
      [] OTHER                                       -> [v2 |-> FALSE, period |-> 0, known |-> FALSE]

ScaleHeapSample(count, size, rate) ==
    IF count = 0 \/ size = 0 THEN <<0, 0>>
    ELSE IF rate <= 1 THEN <<count, size>>
    ELSE LET w == Weight(count, size, rate)
         IN <<Truncated(count * w.num, w.den), Truncated(size * w.num, w.den)>>

(* int64 division, with the signs of a count and its size, which are the same. *)
BlockSize(count, size) == IF count < 0 THEN (-size) \div (-count) ELSE size \div count
HeapValues(pair, sampling) ==
    IF sampling.v2 /\ pair[1] # 0 THEN ScaleHeapSample(pair[1], pair[2], sampling.period) ELSE pair
HeapSample(l, sampling, hasAlloc) ==
    LET pairs    == IF hasAlloc THEN <<l.alloc, l.inuse>> ELSE <<l.inuse>>
        counting == SelectLastInSeq(pairs, LAMBDA pair : pair[1] # 0)
        size     == IF counting = 0 THEN 0 ELSE BlockSize(pairs[counting][1], pairs[counting][2])
    IN [stack     |-> OfCalls(l.addrs),
        values    |-> FlattenSeq([i \in DOMAIN pairs |-> HeapValues(pairs[i], sampling)]),
        numLabels |-> [k \in {"bytes"} |-> <<size>>]]
HeapSampleFits(l, hasAlloc) ==
    /\ l.kind = "heap"
    /\ \A pair \in {l.inuse} \cup (IF hasAlloc THEN {l.alloc} ELSE {}) : pair[1] = 0 => pair[2] = 0

AllocTypes == <<"alloc_objects", "alloc_space", "inuse_objects", "inuse_space">>
ParseHeap(text) ==
    LET header   == text[1]
        hasAlloc == header.kind = "heap profile" /\ HasAlloc(header)
        sampling == Sampling(header)
        rest     == Tail(text)
        end      == FirstPlace(rest, IsMemoryMapSentinel)
        rows     == WithoutComments(SubSeq(rest, 1, end - 1))
        stacks   == [i \in DOMAIN rows |-> HeapSample(rows[i], sampling, hasAlloc)]
    IN IF header.kind \notin {"heap profile", "growth"} \/ ~sampling.known THEN Unrecognized
       ELSE IF \E l \in ToSet(rows) : ~HeapSampleFits(l, hasAlloc) THEN Malformed
       ELSE Parsed(ParseAdditionalSections(
                WithStacks(NewProfile(IF hasAlloc THEN AllocTypes ELSE <<"objects", "space">>, "space", sampling.period),
                           stacks),
                From(rest, end)))

(* Contention profiles, of C++ and of Go.  Attributes come first; hertz are in  *)
(* units of 10^9.  What a later assignment says of one attribute holds.         *)
Value(attributes, key, default) ==
    LET i == SelectLastInSeq(attributes, LAMBDA l : l.key = key) IN IF i = 0 THEN default ELSE attributes[i].value
ContentionAttributes == {"cycles/second", "sampling period", "ms since reset", "discarded samples"}
Million == 1000000

ContentionSample(l, period, gigahertz) ==
    LET delay == IF period > 0 /\ gigahertz > 0 THEN (l.first * period) \div gigahertz ELSE l.first
        count == IF period > 0 THEN l.second * period ELSE l.second
    IN Stack(OfCalls(l.addrs), <<count, delay>>)
ParseContention(text) ==
    LET rest       == Tail(text)
        begin      == FirstPlace(rest, LAMBDA l : ~IsSpaceOrComment(l) /\ l.kind # "attribute")
        attributes == WithoutComments(SubSeq(rest, 1, begin - 1))
        end        == begin - 1 + FirstPlace(From(rest, begin), Dashed)
        rows       == WithoutComments(SubSeq(rest, begin, end - 1))
        period     == Value(attributes, "sampling period", 1)
        stacks     == [i \in DOMAIN rows |->
                        ContentionSample(rows[i], period, Value(attributes, "cycles/second", 0))]
        empty      == [NewProfile(<<"contentions", "delay">>, "contentions", period) EXCEPT
                        !.duration = Value(attributes, "ms since reset", 0) * Million]
    IN IF \/ text[1].kind \notin {"contentionz", "mutex"}
          \/ \E l \in ToSet(attributes) : l.key \notin ContentionAttributes
          \/ \E l \in ToSet(rows) : l.kind # "pair"
       THEN Unrecognized
       ELSE Parsed(ParseAdditionalSections(WithStacks(empty, stacks), From(rest, end)))
-------------------------------------------------------------------------------
(* The leaf may be there twice, the second time adjusted like a caller. *)
CleanupDuplicateLocations(p) ==
    LET Address(s, i) == p.locations[s.locations[i]].address
        Duplicate(s) == Len(s.locations) > 1 /\ Address(s, 1) = (Address(s, 2) + 1) % (MaxAddress + 1)
    IN [p EXCEPT !.samples = [i \in DOMAIN @ |->
            IF Duplicate(@[i]) THEN [@[i] EXCEPT !.locations = RemoveAt(@, 2)] ELSE @[i]]]

(* Profiles of threads.  A thread ends where the next line with dashes begins,  *)
(* and one without addresses is the same as the one before.                     *)
(* Mutant: a thread that is the same as the one before is not counted. *)
AddThreadOnce(stacks, addrs) ==
    IF addrs # <<>> THEN Append(stacks, Stack(OfCallers(addrs), <<1>>)) ELSE stacks

AddThread(stacks, addrs) ==
    IF addrs # <<>> THEN Append(stacks, Stack(OfCallers(addrs), <<1>>))
    ELSE IF stacks = <<>> THEN stacks
    ELSE [stacks EXCEPT ![Len(stacks)].values[1] = @ + 1]

ParseThreadSample(lines) ==
    IF \E l \in ToSet(lines) : l.kind = "same as previous" THEN <<>>
    ELSE FlattenSeq([i \in DOMAIN lines |-> Addresses(lines[i])])

(* The lines from the first thread on: the threads are between the dashed lines *)
(* before the end, which is the first that is no thread, or a last line that is *)
(* a sentinel without dashes.                                                   *)
ThreadLines(text) ==
    LET header == FirstPlace(text, LAMBDA l : ~IsSpaceOrComment(l))
        rest   == From(text, header + 1)
    IN IF header > Len(text) THEN <<>>
       ELSE CASE text[header].kind = "threadz" ->
                    From(rest, FirstPlace(rest, LAMBDA l : IsMemoryMapSentinel(l) \/ Dashed(l)))
              [] text[header].kind = "thread"  -> From(text, header)
              [] OTHER                         -> <<>>
EndOfThreads(lines) ==
    IF IsMemoryMapSentinel(lines[1]) THEN 1
    ELSE LET i == FirstPlace(lines, LAMBDA l : Dashed(l) /\ l.kind # "thread")
         IN IF i > Len(lines) /\ ~IsMemoryMapSentinel(Last(lines)) THEN Nil ELSE i
ThreadStarts(lines, end) ==
    FoldLeft(LAMBDA starts, i : IF lines[i].kind = "thread" THEN Append(starts, i) ELSE starts,
             <<>>, [i \in 1..end - 1 |-> i])
ThreadsBetween(lines, borders) ==
    [k \in 1..Len(borders) - 1 |-> ParseThreadSample(SubSeq(lines, borders[k] + 1, borders[k + 1] - 1))]
ThreadProfile(addrs) == WithStacks(NewProfile(<<"thread">>, "thread", 1), FoldLeft(AddThread, <<>>, addrs))
ParseThreads(lines, end) ==
    IF end = Nil \/ (end <= Len(lines) /\ lines[end].kind # "no stack trace" /\ ~IsMemoryMapSentinel(lines[end]))
    THEN Unrecognized
    ELSE Parsed(CleanupDuplicateLocations(ParseAdditionalSections(
            ThreadProfile(ThreadsBetween(lines, Append(ThreadStarts(lines, end), end))), From(lines, end))))
ParseThread(text) ==
    LET lines == ThreadLines(text)
    IN IF lines = <<>> THEN Unrecognized ELSE ParseThreads(lines, EndOfThreads(lines))
-------------------------------------------------------------------------------
(* Binary CPU profiles: five words, records of a count and a stack up to the    *)
(* marker, and the memory map.  Words are what the first of four decoders that  *)
(* reads a header takes them for, 0 where the last stack ends too early; they   *)
(* are cut if a record has no count, no size or less than half of its stack.    *)
EndOfData(r) == r.count = 0 /\ r.stack = <<0>>
ParseCPUSamples(words, adjust, p) ==
    LET end == FirstPlace(words.records, EndOfData)
        StackOf(r) == Stack(IF adjust THEN OfCallers(r.stack) ELSE r.stack, <<r.count, r.count * p.period>>)
    IN [i \in 1..end - 1 |-> StackOf(words.records[i])]
Cut(words) == words.cut /\ FirstPlace(words.records, EndOfData) > Len(words.records)

(* The signal handler's frame, second in most samples. *)
StripCommonFrame(stacks) ==
    LET Second(a) == {i \in DOMAIN stacks : Len(stacks[i].stack) > 1 /\ stacks[i].stack[2] = a}
        least  == Len(stacks) - Len(stacks) \div SimilarSamples
        common == {i \in DOMAIN stacks :
                    Len(stacks[i].stack) > 1 /\ Cardinality(Second(stacks[i].stack[2])) >= least}
    IN [i \in DOMAIN stacks |->
            IF i \in common THEN [stacks[i] EXCEPT !.stack = RemoveAt(@, 2)] ELSE stacks[i]]

Thousand == 1000
NewCPUProfile(microseconds) ==
    NewProfile(<<"samples", "cpu">>, "cpu", microseconds * Thousand)
CPUProfile(text, microseconds) ==
    LET empty  == NewCPUProfile(microseconds)
        stacks == StripCommonFrame(StripCommonFrame(ParseCPUSamples(text[1], TRUE, empty)))
    IN IF Cut(text[1]) THEN Unrecognized
       ELSE Parsed(CleanupDuplicateLocations(ParseMemoryMap(WithStacks(empty, stacks), Tail(text))))

(* A header of words, of C++ or of Java. *)
CPUHeader(text, language) ==
    /\ text[1].kind = "words"
    /\ LET h == text[1].header IN h[1] = 0 /\ h[2] = 3 /\ h[3] = language /\ h[4] > 0 /\ h[5] = 0
===============================================================================
