------------------------------ MODULE JavaFormats ------------------------------
(* internal/pprof/profile/legacy_java_profile.go, and the order in which        *)
(* parseLegacy of profile.go tries the parsers.  Samples of Java programs refer *)
(* to locations by a number that stands in for an address; the lines after the  *)
(* samples say what is there.                                                   *)
EXTENDS LegacyFormats

(* What is said of a location, the last time it is said.  A function has the    *)
(* file it was first seen with.                                                 *)
ParseJavaLocations(p, lines) ==
    LET said  == SelectSeq(lines, LAMBDA l : l.kind = "symbol" /\ \E x \in ToSet(p.locations) : x.address = l.address)
        names == WithoutRepeats([i \in DOMAIN said |-> said[i].name])
        First(name) == said[SelectInSeq(said, LAMBDA l : l.name = name)]
        LineOf(l) == [function |-> Place(names, l.name), line |-> IF l.line > 0 THEN l.line ELSE 0]
        Located(x) ==
            LET i == SelectLastInSeq(said, LAMBDA l : l.address = x.address)
            IN IF i = 0 THEN x ELSE [x EXCEPT !.lines = <<LineOf(said[i])>>, !.address = 0]
        symbolized == [p EXCEPT
            !.functions = [i \in DOMAIN names |-> [id |-> 0, name |-> names[i], file |-> First(names[i]).file]],
            !.locations = [i \in DOMAIN @ |-> Located(@[i])]]
    IN RemapMappingIDs(RemapFunctionIDs(RemapLocationIDs(symbolized)))

WithoutAddresses(p) == Aggregate(p, {"inlines", "functions", "filenames", "lines"})

JavaCPUProfile(text, microseconds) ==
    LET empty == NewCPUProfile(microseconds)
    IN IF Cut(text[1]) THEN Unrecognized
       ELSE Parsed(WithoutAddresses(ParseJavaLocations(
                WithStacks(empty, ParseCPUSamples(text[1], FALSE, empty)), Tail(text))))

(* The attributes of heap and contention profiles.  The sample types are only   *)
(* known from the resolution.                                                   *)
JavaTypes == [heapz |-> <<"inuse_objects", "inuse_space">>,
              contentionz |-> <<"contentions/resolution", "delay/resolution">>]
JavaAttributes == [heapz |-> {"format", "resolution"},
                   contentionz |-> {"format", "resolution", "sampling period", "ms since reset"}]
ParseJavaHeader(kind, attributes) ==
    LET Given(key) == Value(attributes, key, 0)
        known == \E l \in ToSet(attributes) : l.key = "resolution"
        sampled == \E l \in ToSet(attributes) : l.key = "sampling period"
    IN [NewProfile(IF known THEN JavaTypes[kind] ELSE <<>>, IF sampled THEN "contentions" ELSE "", Given("sampling period"))
        EXCEPT !.duration = Given("ms since reset") * Million]
JavaHeaderKnown(kind, attributes) ==
    \A l \in ToSet(attributes) : l.key \in JavaAttributes[kind] /\ (l.key = "format" => l.value = "java")

(* The fields are inverted.  Heap profiles are sampled every 512 KB; a size is  *)
(* divided by its count, which is not looked at.                                *)
JavaHeapzSamplingRate == 524288
JavaSample(l, kind, period) ==
    LET values == <<l.second, l.first>>
    IN CASE kind = "heapz" ->
                [stack |-> l.addrs, values |-> ScaleHeapSample(l.second, l.first, JavaHeapzSamplingRate),
                 numLabels |-> [k \in {"bytes"} |-> <<l.first \div l.second>>]]
         [] kind = "contentionz" ->
                Stack(l.addrs, IF period # 0 THEN <<l.second * period, l.first * period>> ELSE values)

ParseJavaProfile(text) ==
    LET kind       == text[1].kind
        rest       == Tail(text)
        NotBlank(l) == l.kind # "blank"
        begin      == FirstPlace(rest, LAMBDA l : l.kind \notin {"blank", "attribute"})
        attributes == SelectSeq(SubSeq(rest, 1, begin - 1), NotBlank)
        end        == begin - 1 + FirstPlace(From(rest, begin), LAMBDA l : l.kind \notin {"blank", "pair"})
        rows       == SelectSeq(SubSeq(rest, begin, end - 1), NotBlank)
        empty      == ParseJavaHeader(kind, attributes)
        stacks     == [i \in DOMAIN rows |-> JavaSample(rows[i], kind, empty.period)]
    IN IF kind \notin {"heapz", "contentionz"} \/ ~JavaHeaderKnown(kind, attributes)
       THEN Unrecognized
       ELSE IF kind = "heapz" /\ \E l \in ToSet(rows) : l.second = 0 THEN Panic
       ELSE Parsed(WithoutAddresses(ParseJavaLocations(WithStacks(empty, stacks), From(rest, end))))

ParseCPU(text) ==
    IF CPUHeader(text, 0) THEN CPUProfile(text, text[1].header[4])
    ELSE IF CPUHeader(text, 1) THEN JavaCPUProfile(text, text[1].header[4])
    ELSE Unrecognized
-------------------------------------------------------------------------------
(* The frames to drop and to keep, by the types of the samples. *)
HeapzTypes == {<<"allocations", "size">>, <<"objects", "space">>, <<"inuse_objects", "inuse_space">>,
               <<"alloc_objects", "alloc_space">>}
ContentionzTypes == {<<"contentions", "delay">>, <<"contentions/resolution", "delay/resolution">>}
AddLegacyFrameInfo(p) ==
    IF p.types \in HeapzTypes THEN [p EXCEPT !.drop = FrameRegexps.alloc, !.keep = FrameRegexps.allocSkip]
    ELSE [p EXCEPT !.drop = IF p.types \in ContentionzTypes THEN FrameRegexps.lock ELSE FrameRegexps.cpu]

(* The first parser that knows the text decides. *)
Knows(result) == result.error # "unrecognized"
FirstOf(results) ==
    LET i == SelectInSeq(results, Knows)
    IN IF i = 0 THEN Unrecognized
       ELSE IF results[i].error # "" THEN results[i]
       ELSE Parsed(AddLegacyFrameInfo(results[i].profile))
ParseLegacy(text) ==
    FirstOf(<<ParseCPU(text), ParseHeap(text), ParseGoCount(text), ParseThread(text),
              ParseContention(text), ParseJavaProfile(text)>>)
===============================================================================
