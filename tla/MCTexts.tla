-------------------------------- MODULE MCTexts ---------------------------------
(* Small profiles in the formats before profile.proto, one or two for each      *)
(* parser, and some that are refused.  Addresses are below 64.  Among them are  *)
(* lines that parsers pass over: a first thread that is the same as the one     *)
(* before, heap rows without a size, and rows behind the end of the samples.    *)
EXTENDS LegacyFormats

(* Lines of the formats before. *)
Line(kind) == [kind |-> kind]
Count(n, addrs) == [kind |-> "count", count |-> n, addrs |-> addrs]
HeapLine(inuse, alloc, addrs) == [kind |-> "heap", inuse |-> inuse, alloc |-> alloc, addrs |-> addrs]
HeapHeader(inuse, alloc, format, rate) ==
    [kind |-> "heap profile", inuse |-> inuse, alloc |-> alloc, format |-> format, rate |-> rate]
Pair(first, second, addrs) == [kind |-> "pair", first |-> first, second |-> second, addrs |-> addrs]
Addrs(addrs) == [kind |-> "addresses", addrs |-> addrs]
Attribute(key, value) == [kind |-> "attribute", key |-> key, value |-> value]
Symbol(address, name, line) ==
    [kind |-> "symbol", address |-> address, name |-> name, file |-> "Code.java", line |-> line]
Words(language, data, cut) ==
    [kind |-> "words", header |-> <<0, 3, language, 2, 0>>, records |-> data, cut |-> cut]
CPURecord(count, stack) == [count |-> count, stack |-> stack]
Map(start, limit, offset, file) ==
    [kind |-> "map", executable |-> TRUE, start |-> start, limit |-> limit, offset |-> offset,
     file |-> file, attr |-> "", build |-> ""]

(* A library and the program, in two pieces of which the first was not written, *)
(* behind an attribute; its data cannot be executed.  The other program is      *)
(* loaded behind its offset, and begins with a huge page.                       *)
SplitMap ==
    <<Line("memory map"), Attribute("build", "bin"), Attribute("build", "other"), Map(40, 44, 0, "lib.so"),
      [Map(28, 32, 4, "$build") EXCEPT !.attr = "build"],
      [Map(20, 24, 0, "data") EXCEPT !.executable = FALSE], Line("junk")>>
HugeMap == <<Line("mapped libraries"), Map(16, 20, 0, "/anon_hugepage"), Map(20, 28, 4, "bin")>>

Goroutines ==
    <<Line("comment"), [kind |-> "count profile", type |-> "goroutine"], Count(2, <<30, 27>>), Line("comment"),
      Line("blank"), Count(1, <<27>>), Count(1, <<42, 0>>), Line("section"), Count(1, <<27>>)>> \o SplitMap
Allocations ==
    <<HeapHeader(<<3, 9>>, <<4, 10>>, "heap", 4), HeapLine(<<3, 9>>, <<3, 9>>, <<31, 26>>), Line("comment"),
      HeapLine(<<0, 0>>, <<1, 1>>, <<31>>), HeapLine(<<-1, -3>>, <<2, 6>>, <<26>>), HeapLine(<<1, 0>>, <<1, 0>>, <<26>>)>> \o HugeMap
InUse == <<HeapHeader(<<3, 9>>, <<0, 0>>, "heap_v2", 1), HeapLine(<<3, 9>>, <<0, 0>>, <<18, 3>>),
           HeapLine(<<0, 0>>, <<0, 0>>, <<18>>), HeapLine(<<2, 0>>, <<0, 0>>, <<18>>)>> \o HugeMap
Growth == <<[kind |-> "growth", inuse |-> <<5, 0>>, alloc |-> <<5, 0>>], HeapLine(<<5, 0>>, <<0, 0>>, <<2>>)>>
Threads ==
    <<Line("threadz"), Line("junk"), Line("thread"), Line("same as previous"),
      Line("thread"), Addrs(<<31, 31>>), Addrs(<<27>>),
      Line("thread"), Line("same as previous"), Line("thread"), Addrs(<<29>>)>> \o SplitMap
OneThread == <<Line("thread"), Addrs(<<29>>), Line("blank"), Line("thread"), Line("no stack trace")>>
Contentions ==
    <<Line("contentionz"), Attribute("cycles/second", 2), Attribute("sampling period", 3), Attribute("ms since reset", 1),
      Pair(5, 2, <<30, 26>>), Line("comment"), Pair(2, 1, <<30>>)>> \o SplitMap
Mutexes == <<Line("mutex"), Attribute("discarded samples", 1), Pair(5, 2, <<30, 26>>)>>
JavaContentions ==
    <<Line("contentionz"), Attribute("format", "java"), Attribute("resolution", "microseconds"), Attribute("sampling period", 2),
      Line("blank"), Pair(5, 2, <<7, 8>>), Pair(1, 1, <<8>>), Line("section"), Symbol(7, "f(int)", 3), Symbol(8, "main", -1),
      Symbol(7, "g", 4), Symbol(9, "f(int)", 1)>>
JavaHeap == <<Line("heapz"), Attribute("format", "java"), Attribute("resolution", "bytes"), Pair(6, 2, <<7>>), Pair(0, 3, <<7>>),
              Line("comment"), Pair(4, 1, <<7>>), Symbol(7, "f(int)", 3)>>
Signalled ==
    <<Words(0, <<CPURecord(1, <<30, 9, 28>>), CPURecord(2, <<42, 9, 42, 28>>), CPURecord(1, <<31>>), CPURecord(0, <<0>>),
                 CPURecord(7, <<1>>)>>, FALSE)>> \o SplitMap
JavaCPU == <<Words(1, <<CPURecord(2, <<7, 8>>), CPURecord(1, <<8, 9>>), CPURecord(0, <<0>>)>>, FALSE), Symbol(7, "f(int)", 3), Symbol(8, "main", 1)>>

(* Refused, by the parser that knows them or by all; and a division by zero.    *)
RefusedTexts ==
    [noMap    |-> [Goroutines EXCEPT ![8] = Line("mapped libraries")],
     noCount  |-> [Growth EXCEPT ![2].inuse = <<0, 1>>],
     noThread |-> SubSeq(Threads, 1, 11),
     noTypes  |-> RemoveAt(JavaContentions, 3),
     noEnd    |-> <<Words(0, <<CPURecord(1, <<30>>)>>, TRUE)>>,
     noFormat |-> <<Line("junk"), Line("heapz")>>,
     noObject |-> [JavaHeap EXCEPT ![4].second = 0]]
SmallTexts ==
    [goroutines |-> Goroutines, allocations |-> Allocations, inUse |-> InUse, growth |-> Growth,
     threads |-> Threads, oneThread |-> OneThread, contentions |-> Contentions, mutexes |-> Mutexes,
     javaContentions |-> JavaContentions, javaHeap |-> JavaHeap, signalled |-> Signalled, javaCPU |-> JavaCPU]
    @@ RefusedTexts

SmallFrameRegexps == [alloc |-> {"g"}, allocSkip |-> {"f"}, lock |-> {"g"}, cpu |-> {"f"}]
SmallWeight(count, size, rate) ==
    IF size \div count < rate THEN [num |-> 3, den |-> 2] ELSE [num |-> 4, den |-> 3]
================================================================================
