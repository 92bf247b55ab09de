------------------------------ MODULE MCProfiles -------------------------------
(* Profiles on small profiles of one program: main calls g, in which f is      *)
(* inlined, which calls an overloaded f.                                       *)
EXTENDS Profiles, MCTexts

CONSTANTS noRegexp

Message(maps, funcs, locs, stacks) ==
    [malformed |-> FALSE, types |-> <<"samples", "cpu">>, periodType |-> "cpu",
     mappings |-> maps, functions |-> funcs, locations |-> locs, samples |-> stacks,
     time |-> 0, duration |-> 1, period |-> 1, drop |-> {"g"}, keep |-> {}]
Mapping(id, start, limit, file, build) ==
    [id |-> id, start |-> start, limit |-> limit, offset |-> 0, file |-> file, build |-> build,
     has |-> {"functions"}]
Function(id, name) == [id |-> id, name |-> name, file |-> "code.go"]
Location(id, mapping, address, functions) ==
    [id |-> id, mapping |-> mapping, address |-> address,
     lines |-> [i \in DOMAIN functions |-> [function |-> functions[i], line |-> i]]]
Sample(locations, values, labels) == [locations |-> locations, values |-> values, labels |-> labels]
Label(str, num) == [key |-> "k", str |-> str, num |-> num]

ThreeFunctions == <<Function(1, "main"), Function(2, "f(int)"), Function(3, "g")>>

(* The program, loaded at 0. *)
Here == Message(<<Mapping(1, 0, 4, "bin", "b")>>, ThreeFunctions,
    <<Location(1, 1, 1, <<1>>), Location(2, 1, 2, <<2, 3>>), Location(3, 1, 3, <<2>>)>>,
    <<Sample(<<2, 1>>, <<1, 2>>, <<>>),
      Sample(<<3, 2, 1>>, <<1, 3>>, <<Label("x", 0), Label("y", 0), Label("", 2), Label("", 0)>>)>>)

(* The same program, loaded at 8, with other IDs in another order, and with    *)
(* negative values, as in a difference of profiles.                            *)
There == Message(<<Mapping(7, 16, 20, "lib.so", ""), Mapping(5, 8, 12, "bin", "b")>>,
    <<Function(9, "g"), Function(4, "f(int)"), Function(6, "main")>>,
    <<Location(8, 5, 10, <<4, 9>>), Location(5, 5, 9, <<6>>), Location(2, 7, 17, <<4, 6>>)>>,
    <<Sample(<<8, 5>>, <<-1, -2>>, <<>>), Sample(<<2, 8, 5>>, <<2, 2>>, <<Label("x", 0)>>)>>)

(* A program without a name, with one address nobody has a symbol for and one  *)
(* the runtime has; its mapping is in two pieces.                              *)
Nameless == Message(<<Mapping(1, 20, 24, "", ""), Mapping(2, 24, 28, "", "")>>, <<Function(1, "main")>>,
    <<Location(1, 1, 21, <<1>>), Location(2, 2, 26, <<>>), Location(3, 0, 3, <<0>>), Location(4, 1, 22, <<>>)>>,
    <<Sample(<<2, 1>>, <<1, 4>>, <<>>), Sample(<<4, 1>>, <<1, 1>>, <<>>), Sample(<<3>>, <<2, 0>>, <<>>)>>)

(* No mappings at all; an ID that is larger than the table, so that a function *)
(* numbered by the table's length has it too.                                  *)
Unmapped == Message(<<>>, <<Function(2, "main")>>,
    <<Location(1, 0, 1, <<2>>), Location(2, 0, 2, <<>>)>>,
    <<Sample(<<2, 1>>, <<1, 1>>, <<Label("x", 0)>>)>>)

(* Not valid: a location nobody has, an ID twice, a sample of other types, a   *)
(* string out of the table. The last is of another kind of profile.            *)
Rejected ==
    [dangling  |-> [Here EXCEPT !.samples[1].locations = <<2, 9>>],
     twice     |-> [Here EXCEPT !.functions[2].id = 1],
     values    |-> [Here EXCEPT !.samples[1].values = <<1>>],
     malformed |-> [Here EXCEPT !.malformed = TRUE]]
Heap == [Here EXCEPT !.types = <<"inuse_objects", "inuse_space">>]

SmallWires ==
    [here |-> Here, there |-> There, nameless |-> Nameless, unmapped |-> Unmapped, heap |-> Heap]
    @@ Rejected

(* What the runtime writes, and the two kinds of record that fail or add       *)
(* nothing. Here with a stack that recurses, and ends a goroutine.             *)
Recursive == [Here EXCEPT !.samples = Append(@, Sample(<<3, 3, 1>>, <<1, 1>>, <<>>)),
                          !.functions[1].name = "goexit"]
SmallCPUProfiles == {Here, Recursive, Nameless, Unmapped, Heap}

(* What the runtime counted of the waiting of a handler, of one stack of the    *)
(* program and of one of the agent: once, and when each has grown or not.      *)
Blocked(values) ==
    [Here EXCEPT !.types = <<"contentions", "delay">>,
                 !.functions[1] = [id |-> 1, name |-> "ServeHTTP", file |-> "server.go"],
                 !.locations = Append(@, Location(4, 0, 22, <<>>)),
                 !.samples = [i \in DOMAIN values |->
                                Sample(<<<<2, 1>>, <<3, 2, 1>>, <<3, 2>>, <<4>>>>[i], values[i], <<>>)]]
SmallBlockProfiles ==
    {Blocked(<<<<1, 3>>, <<1, 1>>, <<1, 2>>, <<1, 9>>>>),
     Blocked(<<<<2, 5>>, <<1, 1>>, <<3, 4>>, <<2, 9>>>>), Here}

(* What is in use of what was allocated: nothing in one of the stacks.         *)
Allocated ==
    [Here EXCEPT !.types = <<"alloc_objects", "alloc_space", "inuse_objects", "inuse_space">>,
                 !.locations = Append(@, Location(4, 0, 22, <<>>)),
                 !.samples = <<Sample(<<2, 1>>, <<2, 6, 1, 3>>, <<>>), Sample(<<3, 2, 1>>, <<1, 1, 1, 1>>, <<>>),
                               Sample(<<3, 1>>, <<4, 8, 0, 0>>, <<>>), Sample(<<4, 1>>, <<1, 2, 1, 2>>, <<>>)>>]
SmallHeapProfiles == {Allocated, Here}

SmallFuncForPC == [address \in {2, 22} |-> [name |-> "g", file |-> "agent.go", line |-> 7]]
SmallSimplified == [n \in {"main", "f(int)", "g", "goexit", "ServeHTTP"} |-> IF n = "f(int)" THEN "f" ELSE n]
SmallRegexps == {{"f"}, {"g"}}
Name(focus, ignore, hide, show) == [focus |-> focus, ignore |-> ignore, hide |-> hide, show |-> show]
SmallFilters ==
    {Name({"g"}, noRegexp, noRegexp, noRegexp), Name(noRegexp, {"f(int)"}, noRegexp, noRegexp),
     Name(noRegexp, noRegexp, {"g"}, noRegexp), Name({"main"}, noRegexp, {"f(int)"}, {"main", "g"}),
     Name(noRegexp, noRegexp, {"lib.so"}, noRegexp), Name(noRegexp, noRegexp, noRegexp, {"main"})}
SmallRatios == {[num |-> -1, den |-> 1], [num |-> 1, den |-> 2]}
================================================================================
