-------------------------- MODULE ProfileMerge_proofs --------------------------
(* Theorems about what Merge keeps, for the messages, texts and operations of   *)
(* Profiles_proofs: the merged profile says of each stack the sum of what its   *)
(* sources said (MergeKeepsStacks), and is compact (MergedIsCompact), for which  *)
(* a second pass is shown to be the last. Throughout, src is the source being    *)
(* merged, pm the merger and new the merger after a step.                        *)
EXTENDS Profiles_proofs

-------------------------------------------------------------------------------
(* Sums of the first numbers of a sequence of integers. *)
Sums(f, n, h) == h \in [0..n -> Int] /\ h[0] = 0 /\ \A i \in 1..n : h[i] = h[i - 1] + f[i]
SumTo(f, n) == (CHOOSE h : Sums(f, n, h))[n]

(* There are such sums. *)
LEMMA SumsExist ==
    ASSUME NEW n \in Nat, NEW f, \A i \in 1..n : f[i] \in Int
    PROVE  \E h : Sums(f, n, h)
<1> DEFINE S == {m \in 0..n : \E h : Sums(f, m, h)}
<1>1. 0 \in S
  <2>1. Sums(f, 0, [i \in 0..0 |-> 0])
    BY DEF Sums
  <2>2. QED
    BY <2>1
<1>2. ASSUME NEW m \in 0..n-1, m \in S PROVE m + 1 \in S
  <2>1. PICK g : Sums(f, m, g)
    BY <1>2
  <2> DEFINE h == [i \in 0..m+1 |-> IF i = m + 1 THEN g[m] + f[m + 1] ELSE g[i]]
  <2>2. g \in [0..m -> Int] /\ g[0] = 0 /\ \A i \in 1..m : g[i] = g[i - 1] + f[i]
    BY <2>1 DEF Sums
  <2>3. m + 1 \in 0..n /\ m + 1 \in 1..n /\ m \in 0..m /\ f[m + 1] \in Int /\ g[m] \in Int
    BY <1>2, <2>2
  <2>4. h \in [0..m+1 -> Int] /\ h[0] = 0
    BY <2>2, <2>3
  <2>5. ASSUME NEW i \in 1..m+1 PROVE h[i] = h[i - 1] + f[i]
    <3>1. CASE i = m + 1
      BY <2>3, <3>1
    <3>2. CASE i # m + 1
      <4>1. i \in 1..m /\ i \in 0..m+1 /\ i - 1 \in 0..m+1 /\ i - 1 # m + 1
        BY <3>2
      <4>2. h[i] = g[i] /\ h[i - 1] = g[i - 1]
        BY <3>2, <4>1
      <4>3. QED
        BY <2>2, <4>1, <4>2
    <3>3. QED
      BY <3>1, <3>2
  <2>6. Sums(f, m + 1, h)
    BY <2>4, <2>5 DEF Sums
  <2>7. QED
    BY <2>3, <2>6
<1>3. n \in 0..n
  OBVIOUS
<1> HIDE DEF S
<1>4. n \in S
  BY <1>1, <1>2, <1>3, CountingUp
<1>5. QED
  BY <1>4 DEF S

(* What relates the sums of two sequences after each number does so in the end: *)
(* one of the numbers, if k is not n + 1, is larger by d in the second.         *)
Differ(f, g, n, k, d) ==
    \A i \in 1..n : f[i] \in Int /\ g[i] \in Int /\ g[i] = IF i = k THEN f[i] + d ELSE f[i]

(* Sums of two sequences that differ at one index differ from there on. *)
LEMMA SumsChange ==
    ASSUME NEW n \in Nat, NEW f, NEW g, NEW k \in 1..n+1, NEW d \in Int, Differ(f, g, n, k, d),
           NEW fh, Sums(f, n, fh), NEW gh, Sums(g, n, gh)
    PROVE  gh[n] = IF k \in 1..n THEN fh[n] + d ELSE fh[n]
<1> DEFINE S == {m \in 0..n : gh[m] = IF m < k THEN fh[m] ELSE fh[m] + d}
<1>1. /\ fh \in [0..n -> Int] /\ fh[0] = 0 /\ \A i \in 1..n : fh[i] = fh[i - 1] + f[i]
      /\ gh \in [0..n -> Int] /\ gh[0] = 0 /\ \A i \in 1..n : gh[i] = gh[i - 1] + g[i]
      /\ \A i \in 1..n : f[i] \in Int /\ g[i] \in Int /\ g[i] = IF i = k THEN f[i] + d ELSE f[i]
  BY DEF Sums, Differ
<1>2. 0 \in S
  BY <1>1
<1>3. ASSUME NEW m \in 0..n-1, m \in S PROVE m + 1 \in S
  <2>1. m \in 0..n /\ m + 1 \in 1..n /\ m + 1 \in 0..n /\ (m + 1) - 1 = m
    OBVIOUS
  <2>2. fh[m + 1] = fh[m] + f[m + 1] /\ gh[m + 1] = gh[m] + g[m + 1]
    BY <1>1, <2>1
  <2>3. fh[m] \in Int /\ gh[m] \in Int /\ f[m + 1] \in Int /\ g[m + 1] \in Int
    BY <1>1, <2>1
  <2>4. gh[m] = IF m < k THEN fh[m] ELSE fh[m] + d
    BY <1>3
  <2>5. CASE m + 1 = k
    <3>1. g[m + 1] = f[m + 1] + d /\ m < k /\ ~(m + 1 < k)
      BY <1>1, <2>1, <2>5
    <3>2. gh[m + 1] = fh[m + 1] + d
      BY <2>2, <2>3, <2>4, <3>1
    <3>3. QED
      BY <2>1, <3>1, <3>2
  <2>6. CASE m + 1 # k
    <3>1. g[m + 1] = f[m + 1] /\ (m < k <=> m + 1 < k)
      BY <1>1, <2>1, <2>6
    <3>2. QED
      BY <2>1, <2>2, <2>3, <2>4, <3>1
  <2>7. QED
    BY <2>5, <2>6
<1>4. n \in 0..n
  OBVIOUS
<1> HIDE DEF S
<1>5. n \in S
  BY <1>2, <1>3, <1>4, CountingUp
<1>6. QED
  BY <1>5 DEF S

(* The sum is the last of them; those of equal numbers are equal, and one number *)
(* that is larger by d makes the sum larger by d.                                *)
LEMMA SumIsLast ==
    ASSUME NEW n \in Nat, NEW f, \A i \in 1..n : f[i] \in Int
    PROVE  /\ SumTo(f, n) \in Int
           /\ \E h : Sums(f, n, h) /\ SumTo(f, n) = h[n]
<1> DEFINE h == CHOOSE h : Sums(f, n, h)
<1>1. Sums(f, n, h) /\ SumTo(f, n) = h[n]
  BY SumsExist DEF SumTo
<1> HIDE DEF h
<1>2. n \in 0..n
  OBVIOUS
<1>3. QED
  BY <1>1, <1>2 DEF Sums

(* Equal terms have equal sums. *)
LEMMA SameSum ==
    ASSUME NEW n \in Nat, NEW f, NEW g, \A i \in 1..n : f[i] \in Int,
           \A i \in 1..n : g[i] = f[i]
    PROVE  SumTo(g, n) = SumTo(f, n)
<1>1. \A i \in 1..n : f[i] \in Int /\ g[i] \in Int
  OBVIOUS
<1>2. PICK fh : Sums(f, n, fh) /\ SumTo(f, n) = fh[n]
  BY SumIsLast
<1>3. PICK gh : Sums(g, n, gh) /\ SumTo(g, n) = gh[n]
  BY <1>1, SumIsLast
<1>4. n + 1 \in 1..n+1 /\ n + 1 \notin 1..n /\ 0 \in Int
  OBVIOUS
<1>5. Differ(f, g, n, n + 1, 0)
  BY <1>1 DEF Differ
<1>6. gh[n] = IF n + 1 \in 1..n THEN fh[n] + 0 ELSE fh[n]
  BY <1>2, <1>3, <1>4, <1>5, SumsChange
<1>7. QED
  BY <1>2, <1>3, <1>4, <1>6

(* A change of one term changes the sum as much. *)
LEMMA ChangedSum ==
    ASSUME NEW n \in Nat, NEW f, NEW g, \A i \in 1..n : f[i] \in Int, NEW k \in 1..n, NEW d \in Int,
           \A i \in 1..n : g[i] = IF i = k THEN f[i] + d ELSE f[i]
    PROVE  SumTo(g, n) = SumTo(f, n) + d
<1>1. \A i \in 1..n : f[i] \in Int /\ g[i] \in Int
  OBVIOUS
<1>2. PICK fh : Sums(f, n, fh) /\ SumTo(f, n) = fh[n]
  BY SumIsLast
<1>3. PICK gh : Sums(g, n, gh) /\ SumTo(g, n) = gh[n]
  BY <1>1, SumIsLast
<1>4. k \in 1..n+1 /\ Differ(f, g, n, k, d)
  BY <1>1 DEF Differ
<1>6. gh[n] = IF k \in 1..n THEN fh[n] + d ELSE fh[n]
  BY <1>2, <1>3, <1>4, SumsChange
<1>7. QED
  BY <1>2, <1>3, <1>6

(* One more number is added to the sum of those before. *)
LEMMA NextSum ==
    ASSUME NEW n \in Nat, NEW f, \A i \in 1..n+1 : f[i] \in Int
    PROVE  SumTo(f, n + 1) = SumTo(f, n) + f[n + 1]
<1>1. (\A i \in 1..n : f[i] \in Int) /\ n + 1 \in Nat
  OBVIOUS
<1>2. PICK h : Sums(f, n + 1, h) /\ SumTo(f, n + 1) = h[n + 1]
  BY <1>1, SumIsLast
<1> DEFINE g == [i \in 0..n |-> h[i]]
<1>3. h \in [0..n+1 -> Int] /\ h[0] = 0 /\ \A i \in 1..n+1 : h[i] = h[i - 1] + f[i]
  BY <1>2 DEF Sums
<1>4. Sums(f, n, g)
  <2>1. g \in [0..n -> Int] /\ g[0] = 0
    BY <1>3
  <2>2. \A i \in 1..n : g[i] = g[i - 1] + f[i]
    BY <1>3
  <2>3. QED
    BY <2>1, <2>2 DEF Sums
<1>5. g[n] = h[n]
  OBVIOUS
<1> HIDE DEF g
<1>6. PICK fh : Sums(f, n, fh) /\ SumTo(f, n) = fh[n]
  BY <1>1, SumIsLast
<1>7. g[n] = fh[n]
  <2>1. n + 1 \in 1..n+1 /\ n + 1 \notin 1..n /\ 0 \in Int
    OBVIOUS
  <2>2. Differ(f, f, n, n + 1, 0)
    BY <1>1 DEF Differ
  <2>3. g[n] = IF n + 1 \in 1..n THEN fh[n] + 0 ELSE fh[n]
    BY <1>4, <1>6, <2>1, <2>2, SumsChange
  <2>4. QED
    BY <2>1, <2>3
<1>8. h[n + 1] = h[n] + f[n + 1]
  BY <1>3
<1>9. QED
  BY <1>2, <1>5, <1>6, <1>7, <1>8

(* No numbers add up to 0. *)
LEMMA NoSum == ASSUME NEW f PROVE SumTo(f, 0) = 0
<1>1. PICK h : Sums(f, 0, h) /\ SumTo(f, 0) = h[0]
  BY SumIsLast
<1>2. QED
  BY <1>1 DEF Sums

-------------------------------------------------------------------------------
(* What a merge keeps. The tables of the merged profile only grow, and what is *)
(* entered under an ID stays.                                                  *)
TableGrows(table, new) ==
    /\ Len(table) \in Nat /\ Len(new) \in Nat /\ Len(table) <= Len(new)
    /\ \A i \in 1..Len(table) : new[i] = table[i]
Grows(p, q) ==
    /\ TableGrows(p.mappings, q.mappings)
    /\ TableGrows(p.functions, q.functions)
    /\ TableGrows(p.locations, q.locations)
EntriesStay(byID, new) == DOMAIN byID \subseteq DOMAIN new /\ \A id \in DOMAIN byID : new[id] = byID[id]

(* What the IDs of the source's entries stand for says what the entries say. *)
FunctionsSay(src, pm) ==
    \A i \in 1..Len(src.functions) :
        LET f == src.functions[i] IN
        f.id \in DOMAIN pm.functionsByID =>
            /\ pm.p.functions[pm.functionsByID[f.id]].name = f.name
            /\ pm.p.functions[pm.functionsByID[f.id]].file = f.file
MappingsSay(src, pm) ==
    \A i \in 1..Len(src.mappings) :
        LET m == src.mappings[i] IN
        m.id \in DOMAIN pm.mappingsByID =>
            pm.mappingsByID[m.id].offset = pm.p.mappings[pm.mappingsByID[m.id].m].start - m.start
LocationsSay(src, pm) ==
    \A i \in 1..Len(src.locations) :
        LET l == src.locations[i] IN
        l.id \in DOMAIN pm.locationsByID =>
            SaidByLocation(pm.p, pm.p.locations[pm.locationsByID[l.id]]) = SaidByLocation(src, l)
Faithful(src, pm) == FunctionsSay(src, pm) /\ MappingsSay(src, pm) /\ LocationsSay(src, pm)

(* No two entries that could be one. *)
FunctionsDiffer(p) ==
    \A i, j \in 1..Len(p.functions) :
        p.functions[i].name = p.functions[j].name /\ p.functions[i].file = p.functions[j].file => i = j
Alike(x, m) ==
    /\ SameRegion(x, m)
    /\ \/ m.build # "" /\ x.build = m.build
       \/ m.file # "" /\ x.file = m.file
MappingsDiffer(p) ==
    \A i, j \in 1..Len(p.mappings) : Alike(p.mappings[i], p.mappings[j]) => i = j
LocationsDiffer(p) ==
    \A i, j \in 1..Len(p.locations) :
        LocationKey(p, p.locations[i]) = LocationKey(p, p.locations[j]) => i = j
Tidy(p) == FunctionsDiffer(p) /\ MappingsDiffer(p) /\ LocationsDiffer(p)

(* Merging a source without two mappings that are alike keeps all of it apart: *)
(* each merged mapping is a copy of its own of one of the source, and what a    *)
(* location's ID stands for refers to what the location does.                   *)
CopyOfMapping(x, m) ==
    /\ x.start = m.start /\ x.limit = m.limit /\ x.offset = m.offset
    /\ x.build = m.build /\ x.file = m.file
MappingsCopied(src, pm) ==
    \A x \in 1..Len(pm.p.mappings) : \E j \in 1..Len(src.mappings) :
        /\ CopyOfMapping(pm.p.mappings[x], src.mappings[j])
        /\ src.mappings[j].id \in DOMAIN pm.mappingsByID
        /\ pm.mappingsByID[src.mappings[j].id].m = x
OwnMappings(src, pm) ==
    \A i, j \in 1..Len(src.mappings) :
        /\ src.mappings[i].id \in DOMAIN pm.mappingsByID
        /\ src.mappings[j].id \in DOMAIN pm.mappingsByID
        /\ pm.mappingsByID[src.mappings[i].id].m = pm.mappingsByID[src.mappings[j].id].m
        => i = j
RefersAs(src, pm, l, x) ==
    /\ l.mapping # 0 =>
        /\ src.mappings[l.mapping].id \in DOMAIN pm.mappingsByID
        /\ x.mapping = pm.mappingsByID[src.mappings[l.mapping].id].m
    /\ \A j \in 1..Len(l.lines) : x.lines[j].function = 0 <=> l.lines[j].function = 0
LocationsRefer(src, pm) ==
    \A i \in 1..Len(src.locations) :
        src.locations[i].id \in DOMAIN pm.locationsByID =>
            RefersAs(src, pm, src.locations[i], pm.p.locations[pm.locationsByID[src.locations[i].id]])
Apart(src, pm) ==
    MappingsDiffer(src) /\ MappingsCopied(src, pm) /\ OwnMappings(src, pm) /\ LocationsRefer(src, pm)

(* A step of the merger, from pm to new. *)
Adds(src, pm, new) ==
    /\ Grows(pm.p, new.p) /\ new.p.samples = pm.p.samples
    /\ EntriesStay(pm.mappingsByID, new.mappingsByID)
    /\ EntriesStay(pm.functionsByID, new.functionsByID)
    /\ EntriesStay(pm.locationsByID, new.locationsByID)
    /\ Faithful(src, new) /\ Tidy(new.p)
    /\ Apart(src, pm) => Apart(src, new)

(* Growing is transitive, and reflexive for what fits. *)
LEMMA GrowsOn ==
    ASSUME NEW p, NEW q, NEW r, Grows(p, q), Grows(q, r)
    PROVE  Grows(p, r)
<1>1. ASSUME NEW a, NEW b, NEW c, TableGrows(a, b), TableGrows(b, c) PROVE TableGrows(a, c)
  <2>1. Len(a) \in Nat /\ Len(b) \in Nat /\ Len(c) \in Nat /\ Len(a) <= Len(b) /\ Len(b) <= Len(c)
    BY <1>1 DEF TableGrows
  <2>2. \A i \in 1..Len(a) : i \in 1..Len(b)
    BY <2>1
  <2>3. \A i \in 1..Len(a) : c[i] = a[i]
    BY <1>1, <2>2 DEF TableGrows
  <2>4. QED
    BY <2>1, <2>3 DEF TableGrows
<1>2. QED
  BY <1>1 DEF Grows

(* A profile that does not change grows. *)
LEMMA GrowsNot ==
    ASSUME NEW p, Fits(p)
    PROVE  Grows(p, p)
<1>1. Len(p.mappings) \in Nat /\ Len(p.functions) \in Nat /\ Len(p.locations) \in Nat
  BY DEF Fits, TablesFit
<1>2. QED
  BY <1>1 DEF Grows, TableGrows

(* Two steps of a merger that add to it, one after the other, are one that does. *)
LEMMA AddsMore ==
    ASSUME NEW src, NEW a, NEW b, NEW c, Adds(src, a, b), Adds(src, b, c)
    PROVE  Adds(src, a, c)
<1>1. Grows(a.p, c.p) /\ c.p.samples = a.p.samples /\ Faithful(src, c) /\ Tidy(c.p)
  BY GrowsOn DEF Adds
<1>2. QED
  BY <1>1 DEF Adds, EntriesStay

(* A merger that is left as it is. *)
LEMMA AddsNothing ==
    ASSUME NEW t, NEW src, NEW pm, Merger(t, pm), Faithful(src, pm), Tidy(pm.p)
    PROVE  Adds(src, pm, pm)
BY GrowsNot DEF Adds, Merger, EntriesStay

(* What a line, a location or a sample says is the same in a grown profile. *)
LEMMA LineSaysOn ==
    ASSUME NEW p, NEW q, Grows(p, q), NEW ln, ln.function \in 0..Len(p.functions)
    PROVE  SaidByLine(q, ln) = SaidByLine(p, ln)
<1>1. ln.function # 0 => q.functions[ln.function] = p.functions[ln.function]
  BY DEF Grows, TableGrows
<1>2. QED
  BY <1>1, Zenon DEF SaidByLine, Nil

(* What a location says stays as the tables grow, and so does its key. *)
LEMMA LocationSaysOn ==
    ASSUME NEW p, NEW q, Grows(p, q), NEW l, LocationFits(p, l)
    PROVE  /\ SaidByLocation(q, l) = SaidByLocation(p, l)
           /\ LocationKey(q, l) = LocationKey(p, l)
<1>1. /\ l.lines \in Seq(Lines) /\ l.mapping \in 0..Len(p.mappings)
      /\ DOMAIN l.lines = 1..Len(l.lines)
      /\ \A j \in 1..Len(l.lines) : l.lines[j].function \in 0..Len(p.functions)
  BY DEF LocationFits, Locations
<1>2. \A j \in DOMAIN l.lines : SaidByLine(q, l.lines[j]) = SaidByLine(p, l.lines[j])
  BY <1>1, LineSaysOn
<1>3. l.mapping # 0 => q.mappings[l.mapping] = p.mappings[l.mapping]
  BY <1>1 DEF Grows, TableGrows
<1>4. [j \in DOMAIN l.lines |-> SaidByLine(q, l.lines[j])] = [j \in DOMAIN l.lines |-> SaidByLine(p, l.lines[j])]
  BY <1>2
<1>5. QED
  BY <1>3, <1>4 DEF SaidByLocation, LocationKey, Nil

(* So does what a sample says. *)
LEMMA SampleSaysOn ==
    ASSUME NEW p, NEW q, Grows(p, q), Fits(p), NEW s, SampleFits(p, s)
    PROVE  SaidBySample(q, s) = SaidBySample(p, s)
<1>1. /\ s.locations \in Seq(1..Len(p.locations)) /\ DOMAIN s.locations = 1..Len(s.locations)
      /\ \A j \in 1..Len(s.locations) : s.locations[j] \in 1..Len(p.locations)
  BY DEF SampleFits
<1>2. ASSUME NEW j \in DOMAIN s.locations
      PROVE  SaidByLocation(q, q.locations[s.locations[j]]) = SaidByLocation(p, p.locations[s.locations[j]])
  <2> DEFINE l == p.locations[s.locations[j]]
  <2>1. LocationFits(p, l) /\ q.locations[s.locations[j]] = l
    BY <1>1 DEF Fits, TablesFit, Grows, TableGrows
  <2> HIDE DEF l
  <2>2. SaidByLocation(q, l) = SaidByLocation(p, l)
    BY <2>1, LocationSaysOn
  <2>3. QED
    BY <2>1, <2>2 DEF l
<1>3. [j \in DOMAIN s.locations |-> SaidByLocation(q, q.locations[s.locations[j]])]
      = [j \in DOMAIN s.locations |-> SaidByLocation(p, p.locations[s.locations[j]])]
  BY <1>2
<1>4. QED
  BY <1>3 DEF SaidBySample

(* What keeps a source apart looks at its mappings and its locations alone. *)
LEMMA ApartOn ==
    ASSUME NEW src, NEW pm, NEW new,
           new.p.mappings = pm.p.mappings, new.mappingsByID = pm.mappingsByID,
           new.p.locations = pm.p.locations, new.locationsByID = pm.locationsByID
    PROVE  Apart(src, pm) => Apart(src, new)
<1>1. \A l, x : RefersAs(src, pm, l, x) => RefersAs(src, new, l, x)
  BY Zenon DEF RefersAs
<1>2. MappingsCopied(src, pm) => MappingsCopied(src, new)
  BY Zenon DEF MappingsCopied
<1>3. OwnMappings(src, pm) => OwnMappings(src, new)
  BY Zenon DEF OwnMappings
<1>4. LocationsRefer(src, pm) => LocationsRefer(src, new)
  BY <1>1, Zenon DEF LocationsRefer
<1>5. QED
  BY <1>2, <1>3, <1>4, Zenon DEF Apart

(* In a merger that grows the tables that are not entered into say what they did. *)
LEMMA FunctionsSayOn ==
    ASSUME NEW t, NEW pm, Merger(t, pm), NEW src, FunctionsSay(src, pm), NEW new,
           Grows(pm.p, new.p), new.functionsByID = pm.functionsByID
    PROVE  FunctionsSay(src, new)
<1>1. \A id \in DOMAIN pm.functionsByID : pm.functionsByID[id] \in 1..Len(pm.p.functions)
  BY DEF Merger, ByIDFit
<1>2. \A id \in DOMAIN pm.functionsByID :
        new.p.functions[pm.functionsByID[id]] = pm.p.functions[pm.functionsByID[id]]
  BY <1>1, Zenon DEF Grows, TableGrows
<1>3. ASSUME NEW i \in 1..Len(src.functions), src.functions[i].id \in DOMAIN new.functionsByID
      PROVE  /\ new.p.functions[new.functionsByID[src.functions[i].id]].name = src.functions[i].name
             /\ new.p.functions[new.functionsByID[src.functions[i].id]].file = src.functions[i].file
  <2> DEFINE x == pm.functionsByID[src.functions[i].id]
  <2>1. pm.p.functions[x].name = src.functions[i].name /\ pm.p.functions[x].file = src.functions[i].file
    BY <1>3, Zenon DEF FunctionsSay
  <2>2. new.p.functions[x] = pm.p.functions[x] /\ new.functionsByID[src.functions[i].id] = x
    BY <1>2, <1>3, Zenon
  <2> HIDE DEF x
  <2>3. QED
    BY <2>1, <2>2, Zenon
<1>4. QED
  BY <1>3, Zenon DEF FunctionsSay

(* The same of the mappings. *)
LEMMA MappingsSayOn ==
    ASSUME NEW t, NEW pm, Merger(t, pm), NEW src, MappingsSay(src, pm), NEW new,
           Grows(pm.p, new.p), new.mappingsByID = pm.mappingsByID
    PROVE  MappingsSay(src, new)
<1>1. \A id \in DOMAIN pm.mappingsByID : pm.mappingsByID[id].m \in 1..Len(pm.p.mappings)
  BY DEF Merger
<1>2. \A id \in DOMAIN pm.mappingsByID :
        new.p.mappings[pm.mappingsByID[id].m] = pm.p.mappings[pm.mappingsByID[id].m]
  BY <1>1 DEF Grows, TableGrows
<1>3. QED
  BY <1>2, Zenon DEF MappingsSay

(* The same of the locations. *)
LEMMA LocationsSayOn ==
    ASSUME NEW t, NEW pm, Merger(t, pm), NEW src, LocationsSay(src, pm), NEW new,
           Grows(pm.p, new.p), new.locationsByID = pm.locationsByID
    PROVE  LocationsSay(src, new)
<1>1. ASSUME NEW id \in DOMAIN pm.locationsByID
      PROVE  LET k == pm.locationsByID[id]
             IN SaidByLocation(new.p, new.p.locations[k]) = SaidByLocation(pm.p, pm.p.locations[k])
  <2> DEFINE k == pm.locationsByID[id]
             l == pm.p.locations[k]
  <2>1. k \in 1..Len(pm.p.locations)
    BY DEF Merger, ByIDFit
  <2>2. LocationFits(pm.p, l) /\ new.p.locations[k] = l
    BY <2>1 DEF Merger, Fits, TablesFit, Grows, TableGrows
  <2> HIDE DEF l, k
  <2>3. SaidByLocation(new.p, l) = SaidByLocation(pm.p, l)
    BY <2>2, LocationSaysOn
  <2>4. QED
    BY <2>2, <2>3 DEF l, k
<1>2. QED
  BY <1>1 DEF LocationsSay

(* Locations that differ still do as the tables they refer to grow. *)
LEMMA LocationsDifferOn ==
    ASSUME NEW t, NEW pm, Merger(t, pm), LocationsDiffer(pm.p), NEW q,
           Grows(pm.p, q), q.locations = pm.p.locations
    PROVE  LocationsDiffer(q)
<1>1. ASSUME NEW i \in 1..Len(q.locations)
      PROVE  LocationKey(q, q.locations[i]) = LocationKey(pm.p, pm.p.locations[i])
  <2>1. LocationFits(pm.p, q.locations[i])
    BY DEF Merger, Fits, TablesFit
  <2>2. QED
    BY <2>1, LocationSaysOn
<1>2. QED
  BY <1>1 DEF LocationsDiffer

(* mapFunction: what the ID stands for says what the function does, and a *)
(* function is added only under the ID.                                   *)
FunctionAdded(src, pm, f, new) ==
    /\ Adds(src, pm, new)
    /\ new.p.mappings = pm.p.mappings /\ new.p.locations = pm.p.locations
    /\ new.mappingsByID = pm.mappingsByID /\ new.locationsByID = pm.locationsByID
    /\ \A x \in 1..Len(new.p.functions) : x <= Len(pm.p.functions) \/ x = new.functionsByID[f.id]

(* mapFunction enters the function under its ID, and says what it says. *)
LEMMA MapFunctionAdds ==
    ASSUME NEW t, NEW pm, Merger(t, pm), NEW src, Fits(src), NEW i \in 1..Len(src.functions),
           Faithful(src, pm), Tidy(pm.p)
    PROVE  FunctionAdded(src, pm, src.functions[i], MapFunction(pm, src.functions[i]))
<1> DEFINE f == src.functions[i]
           new == MapFunction(pm, f)
           n == Len(pm.p.functions)
           known == KnownFunction(pm.p.functions, f)
           I == {k \in 1..n : pm.p.functions[k].name = f.name /\ pm.p.functions[k].file = f.file}
<1>1. /\ Fits(pm.p) /\ pm.p.functions \in Seq(Functions) /\ n \in Nat
      /\ Len(pm.p.mappings) \in Nat /\ Len(pm.p.locations) \in Nat
      /\ src.functions \in Seq(Functions) /\ f \in Functions
      /\ \A j \in 1..Len(src.functions) : src.functions[j].id = f.id => j = i
      /\ \A id \in DOMAIN pm.functionsByID : pm.functionsByID[id] \in 1..n
  BY DEF Merger, Fits, TablesFit, Numbered, ByIDFit
<1>2. CASE f.id \in DOMAIN pm.functionsByID
  <2>1. new = pm
    BY <1>2 DEF MapFunction
  <2> HIDE DEF new
  <2>2. Adds(src, pm, pm)
    BY AddsNothing
  <2>3. FunctionAdded(src, pm, f, new)
    BY <1>1, <2>1, <2>2 DEF FunctionAdded
  <2>4. QED
    BY <2>3 DEF new
<1>3. CASE f.id \notin DOMAIN pm.functionsByID
  <2>1. known = IF I # {} THEN Min(I) ELSE 0
    BY DEF KnownFunction, SelectInSeq
  <2>2. (known = 0 <=> I = {}) /\ (known # 0 => known \in I) /\ known \in 0..n
    <3>1. I \subseteq 1..Len(pm.p.functions)
      OBVIOUS
    <3> HIDE DEF I, known, n
    <3>2. (known = 0 <=> I = {}) /\ (known # 0 => known \in I) /\ known \in 0..Len(pm.p.functions)
      BY <1>1, <2>1, <3>1, FirstPlaceIs
    <3>3. QED
      BY <3>2 DEF n
  <2>3. new = FindFunction(pm, f, known)
    BY <1>3 DEF MapFunction
  <2> HIDE DEF known, new
  <2> DEFINE at == IF known # 0 THEN known ELSE n + 1
             byID == Entered(pm.functionsByID, f.id, at)
             entry == [f EXCEPT !.id = NewID(pm.p.functions)]
             functions == IF known # 0 THEN pm.p.functions ELSE Append(pm.p.functions, entry)
  <2>4. /\ functions \in Seq(Functions) /\ Len(functions) \in Nat /\ n <= Len(functions)
        /\ \A k \in 1..n : functions[k] = pm.p.functions[k]
        /\ \A k \in 1..Len(functions) : k <= n \/ k = at
        /\ functions[at].name = f.name /\ functions[at].file = f.file
        /\ \A j, k \in 1..Len(functions) :
              functions[j].name = functions[k].name /\ functions[j].file = functions[k].file => j = k
    <3>0. \A j, k \in 1..n :
              pm.p.functions[j].name = pm.p.functions[k].name /\ pm.p.functions[j].file = pm.p.functions[k].file => j = k
      BY DEF Tidy, FunctionsDiffer
    <3>1. CASE known # 0
      <4>1. at = known /\ functions = pm.p.functions /\ known \in I
        BY <2>2, <3>1
      <4> HIDE DEF at, functions
      <4>2. QED
        BY <1>1, <3>0, <4>1
    <3>2. CASE known = 0
      <4>1. entry \in Functions /\ entry.name = f.name /\ entry.file = f.file
        <5>1. NewID(pm.p.functions) \in Nat
          BY <1>1 DEF NewID
        <5> HIDE DEF f
        <5>2. QED
          BY <1>1, <5>1 DEF Functions
      <4>2. at = n + 1 /\ functions = Append(pm.p.functions, entry)
        BY <3>2
      <4> HIDE DEF at, entry
      <4>3. /\ functions \in Seq(Functions) /\ Len(functions) = n + 1
            /\ \A k \in 1..n : functions[k] = pm.p.functions[k]
            /\ functions[n + 1] = entry
        BY <1>1, <4>1, <4>2
      <4> HIDE DEF functions
      <4>4. \A k \in 1..n : ~(functions[k].name = f.name /\ functions[k].file = f.file)
        BY <2>2, <3>2, <4>3
      <4>5. \A k \in 1..Len(functions) : k \in 1..n \/ k = n + 1
        BY <1>1, <4>3
      <4>6. ASSUME NEW j \in 1..Len(functions), NEW k \in 1..Len(functions),
                   functions[j].name = functions[k].name /\ functions[j].file = functions[k].file
            PROVE  j = k
        BY <3>0, <4>1, <4>3, <4>4, <4>5, <4>6, Zenon
      <4>7. Len(functions) \in Nat /\ n <= Len(functions)
        BY <1>1, <4>3
      <4>8. \A k \in 1..Len(functions) : k <= n \/ k = at
        BY <1>1, <4>2, <4>5
      <4>9. functions[at].name = f.name /\ functions[at].file = f.file
        BY <4>1, <4>2, <4>3, Zenon
      <4>10. QED
        BY <4>3, <4>6, <4>7, <4>8, <4>9, Zenon
    <3>3. QED
      BY <3>1, <3>2, Zenon
  <2>5. /\ new.functionsByID = byID /\ new.p.functions = functions
        /\ new.p.mappings = pm.p.mappings /\ new.p.locations = pm.p.locations /\ new.p.samples = pm.p.samples
        /\ new.mappingsByID = pm.mappingsByID /\ new.locationsByID = pm.locationsByID
    <3>0. /\ {"p", "mappingsByID", "functionsByID", "locationsByID"} \subseteq DOMAIN pm
          /\ {"types", "samples", "mappings", "functions", "locations"} \subseteq DOMAIN pm.p
      BY DEF Merger, Fits, TypesFit
    <3>1. CASE known # 0
      <4>1. new = [pm EXCEPT !.functionsByID = byID] /\ functions = pm.p.functions
        BY <2>3, <3>1 DEF FindFunction
      <4> HIDE DEF byID, functions
      <4>2. QED
        BY <3>0, <4>1
    <3>2. CASE known = 0
      <4>1. new = [pm EXCEPT !.functionsByID = byID, !.p = [pm.p EXCEPT !.functions = functions]]
        BY <2>3, <3>2, <3>0 DEF FindFunction
      <4> HIDE DEF byID, functions
      <4>2. QED
        BY <3>0, <4>1
    <3>3. QED
      BY <3>1, <3>2
  <2>6. EntriesStay(pm.functionsByID, byID) /\ DOMAIN byID = DOMAIN pm.functionsByID \cup {f.id} /\ byID[f.id] = at
    <3> DEFINE id == f.id
    <3>1. id \notin DOMAIN pm.functionsByID
      BY <1>3
    <3> HIDE DEF id, at
    <3>2. /\ EntriesStay(pm.functionsByID, Entered(pm.functionsByID, id, at))
          /\ DOMAIN Entered(pm.functionsByID, id, at) = DOMAIN pm.functionsByID \cup {id}
          /\ Entered(pm.functionsByID, id, at)[id] = at
      BY <3>1 DEF Entered, EntriesStay
    <3>3. QED
      BY <3>2 DEF id
  <2> HIDE DEF byID, functions, at
  <2>7. Grows(pm.p, new.p)
    BY <1>1, <2>4, <2>5 DEF Grows, TableGrows
  <2>8. FunctionsSay(src, new)
    <3>1. ASSUME NEW j \in 1..Len(src.functions), src.functions[j].id \in DOMAIN byID
          PROVE  /\ functions[byID[src.functions[j].id]].name = src.functions[j].name
                 /\ functions[byID[src.functions[j].id]].file = src.functions[j].file
      <4> DEFINE g == src.functions[j]
      <4>1. CASE g.id = f.id
        <5>1. j = i
          BY <1>1, <4>1, Zenon
        <5>2. QED
          BY <2>4, <2>6, <5>1
      <4>2. CASE g.id # f.id
        <5>1. g.id \in DOMAIN pm.functionsByID
          BY <2>6, <3>1, <4>2
        <5>2. byID[g.id] = pm.functionsByID[g.id] /\ pm.functionsByID[g.id] \in 1..n
          BY <1>1, <2>6, <5>1, Zenon DEF EntriesStay
        <5>3. /\ pm.p.functions[pm.functionsByID[g.id]].name = g.name
              /\ pm.p.functions[pm.functionsByID[g.id]].file = g.file
          BY <5>1, Zenon DEF Faithful, FunctionsSay
        <5>4. QED
          BY <2>4, <5>2, <5>3, Zenon
      <4>3. QED
        BY <4>1, <4>2
    <3>2. QED
      BY <2>5, <3>1 DEF FunctionsSay
  <2>9. Faithful(src, new)
    BY <2>5, <2>7, <2>8, MappingsSayOn, LocationsSayOn DEF Faithful
  <2>10. Tidy(new.p)
    <3>1. FunctionsDiffer(new.p)
      BY <2>4, <2>5 DEF FunctionsDiffer
    <3>2. MappingsDiffer(new.p)
      BY <2>5 DEF Tidy, MappingsDiffer
    <3>3. LocationsDiffer(new.p)
      BY <2>5, <2>7, LocationsDifferOn DEF Tidy
    <3>4. QED
      BY <3>1, <3>2, <3>3 DEF Tidy
  <2>14. Apart(src, pm) => Apart(src, new)
    BY <2>5, ApartOn
  <2>11. Adds(src, pm, new)
    BY <2>5, <2>6, <2>7, <2>9, <2>10, <2>14 DEF Adds, EntriesStay
  <2>12. FunctionAdded(src, pm, f, new)
    BY <2>4, <2>5, <2>6, <2>11 DEF FunctionAdded
  <2>13. QED
    BY <2>12 DEF new
<1>4. QED
  BY <1>2, <1>3

(* Alike is symmetric, and does not look at the ID. *)
LEMMA AlikeEntries ==
    ASSUME NEW x, NEW m
    PROVE  /\ Alike(x, m) <=> Alike(m, x)
           /\ \A y : y.start = m.start /\ y.limit = m.limit /\ y.offset = m.offset
                     /\ y.build = m.build /\ y.file = m.file => (Alike(x, y) <=> Alike(x, m))
<1>1. \A a, b : SameRegion(a, b) <=> SameRegion(b, a)
  BY DEF SameRegion
<1>2. Alike(x, m) <=> Alike(m, x)
  BY <1>1, Zenon DEF Alike
<1>3. ASSUME NEW y, y.start = m.start, y.limit = m.limit, y.offset = m.offset
      PROVE  SameRegion(x, y) <=> SameRegion(x, m)
  BY <1>3 DEF SameRegion, Pages
<1>4. QED
  BY <1>2, <1>3, Zenon DEF Alike

(* A copy of a mapping is like what the mapping is like. *)
LEMMA CopyAlike ==
    ASSUME NEW x, NEW y, CopyOfMapping(x, y), NEW m
    PROVE  Alike(x, m) <=> Alike(y, m)
<1>1. Alike(m, x) <=> Alike(m, y)
  BY AlikeEntries, Zenon DEF CopyOfMapping
<1>2. QED
  BY <1>1, AlikeEntries, Zenon

(* A mapping that is known is like the one that is found. *)
LEMMA KnownIsAlike ==
    ASSUME NEW mappings \in Seq(Mappings), NEW m, NEW k, k = KnownMapping(mappings, m), k # 0
    PROVE  Alike(mappings[k], m)
<1> DEFINE B == {j \in 1..Len(mappings) : SameRegion(mappings[j], m) /\ mappings[j].build = m.build}
           F == {j \in 1..Len(mappings) : SameRegion(mappings[j], m) /\ mappings[j].file = m.file}
           b == SelectInSeq(mappings, LAMBDA x : SameRegion(x, m) /\ x.build = m.build)
           f == SelectInSeq(mappings, LAMBDA x : SameRegion(x, m) /\ x.file = m.file)
<1>1. b = (IF B # {} THEN Min(B) ELSE 0) /\ B \subseteq 1..Len(mappings)
  BY DEF SelectInSeq
<1>2. f = (IF F # {} THEN Min(F) ELSE 0) /\ F \subseteq 1..Len(mappings)
  BY DEF SelectInSeq
<1>3. ByBuild(mappings, m) = (IF m.build = "" THEN 0 ELSE b) /\ ByFile(mappings, m) = (IF m.file = "" THEN 0 ELSE f)
  BY Zenon DEF ByBuild, ByFile
<1> HIDE DEF b, f
<1>4. b # 0 => b \in B
  <2> HIDE DEF B
  <2>1. QED
    BY <1>1, FirstPlaceIs
<1>5. f # 0 => f \in F
  <2> HIDE DEF F
  <2>1. QED
    BY <1>2, FirstPlaceIs
<1>6. \/ m.build # "" /\ k = b
      \/ m.file # "" /\ k = f
  BY <1>3, Zenon DEF KnownMapping
<1>7. CASE m.build # "" /\ k = b
  BY <1>4, <1>7, Zenon DEF Alike
<1>8. CASE m.file # "" /\ k = f
  BY <1>5, <1>8, Zenon DEF Alike
<1>9. QED
  BY <1>6, <1>7, <1>8

(* A mapping that is not known is like none in the table. *)
LEMMA UnknownIsUnlike ==
    ASSUME NEW mappings \in Seq(Mappings), NEW m, KnownMapping(mappings, m) = 0
    PROVE  \A k \in 1..Len(mappings) : ~Alike(mappings[k], m)
<1> DEFINE B == {k \in 1..Len(mappings) : SameRegion(mappings[k], m) /\ mappings[k].build = m.build}
           F == {k \in 1..Len(mappings) : SameRegion(mappings[k], m) /\ mappings[k].file = m.file}
           b == SelectInSeq(mappings, LAMBDA x : SameRegion(x, m) /\ x.build = m.build)
           f == SelectInSeq(mappings, LAMBDA x : SameRegion(x, m) /\ x.file = m.file)
<1>1. b = (IF B # {} THEN Min(B) ELSE 0) /\ B \subseteq 1..Len(mappings)
  BY DEF SelectInSeq
<1>2. f = (IF F # {} THEN Min(F) ELSE 0) /\ F \subseteq 1..Len(mappings)
  BY DEF SelectInSeq
<1>3. ByBuild(mappings, m) = 0 /\ ByFile(mappings, m) = 0
  BY DEF KnownMapping
<1>4. ByBuild(mappings, m) = (IF m.build = "" THEN 0 ELSE b) /\ ByFile(mappings, m) = (IF m.file = "" THEN 0 ELSE f)
  BY Zenon DEF ByBuild, ByFile
<1> HIDE DEF b, f
<1>5. m.build # "" => B = {}
  <2> HIDE DEF B
  <2>1. b = 0 <=> B = {}
    BY <1>1, FirstPlaceIs
  <2>2. QED
    BY <1>3, <1>4, <2>1, Zenon
<1>6. m.file # "" => F = {}
  <2> HIDE DEF F
  <2>1. f = 0 <=> F = {}
    BY <1>2, FirstPlaceIs
  <2>2. QED
    BY <1>3, <1>4, <2>1, Zenon
<1>7. QED
  BY <1>5, <1>6, Zenon DEF Alike

(* mapMapping: the offset under the ID is where the merged mapping is from the *)
(* one of the source, and a mapping is added only under the ID.                *)
MappingAdded(src, pm, m, new) ==
    /\ Adds(src, pm, new)
    /\ new.p.functions = pm.p.functions /\ new.p.locations = pm.p.locations
    /\ new.functionsByID = pm.functionsByID /\ new.locationsByID = pm.locationsByID
    /\ \A x \in 1..Len(new.p.mappings) : x <= Len(pm.p.mappings) \/ x = new.mappingsByID[m.id].m

(* So does mapMapping with the mapping, and its search finds one alike. *)
LEMMA MapMappingAdds ==
    ASSUME NEW t, NEW pm, Merger(t, pm), NEW src, Fits(src), NEW i \in 1..Len(src.mappings),
           Faithful(src, pm), Tidy(pm.p)
    PROVE  MappingAdded(src, pm, src.mappings[i], MapMapping(pm, src.mappings[i]))
<1> DEFINE m == src.mappings[i]
           new == MapMapping(pm, m)
           n == Len(pm.p.mappings)
           known == KnownMapping(pm.p.mappings, m)
<1>1. /\ Fits(pm.p) /\ pm.p.mappings \in Seq(Mappings) /\ n \in Nat
      /\ Len(pm.p.functions) \in Nat /\ Len(pm.p.locations) \in Nat
      /\ src.mappings \in Seq(Mappings) /\ m \in Mappings
      /\ \A j \in 1..Len(src.mappings) : src.mappings[j].id = m.id => j = i
      /\ \A id \in DOMAIN pm.mappingsByID : pm.mappingsByID[id].m \in 1..n
  <2>1. Fits(pm.p) /\ \A id \in DOMAIN pm.mappingsByID : pm.mappingsByID[id].m \in 1..n
    BY DEF Merger
  <2>2. /\ src.mappings \in Seq(Mappings) /\ pm.p.mappings \in Seq(Mappings)
        /\ pm.p.functions \in Seq(Functions) /\ pm.p.locations \in Seq(Locations)
        /\ Numbered(src.mappings)
    BY <2>1 DEF Fits, TablesFit
  <2>3. \A j \in 1..Len(src.mappings) : src.mappings[j].id = m.id => j = i
    BY <2>2, Zenon DEF Numbered
  <2>4. m \in Mappings
    <3> HIDE DEF m
    <3>1. m = src.mappings[i]
      BY Zenon DEF m
    <3>2. QED
      BY <2>2, <3>1
  <2>5. n \in Nat /\ Len(pm.p.functions) \in Nat /\ Len(pm.p.locations) \in Nat
    BY ONLY <2>2
  <2>6. QED
    BY <2>1, <2>2, <2>3, <2>4, <2>5, Zenon
<1>2. CASE m.id \in DOMAIN pm.mappingsByID
  <2>1. new = pm
    BY <1>2 DEF MapMapping
  <2> HIDE DEF new
  <2>2. Adds(src, pm, pm)
    BY AddsNothing
  <2>3. MappingAdded(src, pm, m, new)
    BY <1>1, <2>1, <2>2 DEF MappingAdded
  <2>4. QED
    BY <2>3 DEF new
<1>3. CASE m.id \notin DOMAIN pm.mappingsByID
  <2>1. known \in 0..n
    BY <1>1, KnownMappingInRange
  <2>2. known = 0 => \A k \in 1..n : ~Alike(pm.p.mappings[k], m)
    BY <1>1, UnknownIsUnlike
  <2>3. new = FindMapping(pm, m, known)
    BY <1>3 DEF MapMapping
  <2>14. known # 0 => Alike(pm.p.mappings[known], m)
    BY <1>1, KnownIsAlike
  <2> HIDE DEF known, new
  <2> DEFINE at == IF known # 0 THEN known ELSE n + 1
             info == IF known # 0 THEN [m |-> known, offset |-> pm.p.mappings[known].start - m.start]
                     ELSE [m |-> n + 1, offset |-> 0]
             byID == Entered(pm.mappingsByID, m.id, info)
             entry == [m EXCEPT !.id = NewID(pm.p.mappings)]
             mappings == IF known # 0 THEN pm.p.mappings ELSE Append(pm.p.mappings, entry)
  <2>4. /\ mappings \in Seq(Mappings) /\ Len(mappings) \in Nat /\ n <= Len(mappings)
        /\ \A k \in 1..n : mappings[k] = pm.p.mappings[k]
        /\ \A k \in 1..Len(mappings) : k <= n \/ k = at
        /\ info.m = at /\ info.offset = mappings[at].start - m.start
        /\ \A j, k \in 1..Len(mappings) : Alike(mappings[j], mappings[k]) => j = k
        /\ known = 0 => at = n + 1 /\ Len(mappings) = n + 1 /\ CopyOfMapping(mappings[n + 1], m)
    <3>0. \A j, k \in 1..n : Alike(pm.p.mappings[j], pm.p.mappings[k]) => j = k
      BY DEF Tidy, MappingsDiffer
    <3>1. CASE known # 0
      <4>1. at = known /\ mappings = pm.p.mappings
            /\ info.m = known /\ info.offset = pm.p.mappings[known].start - m.start
        BY <3>1
      <4> HIDE DEF at, mappings, info
      <4>2. QED
        BY <1>1, <3>0, <3>1, <4>1
    <3>2. CASE known = 0
      <4>1. /\ entry \in Mappings /\ entry.start = m.start /\ entry.limit = m.limit /\ entry.offset = m.offset
            /\ entry.build = m.build /\ entry.file = m.file
        <5>1. NewID(pm.p.mappings) \in Nat
          BY <1>1 DEF NewID
        <5>2. ASSUME NEW id \in Nat, NEW u \in Mappings
              PROVE  LET e == [u EXCEPT !.id = id]
                     IN /\ e \in Mappings /\ e.start = u.start /\ e.limit = u.limit /\ e.offset = u.offset
                        /\ e.build = u.build /\ e.file = u.file
          BY DEF Mappings
        <5> HIDE DEF m
        <5>3. QED
          BY <1>1, <5>1, <5>2
      <4>2. at = n + 1 /\ mappings = Append(pm.p.mappings, entry)
            /\ info.m = n + 1 /\ info.offset = 0
        BY <3>2
      <4> HIDE DEF at, entry, info
      <4>3. /\ mappings \in Seq(Mappings) /\ Len(mappings) = n + 1
            /\ \A k \in 1..n : mappings[k] = pm.p.mappings[k]
            /\ mappings[n + 1] = entry
        BY <1>1, <4>1, <4>2
      <4> HIDE DEF mappings
      <4>4. \A k \in 1..n : ~Alike(mappings[k], entry) /\ ~Alike(entry, mappings[k])
        <5>1. \A k \in 1..n : ~Alike(mappings[k], m)
          BY <2>2, <3>2, <4>3
        <5>2. \A x : Alike(x, entry) <=> Alike(x, m)
          BY <4>1, AlikeEntries
        <5>3. QED
          BY <5>1, <5>2, AlikeEntries
      <4>5. \A k \in 1..Len(mappings) : k \in 1..n \/ k = n + 1
        BY <1>1, <4>3
      <4>6. ASSUME NEW j \in 1..Len(mappings), NEW k \in 1..Len(mappings), Alike(mappings[j], mappings[k])
            PROVE  j = k
        <5>1. CASE j \in 1..n /\ k \in 1..n
          BY <3>0, <4>3, <4>6, <5>1
        <5>2. CASE j = n + 1 \/ k = n + 1
          BY <4>3, <4>4, <4>5, <4>6, <5>2
        <5>3. QED
          BY <4>5, <5>1, <5>2
      <4>8. m.start \in Int /\ 0 = m.start - m.start
        <5> HIDE DEF m
        <5>1. m.start \in Int
          BY <1>1 DEF Mappings
        <5>2. QED
          BY <5>1
      <4>9. CopyOfMapping(mappings[n + 1], m)
        BY <4>1, <4>3, Zenon DEF CopyOfMapping
      <4>7. QED
        BY <1>1, <4>1, <4>2, <4>3, <4>5, <4>6, <4>8, <4>9
    <3>3. QED
      BY <3>1, <3>2
  <2>5. /\ new.mappingsByID = byID /\ new.p.mappings = mappings
        /\ new.p.functions = pm.p.functions /\ new.p.locations = pm.p.locations /\ new.p.samples = pm.p.samples
        /\ new.functionsByID = pm.functionsByID /\ new.locationsByID = pm.locationsByID
    <3>0. /\ {"p", "mappingsByID", "functionsByID", "locationsByID"} \subseteq DOMAIN pm
          /\ {"types", "samples", "mappings", "functions", "locations"} \subseteq DOMAIN pm.p
      BY DEF Merger, Fits, TypesFit
    <3>1. CASE known # 0
      <4>1. new = [pm EXCEPT !.mappingsByID = byID] /\ mappings = pm.p.mappings
        BY <2>3, <3>1 DEF FindMapping, ReuseMapping
      <4> HIDE DEF byID, mappings
      <4>2. QED
        BY <3>0, <4>1
    <3>2. CASE known = 0
      <4>1. new = [pm EXCEPT !.mappingsByID = byID, !.p = [pm.p EXCEPT !.mappings = mappings]]
        BY <2>3, <3>2, <3>0 DEF FindMapping, NewMapping
      <4> HIDE DEF byID, mappings
      <4>2. QED
        BY <3>0, <4>1
    <3>3. QED
      BY <3>1, <3>2
  <2>6. EntriesStay(pm.mappingsByID, byID) /\ DOMAIN byID = DOMAIN pm.mappingsByID \cup {m.id} /\ byID[m.id] = info
    <3> DEFINE id == m.id
    <3>1. id \notin DOMAIN pm.mappingsByID
      BY <1>3
    <3> HIDE DEF id, info
    <3>2. /\ EntriesStay(pm.mappingsByID, Entered(pm.mappingsByID, id, info))
          /\ DOMAIN Entered(pm.mappingsByID, id, info) = DOMAIN pm.mappingsByID \cup {id}
          /\ Entered(pm.mappingsByID, id, info)[id] = info
      BY <3>1 DEF Entered, EntriesStay
    <3>3. QED
      BY <3>2 DEF id
  <2> HIDE DEF byID, mappings, at, info
  <2>7. Grows(pm.p, new.p)
    BY <1>1, <2>4, <2>5 DEF Grows, TableGrows
  <2>8. MappingsSay(src, new)
    <3>1. ASSUME NEW j \in 1..Len(src.mappings), src.mappings[j].id \in DOMAIN byID
          PROVE  byID[src.mappings[j].id].offset = mappings[byID[src.mappings[j].id].m].start - src.mappings[j].start
      <4> DEFINE g == src.mappings[j]
      <4>1. CASE g.id = m.id
        <5>1. j = i
          BY <1>1, <4>1, Zenon
        <5>2. QED
          BY <2>4, <2>6, <5>1
      <4>2. CASE g.id # m.id
        <5>1. g.id \in DOMAIN pm.mappingsByID
          BY <2>6, <3>1, <4>2
        <5>2. byID[g.id] = pm.mappingsByID[g.id] /\ pm.mappingsByID[g.id].m \in 1..n
          BY <1>1, <2>6, <5>1, Zenon DEF EntriesStay
        <5>3. pm.mappingsByID[g.id].offset = pm.p.mappings[pm.mappingsByID[g.id].m].start - g.start
          BY <5>1, Zenon DEF Faithful, MappingsSay
        <5>4. QED
          BY <2>4, <5>2, <5>3, Zenon
      <4>3. QED
        BY <4>1, <4>2
    <3>2. QED
      BY <2>5, <3>1 DEF MappingsSay
  <2>9. Faithful(src, new)
    BY <2>5, <2>7, <2>8, FunctionsSayOn, LocationsSayOn DEF Faithful
  <2>10. Tidy(new.p)
    <3>1. MappingsDiffer(new.p)
      BY <2>4, <2>5 DEF MappingsDiffer
    <3>2. FunctionsDiffer(new.p)
      BY <2>5 DEF Tidy, FunctionsDiffer
    <3>3. LocationsDiffer(new.p)
      BY <2>5, <2>7, LocationsDifferOn DEF Tidy
    <3>4. QED
      BY <3>1, <3>2, <3>3 DEF Tidy
  <2>15. ASSUME Apart(src, pm) PROVE Apart(src, new)
    <3>1. known = 0
      <4>1. ASSUME known # 0 PROVE FALSE
        <5>1. known \in 1..Len(pm.p.mappings)
          BY <2>1, <4>1
        <5>2. PICK j \in 1..Len(src.mappings) :
                /\ CopyOfMapping(pm.p.mappings[known], src.mappings[j])
                /\ src.mappings[j].id \in DOMAIN pm.mappingsByID
          BY <2>15, <5>1, Zenon DEF Apart, MappingsCopied
        <5>3. Alike(src.mappings[j], m)
          BY <2>14, <4>1, <5>2, CopyAlike, Zenon
        <5>4. j = i
          BY <2>15, <5>3, Zenon DEF Apart, MappingsDiffer
        <5>5. QED
          BY <1>3, <5>2, <5>4, Zenon
      <4>2. QED
        BY <4>1
    <3>2. /\ at = n + 1 /\ Len(mappings) = n + 1 /\ CopyOfMapping(mappings[n + 1], m)
          /\ info.m = n + 1 /\ \A x \in 1..Len(mappings) : x \in 1..n \/ x = n + 1
          /\ \A x \in 1..n : mappings[x] = pm.p.mappings[x] /\ x # n + 1
      BY <1>1, <2>4, <3>1
    <3>3. /\ m.id \in DOMAIN byID /\ byID[m.id].m = n + 1
          /\ \A id \in DOMAIN byID : id = m.id \/ id \in DOMAIN pm.mappingsByID
          /\ \A id \in DOMAIN pm.mappingsByID : id \in DOMAIN byID /\ byID[id] = pm.mappingsByID[id]
      BY <2>6, <3>2, Zenon DEF EntriesStay
    <3>4. MappingsCopied(src, new)
      <4>1. ASSUME NEW x \in 1..Len(mappings)
            PROVE  \E j \in 1..Len(src.mappings) :
                      /\ CopyOfMapping(mappings[x], src.mappings[j])
                      /\ src.mappings[j].id \in DOMAIN byID /\ byID[src.mappings[j].id].m = x
        <5>1. CASE x \in 1..n
          <6>1. PICK j \in 1..Len(src.mappings) :
                  /\ CopyOfMapping(pm.p.mappings[x], src.mappings[j])
                  /\ src.mappings[j].id \in DOMAIN pm.mappingsByID
                  /\ pm.mappingsByID[src.mappings[j].id].m = x
            BY <2>15, <5>1, Zenon DEF Apart, MappingsCopied
          <6>2. QED
            BY <3>2, <3>3, <5>1, <6>1, Zenon
        <5>2. CASE x = n + 1
          BY <3>2, <3>3, <5>2, Zenon
        <5>3. QED
          BY <3>2, <5>1, <5>2, Zenon
      <4>2. QED
        BY <2>5, <4>1, Zenon DEF MappingsCopied
    <3>5. OwnMappings(src, new)
      <4>1. ASSUME NEW a \in 1..Len(src.mappings), NEW b \in 1..Len(src.mappings),
                   src.mappings[a].id \in DOMAIN byID, src.mappings[b].id \in DOMAIN byID,
                   byID[src.mappings[a].id].m = byID[src.mappings[b].id].m
            PROVE  a = b
        <5>1. \A c \in 1..Len(src.mappings) :
                  src.mappings[c].id \in DOMAIN byID =>
                      \/ c = i /\ byID[src.mappings[c].id].m = n + 1
                      \/ /\ src.mappings[c].id \in DOMAIN pm.mappingsByID
                         /\ byID[src.mappings[c].id].m = pm.mappingsByID[src.mappings[c].id].m
                         /\ byID[src.mappings[c].id].m # n + 1
          BY <1>1, <3>2, <3>3, Zenon
        <5>2. QED
          BY <2>15, <4>1, <5>1, Zenon DEF Apart, OwnMappings
      <4>2. QED
        BY <2>5, <4>1, Zenon DEF OwnMappings
    <3>6. LocationsRefer(src, new)
      <4>1. \A l, x : RefersAs(src, pm, l, x) => RefersAs(src, new, l, x)
        BY <2>5, <3>3, Zenon DEF RefersAs
      <4>2. QED
        BY <2>5, <2>15, <4>1, Zenon DEF Apart, LocationsRefer
    <3>7. QED
      BY <2>15, <3>4, <3>5, <3>6, Zenon DEF Apart
  <2>11. Adds(src, pm, new)
    BY <2>5, <2>6, <2>7, <2>9, <2>10, <2>15 DEF Adds, EntriesStay
  <2>12. MappingAdded(src, pm, m, new)
    BY <2>4, <2>5, <2>6, <2>11 DEF MappingAdded
  <2>13. QED
    BY <2>12 DEF new
<1>4. QED
  BY <1>2, <1>3

(* The references of a location add what it refers to, and nothing else. *)
FunctionsAdded(k, n, acc) ==
    /\ Merger(k.t, acc) /\ Adds(k.src, k.pm, acc)
    /\ acc.p.mappings = k.pm.p.mappings /\ acc.p.locations = k.pm.p.locations
    /\ acc.mappingsByID = k.pm.mappingsByID /\ acc.locationsByID = k.pm.locationsByID
    /\ \A j \in 1..n :
        k.lines[j].function # 0 => k.src.functions[k.lines[j].function].id \in DOMAIN acc.functionsByID
    /\ \A x \in 1..Len(acc.p.functions) :
        \/ x <= Len(k.pm.p.functions)
        \/ \E j \in 1..n :
            /\ k.lines[j].function # 0
            /\ x = acc.functionsByID[k.src.functions[k.lines[j].function].id]
LinesAdded == INSTANCE FoldLaws WITH Op <- FunctionOf, Holds <- FunctionsAdded

(* The references of a location are a fold over its lines, from its mapping. *)
LEMMA WithReferencesAddsLines ==
    ASSUME NEW pm, NEW src, NEW l
    PROVE  WithReferences(pm, src, l) =
              LinesAdded!Fold(src, IF l.mapping = Nil THEN pm ELSE MapMapping(pm, src.mappings[l.mapping]), l.lines)
BY Zenon DEF WithReferences, FunctionOf, LinesAdded!Fold, FoldLeft, MapThenFoldSet,
   LinesAdded!MapThenFoldSet, LinesAdded!Largest, Max

Referenced(src, pm, l, new) ==
    /\ Adds(src, pm, new)
    /\ new.p.locations = pm.p.locations /\ new.locationsByID = pm.locationsByID
    /\ \A x \in 1..Len(new.p.mappings) :
        \/ x <= Len(pm.p.mappings)
        \/ l.mapping # 0 /\ x = new.mappingsByID[src.mappings[l.mapping].id].m
    /\ \A x \in 1..Len(new.p.functions) :
        \/ x <= Len(pm.p.functions)
        \/ \E j \in 1..Len(l.lines) :
            l.lines[j].function # 0 /\ x = new.functionsByID[src.functions[l.lines[j].function].id]

(* One more line, whose function is mapped. *)
LEMMA LineAdded ==
    ASSUME NEW k, Fits(k.src), NEW n \in Nat, NEW acc, FunctionsAdded(k, n, acc),
           k.lines[n + 1].function \in 0..Len(k.src.functions)
    PROVE  FunctionsAdded(k, n + 1, FunctionOf(k.src, acc, k.lines[n + 1]))
<1> DEFINE src == k.src
           i == n + 1
           f == k.lines[i].function
           after == FunctionOf(src, acc, k.lines[i])
           Id(j) == src.functions[k.lines[j].function].id
<1>1. /\ Merger(k.t, acc) /\ Adds(src, k.pm, acc)
      /\ acc.p.mappings = k.pm.p.mappings /\ acc.p.locations = k.pm.p.locations
      /\ acc.mappingsByID = k.pm.mappingsByID /\ acc.locationsByID = k.pm.locationsByID
      /\ \A j \in 1..n : k.lines[j].function # 0 => Id(j) \in DOMAIN acc.functionsByID
      /\ \A x \in 1..Len(acc.p.functions) :
            \/ x <= Len(k.pm.p.functions)
            \/ \E j \in 1..n : k.lines[j].function # 0 /\ x = acc.functionsByID[Id(j)]
  BY Zenon DEF FunctionsAdded
<1>2. (\A j \in 1..i : j \in 1..n \/ j = i) /\ (\A j \in 1..n : j \in 1..i) /\ i \in 1..i
  OBVIOUS
<1>3. CASE f = 0
  <2>1. after = acc
    BY <1>3, Zenon DEF FunctionOf, Nil
  <2> HIDE DEF after
  <2>2. \A j \in 1..i : k.lines[j].function # 0 => Id(j) \in DOMAIN acc.functionsByID
    BY <1>1, <1>2, <1>3, Zenon
  <2>3. \A x \in 1..Len(acc.p.functions) :
            \/ x <= Len(k.pm.p.functions)
            \/ \E j \in 1..i : k.lines[j].function # 0 /\ x = acc.functionsByID[Id(j)]
    BY <1>1, <1>2, Zenon
  <2>4. FunctionsAdded(k, i, after)
    BY <1>1, <2>1, <2>2, <2>3, Zenon DEF FunctionsAdded
  <2>5. QED
    BY <2>4 DEF after
<1>4. CASE f # 0
  <2>1. f \in 1..Len(src.functions)
    BY <1>4
  <2>2. src.functions[f] \in Functions
    <3>1. src.functions \in Seq(Functions)
      BY Zenon DEF Fits, TablesFit
    <3> HIDE DEF f, src
    <3>2. QED
      BY ONLY <2>1, <3>1
  <2>3. after = MapFunction(acc, src.functions[f])
    BY <1>4 DEF FunctionOf, Nil
  <2> HIDE DEF after
  <2>4. Merger(k.t, after) /\ src.functions[f].id \in DOMAIN after.functionsByID
    BY <1>1, <2>2, <2>3, MapFunctionFits, Zenon
  <2>5. FunctionAdded(src, acc, src.functions[f], after)
    <3>1. Faithful(src, acc) /\ Tidy(acc.p)
      BY <1>1, Zenon DEF Adds
    <3> HIDE DEF f
    <3>2. QED
      BY <1>1, <2>1, <2>3, <3>1, MapFunctionAdds, Zenon
  <2>6. Adds(src, k.pm, after)
    BY <1>1, <2>5, AddsMore, Zenon DEF FunctionAdded
  <2>7. EntriesStay(acc.functionsByID, after.functionsByID) /\ Len(acc.p.functions) \in Nat
        /\ Len(after.p.functions) \in Nat
        /\ \A x \in 1..Len(after.p.functions) : x <= Len(acc.p.functions) \/ x = after.functionsByID[Id(i)]
    BY <2>5, Zenon DEF FunctionAdded, Adds, Grows, TableGrows
  <2>8. \A j \in 1..i : k.lines[j].function # 0 => Id(j) \in DOMAIN after.functionsByID
    BY <1>1, <1>2, <2>4, <2>7, Zenon DEF EntriesStay
  <2>9. ASSUME NEW x \in 1..Len(after.p.functions), ~(x <= Len(k.pm.p.functions))
        PROVE  \E j \in 1..i : k.lines[j].function # 0 /\ x = after.functionsByID[Id(j)]
    <3>1. CASE x <= Len(acc.p.functions)
      <4>0. x \in 1..Len(acc.p.functions)
        <5> DEFINE a == Len(acc.p.functions)
                   b == Len(after.p.functions)
        <5>1. a \in Nat /\ b \in Nat
          BY <2>7, Zenon
        <5>2. x \in 1..b
          BY <2>9, Zenon
        <5>3. x <= a
          BY <3>1, Zenon
        <5> HIDE DEF a, b
        <5>4. x \in 1..a
          BY ONLY <5>1, <5>2, <5>3
        <5>5. QED
          BY <5>4, Zenon DEF a
      <4>1. PICK j \in 1..n : k.lines[j].function # 0 /\ x = acc.functionsByID[Id(j)]
        BY <1>1, <2>9, <4>0, Zenon
      <4>2. after.functionsByID[Id(j)] = acc.functionsByID[Id(j)]
        BY <1>1, <2>7, <4>1, Zenon DEF EntriesStay
      <4>3. QED
        BY <1>2, <4>1, <4>2, Zenon
    <3>2. CASE ~(x <= Len(acc.p.functions))
      BY <1>2, <1>4, <2>7, <3>2, Zenon
    <3>3. QED
      BY <3>1, <3>2, Zenon
  <2>10. FunctionsAdded(k, i, after)
    <3>1. /\ after.p.mappings = k.pm.p.mappings /\ after.p.locations = k.pm.p.locations
          /\ after.mappingsByID = k.pm.mappingsByID /\ after.locationsByID = k.pm.locationsByID
      BY <1>1, <2>5, Zenon DEF FunctionAdded
    <3>2. QED
      BY <2>4, <2>6, <2>8, <2>9, <3>1, Zenon DEF FunctionsAdded
  <2>11. QED
    BY <2>10 DEF after
<1>5. QED
  BY <1>3, <1>4, Zenon

(* All the references of a location, entered. *)
LEMMA WithReferencesAdds ==
    ASSUME NEW t, NEW pm, Merger(t, pm), NEW src, Fits(src), NEW l, LocationFits(src, l),
           Faithful(src, pm), Tidy(pm.p)
    PROVE  Referenced(src, pm, l, WithReferences(pm, src, l))
<1> DEFINE new == WithReferences(pm, src, l)
           base == IF l.mapping = Nil THEN pm ELSE MapMapping(pm, src.mappings[l.mapping])
           k == [t |-> t, pm |-> base, src |-> src, lines |-> l.lines]
           n == Len(l.lines)
<1>1. /\ l.mapping \in 0..Len(src.mappings) /\ DOMAIN l.lines = 1..n /\ n \in Nat
      /\ \A j \in 1..n : l.lines[j].function \in 0..Len(src.functions)
      /\ Len(pm.p.functions) \in Nat
  BY DEF LocationFits, Locations, Merger, Fits, TablesFit
<1>2. /\ Merger(t, base) /\ Adds(src, pm, base)
      /\ base.p.functions = pm.p.functions /\ base.p.locations = pm.p.locations
      /\ base.locationsByID = pm.locationsByID
      /\ \A x \in 1..Len(base.p.mappings) :
            \/ x <= Len(pm.p.mappings)
            \/ l.mapping # 0 /\ x = base.mappingsByID[src.mappings[l.mapping].id].m
  <2>1. CASE l.mapping = 0
    <3>1. base = pm /\ Len(pm.p.mappings) \in Nat
      BY <2>1 DEF Nil, Merger, Fits, TablesFit
    <3> HIDE DEF base
    <3>2. QED
      BY <3>1, AddsNothing
  <2>2. CASE l.mapping # 0
    <3> DEFINE a == l.mapping
    <3>1. a \in 1..Len(src.mappings) /\ base = MapMapping(pm, src.mappings[a])
      BY <1>1, <2>2 DEF Nil
    <3>2. src.mappings[a] \in Mappings
      BY <3>1 DEF Fits, TablesFit
    <3> HIDE DEF base, a
    <3>3. Merger(t, base) /\ MappingAdded(src, pm, src.mappings[a], base)
      BY <3>1, <3>2, MapMappingFits, MapMappingAdds
    <3>4. QED
      BY <2>2, <3>3 DEF MappingAdded, a
  <2>3. QED
    BY <2>1, <2>2
<1> HIDE DEF base
<1>3. k.t = t /\ k.pm = base /\ k.src = src /\ k.lines = l.lines
  OBVIOUS
<1> HIDE DEF k
<1>4. FunctionsAdded(k, 0, base)
  <2>1. Adds(src, base, base)
    BY <1>2, AddsNothing DEF Adds
  <2>2. QED
    BY <1>1, <1>2, <1>3, <2>1 DEF FunctionsAdded
<1>5. ASSUME NEW i \in 1..n, NEW acc, FunctionsAdded(k, i - 1, acc)
      PROVE  FunctionsAdded(k, i, FunctionOf(src, acc, l.lines[i]))
  <2>1. i - 1 \in Nat /\ (i - 1) + 1 = i /\ k.lines[i].function \in 0..Len(k.src.functions)
    BY <1>1, <1>3
  <2>2. FunctionsAdded(k, (i - 1) + 1, FunctionOf(k.src, acc, k.lines[(i - 1) + 1]))
    BY <1>3, <1>5, <2>1, LineAdded
  <2>3. QED
    BY <1>3, <2>1, <2>2
<1>6. FunctionsAdded(k, n, LinesAdded!Fold(src, base, l.lines))
  BY <1>1, <1>4, <1>5, LinesAdded!FoldInduction
<1>7. FunctionsAdded(k, n, new)
  BY <1>6, WithReferencesAddsLines DEF base
<1> HIDE DEF new
<1>8. /\ Adds(src, base, new) /\ new.p.mappings = base.p.mappings /\ new.p.locations = base.p.locations
      /\ new.mappingsByID = base.mappingsByID /\ new.locationsByID = base.locationsByID
      /\ \A x \in 1..Len(new.p.functions) :
            \/ x <= Len(base.p.functions)
            \/ \E j \in 1..n : l.lines[j].function # 0 /\ x = new.functionsByID[src.functions[l.lines[j].function].id]
  BY <1>3, <1>7 DEF FunctionsAdded
<1>9. Adds(src, pm, new)
  BY <1>2, <1>8, AddsMore
<1>10. QED
  BY <1>2, <1>8, <1>9 DEF Referenced, new

(* The counterpart of a location says what the location says. *)
LEMMA LineCounterpartSays ==
    ASSUME NEW t, NEW pm, Merger(t, pm), NEW src, Fits(src), FunctionsSay(src, pm),
           NEW ln \in Lines, ln.function \in 0..Len(src.functions),
           ln.function # 0 => src.functions[ln.function].id \in DOMAIN pm.functionsByID
    PROVE  SaidByLine(pm.p, LineCounterpart(pm, src, ln)) = SaidByLine(src, ln)
<1> DEFINE f == IF ln.function = Nil THEN Nil ELSE pm.functionsByID[src.functions[ln.function].id]
           new == LineCounterpart(pm, src, ln)
<1>1. new = [ln EXCEPT !.function = f]
  BY DEF LineCounterpart
<1>2. CASE ln.function = 0
  <2>1. f = 0
    BY <1>2 DEF Nil
  <2> HIDE DEF new, f
  <2>2. new.function = 0 /\ new.line = ln.line
    BY <1>1, <2>1 DEF Lines
  <2>3. SaidByLine(pm.p, new) = SaidByLine(src, ln)
    BY <1>2, <2>2 DEF SaidByLine, Nil
  <2>4. QED
    BY <2>3 DEF new
<1>3. CASE ln.function # 0
  <2> DEFINE id == src.functions[ln.function].id
  <2>1. ln.function \in 1..Len(src.functions) /\ id \in DOMAIN pm.functionsByID /\ f = pm.functionsByID[id]
    <3>1. ln.function \in 0..Len(src.functions)
      OBVIOUS
    <3>2. ln.function \in 1..Len(src.functions)
      BY ONLY <1>3, <3>1
    <3>3. id \in DOMAIN pm.functionsByID /\ f = pm.functionsByID[id]
      BY <1>3, Zenon DEF Nil
    <3>4. QED
      BY <3>2, <3>3, Zenon
  <2>2. /\ pm.p.functions[f].name = src.functions[ln.function].name
        /\ pm.p.functions[f].file = src.functions[ln.function].file
    BY <2>1, Zenon DEF FunctionsSay
  <2>3. f \in 1..Len(pm.p.functions)
    BY <2>1 DEF Merger, ByIDFit
  <2>4. f # 0
    BY <2>3
  <2> HIDE DEF new, f
  <2>5. new.function = f /\ new.line = ln.line
    BY <1>1 DEF Lines
  <2>6. SaidByLine(pm.p, new) = SaidByLine(src, ln)
    BY <1>3, <2>2, <2>4, <2>5 DEF SaidByLine, Nil
  <2>7. QED
    BY <2>6 DEF new
<1>4. QED
  BY <1>2, <1>3

(* So the counterpart of a location says what the location says. *)
LEMMA CounterpartSays ==
    ASSUME NEW t, NEW pm, Merger(t, pm), NEW src, Fits(src), Faithful(src, pm),
           NEW l, LocationFits(src, l),
           l.mapping # 0 => src.mappings[l.mapping].id \in DOMAIN pm.mappingsByID,
           \A j \in 1..Len(l.lines) :
              l.lines[j].function # 0 => src.functions[l.lines[j].function].id \in DOMAIN pm.functionsByID
    PROVE  SaidByLocation(pm.p, Counterpart(pm, src, l)) = SaidByLocation(src, l)
<1> DEFINE info == MapInfo(pm, src, l)
           lines == [j \in DOMAIN l.lines |-> LineCounterpart(pm, src, l.lines[j])]
           new == [id |-> NewID(pm.p.locations), mapping |-> info.m,
                   address |-> l.address + info.offset, lines |-> lines]
<1>1. /\ l \in Locations /\ l.mapping \in 0..Len(src.mappings) /\ l.lines \in Seq(Lines)
      /\ DOMAIN l.lines = 1..Len(l.lines) /\ l.address \in Int
      /\ \A j \in 1..Len(l.lines) : l.lines[j] \in Lines /\ l.lines[j].function \in 0..Len(src.functions)
  BY DEF LocationFits, Locations
<1>2. Counterpart(pm, src, l) = new
  BY DEF Counterpart
<1>3. ASSUME NEW j \in DOMAIN l.lines
      PROVE  SaidByLine(pm.p, LineCounterpart(pm, src, l.lines[j])) = SaidByLine(src, l.lines[j])
  <2> DEFINE ln == l.lines[j]
  <2>1. ln \in Lines /\ ln.function \in 0..Len(src.functions)
        /\ (ln.function # 0 => src.functions[ln.function].id \in DOMAIN pm.functionsByID)
    BY <1>1
  <2> HIDE DEF ln
  <2>2. FunctionsSay(src, pm)
    BY DEF Faithful
  <2>3. SaidByLine(pm.p, LineCounterpart(pm, src, ln)) = SaidByLine(src, ln)
    BY <2>1, <2>2, LineCounterpartSays
  <2>4. QED
    BY <2>3 DEF ln
<1>4. DOMAIN lines = DOMAIN l.lines
      /\ [j \in DOMAIN lines |-> SaidByLine(pm.p, lines[j])] = [j \in DOMAIN l.lines |-> SaidByLine(src, l.lines[j])]
  BY <1>3
<1> HIDE DEF lines
<1>5. CASE l.mapping = 0
  <2>1. info.m = 0 /\ info.offset = 0
    BY <1>5 DEF MapInfo, Nil
  <2> HIDE DEF info
  <2>2. new.mapping = 0 /\ new.address = l.address /\ new.lines = lines
    BY <1>1, <2>1
  <2> HIDE DEF new
  <2>3. QED
    BY <1>2, <1>4, <1>5, <2>2 DEF SaidByLocation, Nil
<1>6. CASE l.mapping # 0
  <2> DEFINE m == src.mappings[l.mapping]
             at == pm.p.mappings[info.m]
  <2>1. info = pm.mappingsByID[m.id] /\ m.id \in DOMAIN pm.mappingsByID /\ l.mapping \in 1..Len(src.mappings)
    BY <1>1, <1>6 DEF MapInfo, Nil
  <2>2. info.m \in 1..Len(pm.p.mappings) /\ info.offset = at.start - m.start
    BY <2>1, Zenon DEF Merger, Faithful, MappingsSay
  <2>3. at \in Mappings /\ m \in Mappings
    <3>1. pm.p.mappings \in Seq(Mappings) /\ src.mappings \in Seq(Mappings)
      BY DEF Merger, Fits, TablesFit
    <3>2. info.m \in 1..Len(pm.p.mappings) /\ l.mapping \in 1..Len(src.mappings)
      BY <2>1, <2>2, Zenon
    <3> HIDE DEF info
    <3>3. QED
      BY ONLY <3>1, <3>2
  <2> HIDE DEF info, at, m
  <2>4. at.start \in Int /\ m.start \in Int /\ info.m # 0
    BY <2>2, <2>3 DEF Mappings
  <2>5. new.mapping = info.m /\ new.address = l.address + info.offset /\ new.lines = lines
    OBVIOUS
  <2> HIDE DEF new
  <2>6. new.address - at.start = l.address - m.start
    BY <1>1, <2>2, <2>4, <2>5
  <2>7. /\ SaidByLocation(pm.p, new).address = l.address - m.start
        /\ SaidByLocation(src, l).address = l.address - m.start
    BY <1>6, <2>4, <2>5, <2>6 DEF SaidByLocation, Nil, at, m
  <2>8. SaidByLocation(pm.p, new) = SaidByLocation(src, l)
    BY <1>4, <1>6, <2>4, <2>5, <2>7 DEF SaidByLocation, Nil
  <2>9. QED
    BY <1>2, <2>8
<1>7. QED
  BY <1>5, <1>6

(* Locations with one key say the same. *)
LEMMA KeySays ==
    ASSUME NEW p, NEW x, NEW y, LocationKey(p, x) = LocationKey(p, y)
    PROVE  /\ x.mapping = y.mapping /\ x.lines = y.lines
           /\ SaidByLocation(p, x) = SaidByLocation(p, y)
<1>1. /\ x.mapping = y.mapping /\ x.lines = y.lines
      /\ (IF x.mapping = Nil THEN x.address ELSE x.address - p.mappings[x.mapping].start)
         = (IF y.mapping = Nil THEN y.address ELSE y.address - p.mappings[y.mapping].start)
  BY DEF LocationKey
<1>2. QED
  BY <1>1 DEF SaidByLocation

(* mapLocation's search: what the ID stands for then has the mapping and the *)
(* lines of the entry, and a location is added only under the ID.            *)
LocationEntered(src, pm, l, entry, new) ==
    /\ Adds(src, pm, new)
    /\ new.p.mappings = pm.p.mappings /\ new.p.functions = pm.p.functions
    /\ \A x \in 1..Len(new.p.locations) : x <= Len(pm.p.locations) \/ x = new.locationsByID[l.id]
    /\ new.locationsByID[l.id] \in 1..Len(new.p.locations)
    /\ new.p.locations[new.locationsByID[l.id]].mapping = entry.mapping
    /\ new.p.locations[new.locationsByID[l.id]].lines = entry.lines

(* A location that is found or appended is entered under the ID. *)
LEMMA AddLocationAdds ==
    ASSUME NEW t, NEW pm, Merger(t, pm), NEW src, Fits(src), NEW i \in 1..Len(src.locations),
           src.locations[i].id \notin DOMAIN pm.locationsByID, Faithful(src, pm), Tidy(pm.p),
           NEW entry \in Locations, LocationFits(pm.p, entry),
           SaidByLocation(pm.p, entry) = SaidByLocation(src, src.locations[i]),
           RefersAs(src, pm, src.locations[i], entry)
    PROVE  LocationEntered(src, pm, src.locations[i], entry, AddLocation(pm, src.locations[i], entry))
<1> DEFINE l == src.locations[i]
           new == AddLocation(pm, l, entry)
           n == Len(pm.p.locations)
           known == KnownLocation(pm.p, entry)
           I == {k \in 1..n : LocationKey(pm.p, pm.p.locations[k]) = LocationKey(pm.p, entry)}
           at == IF known # 0 THEN known ELSE n + 1
           byID == Entered(pm.locationsByID, l.id, at)
           locations == IF known # 0 THEN pm.p.locations ELSE Append(pm.p.locations, entry)
<1>1. /\ Fits(pm.p) /\ pm.p.locations \in Seq(Locations) /\ n \in Nat
      /\ Len(pm.p.functions) \in Nat /\ Len(pm.p.mappings) \in Nat
      /\ src.locations \in Seq(Locations)
      /\ \A j \in 1..Len(src.locations) : src.locations[j].id = l.id => j = i
      /\ \A id \in DOMAIN pm.locationsByID : pm.locationsByID[id] \in 1..n
  <2>1. /\ Fits(pm.p) /\ pm.p.locations \in Seq(Locations)
        /\ pm.p.functions \in Seq(Functions) /\ pm.p.mappings \in Seq(Mappings)
        /\ \A id \in DOMAIN pm.locationsByID : pm.locationsByID[id] \in 1..n
    BY Zenon DEF Merger, Fits, TablesFit, ByIDFit
  <2>2. n \in Nat /\ Len(pm.p.functions) \in Nat /\ Len(pm.p.mappings) \in Nat
    BY ONLY <2>1
  <2>3. src.locations \in Seq(Locations) /\ Numbered(src.locations)
    BY Zenon DEF Fits, TablesFit
  <2>4. \A j \in 1..Len(src.locations) : src.locations[j].id = l.id => j = i
    BY ONLY <2>3, i \in 1..Len(src.locations) DEF Numbered
  <2>5. QED
    BY <2>1, <2>2, <2>3, <2>4
<1>2. (known = 0 <=> I = {}) /\ (known # 0 => known \in I) /\ known \in 0..n
  <2>1. known = IF I # {} THEN Min(I) ELSE 0
    BY DEF KnownLocation, SelectInSeq
  <2>2. I \subseteq 1..Len(pm.p.locations)
    OBVIOUS
  <2> HIDE DEF I, known, n
  <2>3. (known = 0 <=> I = {}) /\ (known # 0 => known \in I) /\ known \in 0..Len(pm.p.locations)
    BY <1>1, <2>1, <2>2, FirstPlaceIs
  <2>4. QED
    BY <2>3 DEF n
<1>3. new = FindLocation(pm, l, entry, known)
  BY DEF AddLocation
<1> HIDE DEF known, new
<1>4. /\ locations \in Seq(Locations) /\ Len(locations) \in Nat /\ n <= Len(locations)
      /\ \A k \in 1..n : locations[k] = pm.p.locations[k]
      /\ \A k \in 1..Len(locations) : k <= n \/ k = at
      /\ at \in 1..Len(locations)
      /\ LocationKey(pm.p, locations[at]) = LocationKey(pm.p, entry)
      /\ \A j, k \in 1..Len(locations) :
            LocationKey(pm.p, locations[j]) = LocationKey(pm.p, locations[k]) => j = k
  <2>0. \A j, k \in 1..n :
            LocationKey(pm.p, pm.p.locations[j]) = LocationKey(pm.p, pm.p.locations[k]) => j = k
    BY DEF Tidy, LocationsDiffer
  <2>1. CASE known # 0
    <3>1. at = known /\ locations = pm.p.locations /\ known \in I
      BY <1>2, <2>1
    <3> HIDE DEF at, locations
    <3>2. QED
      BY <1>1, <2>0, <3>1
  <2>2. CASE known = 0
    <3>1. at = n + 1 /\ locations = Append(pm.p.locations, entry)
      BY <2>2
    <3> HIDE DEF at
    <3>2. /\ locations \in Seq(Locations) /\ Len(locations) = n + 1
          /\ \A k \in 1..n : locations[k] = pm.p.locations[k]
          /\ locations[n + 1] = entry
      BY <1>1, <3>1
    <3> HIDE DEF locations
    <3>3. \A k \in 1..n : LocationKey(pm.p, locations[k]) # LocationKey(pm.p, entry)
      BY <1>2, <2>2, <3>2
    <3>4. \A k \in 1..Len(locations) : k \in 1..n \/ k = n + 1
      BY <1>1, <3>2
    <3>5. ASSUME NEW j \in 1..Len(locations), NEW k \in 1..Len(locations),
                 LocationKey(pm.p, locations[j]) = LocationKey(pm.p, locations[k])
          PROVE  j = k
      <4>1. CASE j \in 1..n /\ k \in 1..n
        BY <2>0, <3>2, <3>5, <4>1
      <4>2. CASE j = n + 1 \/ k = n + 1
        BY <3>2, <3>3, <3>4, <3>5, <4>2
      <4>3. QED
        BY <3>4, <3>5, <4>1, <4>2
    <3>6. QED
      BY <1>1, <3>1, <3>2, <3>4, <3>5
  <2>3. QED
    BY <2>1, <2>2
<1>5. /\ new.locationsByID = byID /\ new.p.locations = locations
      /\ new.p.functions = pm.p.functions /\ new.p.mappings = pm.p.mappings /\ new.p.samples = pm.p.samples
      /\ new.functionsByID = pm.functionsByID /\ new.mappingsByID = pm.mappingsByID
  <2>0. /\ {"p", "mappingsByID", "functionsByID", "locationsByID"} \subseteq DOMAIN pm
        /\ {"types", "samples", "mappings", "functions", "locations"} \subseteq DOMAIN pm.p
    BY DEF Merger, Fits, TypesFit
  <2>1. CASE known # 0
    <3>1. new = [pm EXCEPT !.locationsByID = byID] /\ locations = pm.p.locations
      BY <1>3, <2>1 DEF FindLocation
    <3> HIDE DEF byID, locations
    <3>2. QED
      BY <2>0, <3>1
  <2>2. CASE known = 0
    <3>1. new = [pm EXCEPT !.locationsByID = byID, !.p = [pm.p EXCEPT !.locations = locations]]
      BY <1>3, <2>0, <2>2 DEF FindLocation
    <3> HIDE DEF byID, locations
    <3>2. QED
      BY <2>0, <3>1
  <2>3. QED
    BY <2>1, <2>2
<1>6. EntriesStay(pm.locationsByID, byID) /\ DOMAIN byID = DOMAIN pm.locationsByID \cup {l.id} /\ byID[l.id] = at
  <2> DEFINE id == l.id
  <2>1. id \notin DOMAIN pm.locationsByID
    OBVIOUS
  <2> HIDE DEF id, at
  <2>2. /\ EntriesStay(pm.locationsByID, Entered(pm.locationsByID, id, at))
        /\ DOMAIN Entered(pm.locationsByID, id, at) = DOMAIN pm.locationsByID \cup {id}
        /\ Entered(pm.locationsByID, id, at)[id] = at
    BY <2>1 DEF Entered, EntriesStay
  <2>3. QED
    BY <2>2 DEF id
<1> HIDE DEF byID, locations, at
<1>7. Grows(pm.p, new.p)
  BY <1>1, <1>4, <1>5 DEF Grows, TableGrows
<1>8. \A k : LocationKey(new.p, k) = LocationKey(pm.p, k) /\ SaidByLocation(new.p, k) = SaidByLocation(pm.p, k)
  <2>1. \A ln : SaidByLine(new.p, ln) = SaidByLine(pm.p, ln)
    BY <1>5 DEF SaidByLine
  <2>2. QED
    BY <1>5, <2>1 DEF LocationKey, SaidByLocation
<1>9. SaidByLocation(new.p, locations[at]) = SaidByLocation(src, l)
      /\ locations[at].mapping = entry.mapping /\ locations[at].lines = entry.lines
  BY <1>4, <1>8, KeySays
<1>10. LocationsSay(src, new)
  <2>1. ASSUME NEW j \in 1..Len(src.locations), src.locations[j].id \in DOMAIN byID
        PROVE  SaidByLocation(new.p, locations[byID[src.locations[j].id]]) = SaidByLocation(src, src.locations[j])
    <3> DEFINE g == src.locations[j]
    <3>1. CASE g.id = l.id
      <4>1. j = i
        BY <1>1, <2>1, <3>1
      <4>2. QED
        BY <1>6, <1>9, <4>1
    <3>2. CASE g.id # l.id
      <4>1. g.id \in DOMAIN pm.locationsByID
        BY <1>6, <2>1, <3>2
      <4>2. byID[g.id] = pm.locationsByID[g.id] /\ pm.locationsByID[g.id] \in 1..n
        BY <1>1, <1>6, <4>1 DEF EntriesStay
      <4>3. SaidByLocation(pm.p, pm.p.locations[pm.locationsByID[g.id]]) = SaidByLocation(src, g)
        BY <4>1 DEF Faithful, LocationsSay
      <4>4. QED
        BY <1>4, <1>8, <4>2, <4>3
    <3>3. QED
      BY <3>1, <3>2
  <2>2. QED
    BY <1>5, <2>1 DEF LocationsSay
<1>11. Faithful(src, new)
  BY <1>5, <1>7, <1>10, FunctionsSayOn, MappingsSayOn DEF Faithful
<1>12. Tidy(new.p)
  <2>1. LocationsDiffer(new.p)
    BY <1>4, <1>5, <1>8 DEF LocationsDiffer
  <2>2. QED
    BY <1>5, <2>1 DEF Tidy, FunctionsDiffer, MappingsDiffer
<1>16. ASSUME Apart(src, pm) PROVE Apart(src, new)
  <2>1. MappingsCopied(src, new) /\ OwnMappings(src, new)
    <3>1. MappingsCopied(src, new)
      BY <1>5, <1>16, Zenon DEF Apart, MappingsCopied
    <3>2. OwnMappings(src, new)
      BY <1>5, <1>16, Zenon DEF Apart, OwnMappings
    <3>3. QED
      BY <3>1, <3>2
  <2>2. \A g, x : RefersAs(src, pm, g, x) => RefersAs(src, new, g, x)
    BY <1>5, Zenon DEF RefersAs
  <2>3. RefersAs(src, new, l, locations[at])
    <3>1. RefersAs(src, pm, l, locations[at])
      BY <1>9, Zenon DEF RefersAs
    <3>2. QED
      BY <2>2, <3>1, Zenon
  <2>4. ASSUME NEW j \in 1..Len(src.locations), src.locations[j].id \in DOMAIN byID
        PROVE  RefersAs(src, new, src.locations[j], locations[byID[src.locations[j].id]])
    <3> DEFINE g == src.locations[j]
    <3>1. CASE g.id = l.id
      <4>1. j = i
        BY <1>1, <2>4, <3>1
      <4>2. QED
        BY <1>6, <2>3, <4>1, Zenon
    <3>2. CASE g.id # l.id
      <4>1. g.id \in DOMAIN pm.locationsByID
        BY <1>6, <2>4, <3>2
      <4>2. byID[g.id] = pm.locationsByID[g.id] /\ pm.locationsByID[g.id] \in 1..n
        BY <1>1, <1>6, <4>1 DEF EntriesStay
      <4>3. RefersAs(src, pm, g, pm.p.locations[pm.locationsByID[g.id]])
        BY <1>16, <4>1 DEF Apart, LocationsRefer
      <4>4. QED
        BY <1>4, <2>2, <4>2, <4>3, Zenon
    <3>3. QED
      BY <3>1, <3>2
  <2>5. LocationsRefer(src, new)
    BY <1>5, <2>4, Zenon DEF LocationsRefer
  <2>6. QED
    BY <1>16, <2>1, <2>5, Zenon DEF Apart
<1>13. Adds(src, pm, new)
  BY <1>5, <1>6, <1>7, <1>11, <1>12, <1>16 DEF Adds, EntriesStay
<1>14. LocationEntered(src, pm, l, entry, new)
  BY <1>4, <1>5, <1>6, <1>9, <1>13 DEF LocationEntered
<1>15. QED
  BY <1>14 DEF new

(* Every function is that of a line, and every mapping but the main binary *)
(* that of a location.                                                     *)
FunctionUsed(p, x) ==
    \E i \in 1..Len(p.locations) : \E j \in 1..Len(p.locations[i].lines) : p.locations[i].lines[j].function = x
MappingUsed(p, x) == \E i \in 1..Len(p.locations) : p.locations[i].mapping = x
EntriesUsed(p) ==
    /\ \A x \in 1..Len(p.functions) : FunctionUsed(p, x)
    /\ \A x \in 1..Len(p.mappings) : x = 1 \/ MappingUsed(p, x)

(* What is used stays used as the tables grow. *)
LEMMA UsedOn ==
    ASSUME NEW p, NEW q, Grows(p, q), NEW x
    PROVE  (FunctionUsed(p, x) => FunctionUsed(q, x)) /\ (MappingUsed(p, x) => MappingUsed(q, x))
<1>1. \A i \in 1..Len(p.locations) : i \in 1..Len(q.locations) /\ q.locations[i] = p.locations[i]
  BY DEF Grows, TableGrows
<1>2. QED
  BY <1>1, Zenon DEF FunctionUsed, MappingUsed

(* The counterpart of a location refers to what its references were mapped to. *)
LEMMA CounterpartRefers ==
    ASSUME NEW pm, NEW src, NEW l \in Locations
    PROVE  LET new == Counterpart(pm, src, l)
           IN /\ l.mapping # 0 => new.mapping = pm.mappingsByID[src.mappings[l.mapping].id].m
              /\ Len(new.lines) = Len(l.lines)
              /\ \A j \in 1..Len(l.lines) :
                    new.lines[j].function =
                        IF l.lines[j].function = 0 THEN 0
                        ELSE pm.functionsByID[src.functions[l.lines[j].function].id]
<1> DEFINE new == Counterpart(pm, src, l)
           lines == [j \in DOMAIN l.lines |-> LineCounterpart(pm, src, l.lines[j])]
<1>1. l.lines \in Seq(Lines) /\ DOMAIN l.lines = 1..Len(l.lines) /\ Len(l.lines) \in Nat
  BY DEF Locations
<1>2. new.mapping = MapInfo(pm, src, l).m /\ new.lines = lines
  BY DEF Counterpart
<1> HIDE DEF new
<1>3. l.mapping # 0 => new.mapping = pm.mappingsByID[src.mappings[l.mapping].id].m
  BY <1>2 DEF MapInfo, Nil
<1>4. Len(lines) = Len(l.lines) /\ \A j \in 1..Len(l.lines) : lines[j] = LineCounterpart(pm, src, l.lines[j])
  BY <1>1
<1>5. ASSUME NEW j \in 1..Len(l.lines)
      PROVE  lines[j].function = IF l.lines[j].function = 0 THEN 0
                                 ELSE pm.functionsByID[src.functions[l.lines[j].function].id]
  <2> DEFINE ln == l.lines[j]
             f == IF ln.function = Nil THEN Nil ELSE pm.functionsByID[src.functions[ln.function].id]
  <2>0. ln \in Lines /\ lines[j] = LineCounterpart(pm, src, ln)
    BY <1>1, <1>4
  <2>1. ln \in Lines /\ lines[j] = [ln EXCEPT !.function = f]
    <3> HIDE DEF lines, ln
    <3>1. QED
      BY <2>0 DEF LineCounterpart
  <2>2. f = IF ln.function = 0 THEN 0 ELSE pm.functionsByID[src.functions[ln.function].id]
    BY DEF Nil
  <2> HIDE DEF f, lines, ln
  <2>3. lines[j].function = f
    BY <2>1 DEF Lines
  <2>4. QED
    BY <2>2, <2>3 DEF ln
<1>6. QED
  BY <1>2, <1>3, <1>4, <1>5 DEF new

(* mapLocation: a location is added only under the ID, and all that is added is *)
(* used by it.                                                                  *)
LocationMapped(src, pm, l, new) ==
    /\ Adds(src, pm, new)
    /\ \A x \in 1..Len(new.p.locations) : x <= Len(pm.p.locations) \/ x = new.locationsByID[l.id]
    /\ \A x \in 1..Len(new.p.mappings) : x <= Len(pm.p.mappings) \/ l.mapping # 0
    /\ EntriesUsed(pm.p) => EntriesUsed(new.p)

(* mapLocation enters the location, and uses what it refers to. *)
LEMMA MapLocationAdds ==
    ASSUME NEW t, NEW pm, Merger(t, pm), NEW src, Fits(src), NEW i \in 1..Len(src.locations),
           Faithful(src, pm), Tidy(pm.p)
    PROVE  LocationMapped(src, pm, src.locations[i], MapLocation(pm, src, src.locations[i]))
<1> DEFINE l == src.locations[i]
           final == MapLocation(pm, src, l)
<1>0. LocationFits(src, l) /\ l \in Locations
  BY DEF Fits, TablesFit
<1>1. CASE l.id \in DOMAIN pm.locationsByID
  <2>1. final = pm /\ Len(pm.p.locations) \in Nat /\ Len(pm.p.mappings) \in Nat
    BY <1>1 DEF MapLocation, Merger, Fits, TablesFit
  <2> HIDE DEF final
  <2>2. Adds(src, pm, final)
    BY <2>1, AddsNothing
  <2>3. LocationMapped(src, pm, l, final)
    BY <2>1, <2>2 DEF LocationMapped
  <2>4. QED
    BY <2>3 DEF final
<1>2. CASE l.id \notin DOMAIN pm.locationsByID
  <2> DEFINE mid == WithReferences(pm, src, l)
             entry == Counterpart(mid, src, l)
             new == AddLocation(mid, l, entry)
  <2>1. /\ Merger(t, mid)
        /\ l.mapping # 0 => src.mappings[l.mapping].id \in DOMAIN mid.mappingsByID
        /\ \A j \in 1..Len(l.lines) :
              l.lines[j].function # 0 => src.functions[l.lines[j].function].id \in DOMAIN mid.functionsByID
    BY <1>0, WithReferencesFits
  <2>2. Referenced(src, pm, l, mid)
    BY <1>0, WithReferencesAdds
  <2>3. final = new
    BY <1>2, Zenon DEF MapLocation, AddCounterpart
  <2> HIDE DEF mid
  <2>4. /\ Adds(src, pm, mid) /\ Faithful(src, mid) /\ Tidy(mid.p)
        /\ mid.p.locations = pm.p.locations /\ mid.locationsByID = pm.locationsByID
    BY <2>2, Zenon DEF Referenced, Adds
  <2>5. entry \in Locations /\ LocationFits(mid.p, entry)
    BY <1>0, <2>1, CounterpartFits
  <2>6. SaidByLocation(mid.p, entry) = SaidByLocation(src, l)
    <3>1. Merger(t, mid) /\ Fits(src) /\ LocationFits(src, l) /\ Faithful(src, mid)
      BY <1>0, <2>1, <2>4, Zenon
    <3>2. entry = Counterpart(mid, src, l)
      OBVIOUS
    <3> HIDE DEF entry, l
    <3>3. QED
      BY <2>1, <3>1, <3>2, CounterpartSays
  <2>7. /\ l.mapping # 0 => entry.mapping = mid.mappingsByID[src.mappings[l.mapping].id].m
        /\ Len(entry.lines) = Len(l.lines)
        /\ \A j \in 1..Len(l.lines) :
              entry.lines[j].function =
                  IF l.lines[j].function = 0 THEN 0
                  ELSE mid.functionsByID[src.functions[l.lines[j].function].id]
    <3> HIDE DEF l
    <3>1. QED
      BY <1>0, CounterpartRefers
  <2> HIDE DEF entry
  <2>15. RefersAs(src, mid, l, entry)
    <3>1. \A id \in DOMAIN mid.functionsByID : mid.functionsByID[id] # 0
      BY <2>1 DEF Merger, ByIDFit
    <3>2. \A j \in 1..Len(l.lines) : entry.lines[j].function = 0 <=> l.lines[j].function = 0
      BY <2>1, <2>7, <3>1, Zenon
    <3>3. QED
      BY <2>1, <2>7, <3>2, Zenon DEF RefersAs
  <2>8. LocationEntered(src, mid, l, entry, new)
    <3>1. src.locations[i].id \notin DOMAIN mid.locationsByID
      BY <1>2, <2>4, Zenon
    <3>2. QED
      BY <2>1, <2>4, <2>5, <2>6, <2>15, <3>1, AddLocationAdds
  <2> HIDE DEF new
  <2> DEFINE at == new.locationsByID[l.id]
  <2>9. /\ Adds(src, mid, new)
        /\ new.p.mappings = mid.p.mappings /\ new.p.functions = mid.p.functions
        /\ \A x \in 1..Len(new.p.locations) : x <= Len(mid.p.locations) \/ x = at
        /\ at \in 1..Len(new.p.locations)
        /\ new.p.locations[at].mapping = entry.mapping /\ new.p.locations[at].lines = entry.lines
    BY <2>8, Zenon DEF LocationEntered
  <2>10. Adds(src, pm, new) /\ Grows(pm.p, new.p)
    BY <2>4, <2>9, AddsMore, Zenon DEF Adds
  <2>11. ASSUME EntriesUsed(pm.p) PROVE EntriesUsed(new.p)
    <3>0. /\ Len(pm.p.functions) \in Nat /\ Len(pm.p.mappings) \in Nat
          /\ Len(new.p.functions) \in Nat /\ Len(new.p.mappings) \in Nat
      BY <2>10 DEF Grows, TableGrows
    <3>1. ASSUME NEW x \in 1..Len(new.p.functions) PROVE FunctionUsed(new.p, x)
      <4>1. CASE x <= Len(pm.p.functions)
        <5>1. x \in Nat /\ 1 <= x
          BY <3>0, <3>1
        <5>2. x \in 1..Len(pm.p.functions)
          BY <3>0, <4>1, <5>1
        <5>3. FunctionUsed(pm.p, x)
          BY <2>11, <5>2, Zenon DEF EntriesUsed
        <5>4. QED
          BY <2>10, <5>3, UsedOn
      <4>2. CASE ~(x <= Len(pm.p.functions))
        <5>1. PICK j \in 1..Len(l.lines) :
                    l.lines[j].function # 0 /\ x = mid.functionsByID[src.functions[l.lines[j].function].id]
          BY <2>2, <2>9, <3>1, <4>2, Zenon DEF Referenced
        <5>2. entry.lines[j].function = x
          BY <2>7, <5>1, Zenon
        <5>3. j \in 1..Len(new.p.locations[at].lines) /\ new.p.locations[at].lines[j].function = x
          BY <2>7, <2>9, <5>2, Zenon
        <5>4. QED
          BY <2>9, <5>3, Zenon DEF FunctionUsed
      <4>3. QED
        BY <4>1, <4>2
    <3>2. ASSUME NEW x \in 1..Len(new.p.mappings), x # 1 PROVE MappingUsed(new.p, x)
      <4>1. CASE x <= Len(pm.p.mappings)
        <5>1. x \in Nat /\ 1 <= x
          BY <3>0, <3>2
        <5>2. x \in 1..Len(pm.p.mappings)
          BY <3>0, <4>1, <5>1
        <5>3. MappingUsed(pm.p, x)
          BY <2>11, <3>2, <5>2, Zenon DEF EntriesUsed
        <5>4. QED
          BY <2>10, <5>3, UsedOn
      <4>2. CASE ~(x <= Len(pm.p.mappings))
        <5>1. l.mapping # 0 /\ x = mid.mappingsByID[src.mappings[l.mapping].id].m
          BY <2>2, <2>9, <3>2, <4>2, Zenon DEF Referenced
        <5>2. new.p.locations[at].mapping = x
          BY <2>7, <2>9, <5>1, Zenon
        <5>3. QED
          BY <2>9, <5>2, Zenon DEF MappingUsed
      <4>3. QED
        BY <4>1, <4>2
    <3>3. QED
      BY <3>1, <3>2 DEF EntriesUsed
  <2>14. \A x \in 1..Len(new.p.mappings) : x <= Len(pm.p.mappings) \/ l.mapping # 0
    BY <2>2, <2>9, Zenon DEF Referenced
  <2>12. LocationMapped(src, pm, l, new)
    BY <2>4, <2>9, <2>10, <2>11, <2>14, Zenon DEF LocationMapped
  <2>13. QED
    BY <2>3, <2>12
<1>3. QED
  BY <1>1, <1>2

-------------------------------------------------------------------------------
(* Samples with one key: all is equal but the values. *)
KeyEqual(s, u) == DOMAIN s = DOMAIN u /\ \A d \in DOMAIN s : d # "values" => s[d] = u[d]
SamplesDiffer(p) ==
    \A i, j \in 1..Len(p.samples) : KeyEqual(p.samples[i], p.samples[j]) => i = j

(* Samples that SameKey finds alike differ in nothing but their values. *)
LEMMA SameKeyIsEqual ==
    ASSUME NEW s, NEW u
    PROVE  /\ SameKey(s, u) => KeyEqual(s, u)
           /\ \A f : u = [d \in DOMAIN u |-> f[d]] /\ "values" \in DOMAIN u /\ KeyEqual(s, u) => SameKey(s, u)
<1> DEFINE x == [s EXCEPT !.values = u.values]
<1>1. DOMAIN x = DOMAIN s /\ \A d \in DOMAIN s : d # "values" => x[d] = s[d]
  OBVIOUS
<1>2. SameKey(s, u) => KeyEqual(s, u)
  BY <1>1 DEF SameKey, KeyEqual
<1>3. ASSUME NEW f, u = [d \in DOMAIN u |-> f[d]], "values" \in DOMAIN u, KeyEqual(s, u) PROVE SameKey(s, u)
  <2>1. x = [d \in DOMAIN s |-> IF d = "values" THEN u.values ELSE s[d]]
    OBVIOUS
  <2> HIDE DEF x
  <2>2. DOMAIN s = DOMAIN u /\ \A d \in DOMAIN u : u[d] = IF d = "values" THEN u.values ELSE s[d]
    BY <1>3 DEF KeyEqual
  <2>3. \A d \in DOMAIN u : f[d] = u[d]
    BY <1>3
  <2>4. x = u
    BY <1>3, <2>1, <2>2, <2>3
  <2>5. QED
    BY <2>4 DEF SameKey, x
<1>4. QED
  BY <1>2, <1>3

(* Samples with one key say the same. *)
LEMMA KeySaysSample ==
    ASSUME NEW p, NEW s, NEW u, KeyEqual(s, u), {"locations", "values", "labels", "numLabels"} \subseteq DOMAIN s
    PROVE  SaidBySample(p, s) = SaidBySample(p, u)
<1>1. s.locations = u.locations /\ s.labels = u.labels /\ s.numLabels = u.numLabels
  BY DEF KeyEqual
<1>2. QED
  BY <1>1 DEF SaidBySample

(* What the samples of a profile count under one saying, of one type: the sum *)
(* that Total is.                                                             *)
Weighs(p, said, i, s) == IF SaidBySample(p, s) = said THEN s.values[i] ELSE 0
WeightsOf(p, said, i) == [j \in 1..Len(p.samples) |-> Weighs(p, said, i, p.samples[j])]
TotalOf(p, said, i) == SumTo(WeightsOf(p, said, i), Len(p.samples))

(* A sample weighs a number. *)
LEMMA WeighsInt ==
    ASSUME NEW p, NEW s, SampleFits(p, s), NEW q, NEW said, NEW i \in 1..Len(p.types)
    PROVE  Weighs(q, said, i, s) \in Int
<1>1. s.values[i] \in Int
  BY DEF SampleFits
<1>2. QED
  BY <1>1 DEF Weighs

(* So do all samples together. *)
LEMMA WeightsInt ==
    ASSUME NEW p, Fits(p), NEW said, NEW i \in 1..Len(p.types)
    PROVE  /\ Len(p.samples) \in Nat
           /\ \A j \in 1..Len(p.samples) : WeightsOf(p, said, i)[j] \in Int
           /\ TotalOf(p, said, i) \in Int
<1>1. Len(p.samples) \in Nat /\ \A j \in 1..Len(p.samples) : SampleFits(p, p.samples[j])
  BY DEF Fits, SamplesFit
<1>2. \A j \in 1..Len(p.samples) : WeightsOf(p, said, i)[j] \in Int
  BY <1>1, WeighsInt DEF WeightsOf
<1>3. QED
  BY <1>1, <1>2, SumIsLast DEF TotalOf

(* With the same samples in grown tables the totals are the same. *)
LEMMA TotalOn ==
    ASSUME NEW p, NEW q, Grows(p, q), Fits(p), q.samples = p.samples, NEW said, NEW i \in 1..Len(p.types)
    PROVE  TotalOf(q, said, i) = TotalOf(p, said, i)
<1>1. ASSUME NEW j \in 1..Len(p.samples)
      PROVE  WeightsOf(q, said, i)[j] = WeightsOf(p, said, i)[j]
  <2>1. SampleFits(p, p.samples[j])
    BY DEF Fits, SamplesFit
  <2>2. SaidBySample(q, p.samples[j]) = SaidBySample(p, p.samples[j])
    BY <2>1, SampleSaysOn
  <2>3. QED
    BY <2>2 DEF WeightsOf, Weighs
<1>2. SumTo(WeightsOf(q, said, i), Len(p.samples)) = SumTo(WeightsOf(p, said, i), Len(p.samples))
  BY <1>1, WeightsInt, SameSum
<1>3. QED
  BY <1>2 DEF TotalOf

(* mapSample's search: the sample is added, or its values are to the one with *)
(* its key.                                                                   *)
TablesSame(pm, new) ==
    /\ new.p.mappings = pm.p.mappings /\ new.p.functions = pm.p.functions
    /\ new.p.locations = pm.p.locations
    /\ new.mappingsByID = pm.mappingsByID /\ new.functionsByID = pm.functionsByID
    /\ new.locationsByID = pm.locationsByID
SampleAppended(p, s, q) ==
    LET n == Len(p.samples) IN
    /\ n \in Nat /\ Len(q.samples) = n + 1 /\ q.samples[n + 1] = s
    /\ \A j \in 1..n : q.samples[j] = p.samples[j]
    /\ \A j \in 1..n : ~KeyEqual(p.samples[j], s)
SampleAddedTo(p, s, q, k) ==
    LET n == Len(p.samples) IN
    /\ n \in Nat /\ Len(q.samples) = n
    /\ KeyEqual(p.samples[k], s) /\ KeyEqual(q.samples[k], p.samples[k])
    /\ q.samples[k].values = Added(p.samples[k].values, s.values)
    /\ \A j \in 1..n : j # k => q.samples[j] = p.samples[j]

(* mapSample appends the sample, or adds its values to the one with its key. *)
LEMMA AddMappedAdds ==
    ASSUME NEW t, NEW pm, Merger(t, pm), NEW s, SampleFits(pm.p, s), NEW f, s = [d \in DOMAIN s |-> f[d]]
    PROVE  LET new == AddMapped(pm, s)
           IN /\ TablesSame(pm, new)
              /\ \/ SampleAppended(pm.p, s, new.p)
                 \/ \E k \in 1..Len(pm.p.samples) : SampleAddedTo(pm.p, s, new.p, k)
<1> DEFINE new == AddMapped(pm, s)
           old == pm.p.samples
           n == Len(old)
           known == SelectInSeq(old, LAMBDA x : SameKey(x, s))
           I == {j \in 1..n : SameKey(old[j], s)}
<1>1. /\ Fits(pm.p) /\ old \in Seq(ToSet(old)) /\ n \in Nat
      /\ \A j \in 1..n : SampleFits(pm.p, old[j])
      /\ {"p", "mappingsByID", "functionsByID", "locationsByID"} \subseteq DOMAIN pm
      /\ {"types", "samples", "mappings", "functions", "locations"} \subseteq DOMAIN pm.p
  BY DEF Merger, Fits, SamplesFit, TypesFit
<1>2. (known = 0 <=> I = {}) /\ (known # 0 => known \in I)
  <2>1. known = IF I # {} THEN Min(I) ELSE 0
    BY DEF SelectInSeq
  <2>2. I \subseteq 1..Len(old)
    OBVIOUS
  <2> HIDE DEF I, known, n, old
  <2>3. QED
    BY <1>1, <2>1, <2>2, FirstPlaceIs
<1>3. new = FindSample(pm, s, known)
  BY Zenon DEF AddMapped
<1> HIDE DEF new, known
<1>4. CASE known = 0
  <2> DEFINE more == Append(old, s)
  <2>1. new = [pm EXCEPT !.p = [pm.p EXCEPT !.samples = more]]
    BY <1>1, <1>3, <1>4 DEF FindSample
  <2>2. Len(more) = n + 1 /\ more[n + 1] = s /\ \A j \in 1..n : more[j] = old[j]
    <3> DEFINE T == ToSet(old) \cup {s}
    <3>1. old \in Seq(T) /\ s \in T
      BY <1>1
    <3> HIDE DEF T, old
    <3>2. QED
      BY <3>1
  <2> HIDE DEF more
  <2>3. new.p.samples = more /\ TablesSame(pm, new)
    BY <1>1, <2>1 DEF TablesSame
  <2>4. \A j \in 1..n : ~KeyEqual(old[j], s)
    <3>1. "values" \in DOMAIN s
      BY DEF SampleFits
    <3>2. \A j \in 1..n : ~SameKey(old[j], s)
      BY <1>2, <1>4
    <3>3. QED
      BY <3>1, <3>2, SameKeyIsEqual
  <2>5. SampleAppended(pm.p, s, new.p)
    BY <1>1, <2>2, <2>3, <2>4 DEF SampleAppended
  <2>6. QED
    BY <2>3, <2>5 DEF new
<1>5. CASE known # 0
  <2> DEFINE x == old[known]
             values == Added(x.values, s.values)
             sum == [x EXCEPT !.values = values]
             more == [old EXCEPT ![known] = sum]
  <2>1. known \in 1..n /\ SameKey(x, s)
    BY <1>2, <1>5
  <2>2. new = [pm EXCEPT !.p = [pm.p EXCEPT !.samples = more]]
    BY <1>1, <1>3, <1>5 DEF FindSample
  <2>3. "values" \in DOMAIN x
    BY <1>1, <2>1 DEF SampleFits
  <2>4. KeyEqual(x, s)
    BY <2>1, SameKeyIsEqual
  <2>5. sum.values = values /\ KeyEqual(sum, x)
    <3> HIDE DEF x, values
    <3>1. QED
      BY <2>3 DEF KeyEqual
  <2> HIDE DEF sum
  <2>6. DOMAIN old = 1..n
    BY <1>1
  <2>7. Len(more) = n /\ more[known] = sum /\ \A j \in 1..n : j # known => more[j] = old[j]
    <3>1. DOMAIN more = 1..n
      BY <2>6
    <3>2. Len(more) = n
      <4> DEFINE T == ToSet(old) \cup {sum}
      <4>1. old \in Seq(T) /\ sum \in T
        BY <1>1
      <4> HIDE DEF T, old
      <4>2. QED
        BY <2>1, <4>1, ReplacedAt
    <3>3. QED
      BY <2>1, <2>6, <3>2
  <2> HIDE DEF more
  <2>8. new.p.samples = more /\ TablesSame(pm, new)
    BY <1>1, <2>2 DEF TablesSame
  <2>9. SampleAddedTo(pm.p, s, new.p, known)
    BY <1>1, <2>4, <2>5, <2>7, <2>8 DEF SampleAddedTo
  <2>10. QED
    BY <2>1, <2>8, <2>9 DEF new
<1>6. QED
  BY <1>4, <1>5

(* The samples differ as before, and the total of each saying is larger by what *)
(* the sample weighs.                                                           *)
LEMMA SamplesDifferOn ==
    ASSUME NEW p, NEW s, NEW q, SamplesDiffer(p),
           SampleAppended(p, s, q) \/ \E k \in 1..Len(p.samples) : SampleAddedTo(p, s, q, k)
    PROVE  SamplesDiffer(q)
<1> DEFINE n == Len(p.samples)
<1>0. \A a, b, c : /\ KeyEqual(a, b) => KeyEqual(b, a)
                   /\ KeyEqual(a, b) /\ KeyEqual(b, c) => KeyEqual(a, c)
                   /\ KeyEqual(a, a)
  BY DEF KeyEqual
<1>1. CASE SampleAppended(p, s, q)
  <2>1. /\ n \in Nat /\ Len(q.samples) = n + 1 /\ q.samples[n + 1] = s
        /\ \A j \in 1..n : q.samples[j] = p.samples[j]
        /\ \A j \in 1..n : ~KeyEqual(p.samples[j], s)
    BY <1>1 DEF SampleAppended
  <2>2. ASSUME NEW i \in 1..n+1, NEW j \in 1..n+1, KeyEqual(q.samples[i], q.samples[j]) PROVE i = j
    <3>1. CASE i \in 1..n /\ j \in 1..n
      BY <2>1, <2>2, <3>1 DEF SamplesDiffer
    <3>2. CASE i = n + 1 /\ j \in 1..n
      BY <1>0, <2>1, <2>2, <3>2
    <3>3. CASE i \in 1..n /\ j = n + 1
      BY <2>1, <2>2, <3>3
    <3>4. QED
      BY <2>1, <2>2, <3>1, <3>2, <3>3
  <2>3. QED
    BY <2>1, <2>2 DEF SamplesDiffer
<1>2. ASSUME NEW k \in 1..n, SampleAddedTo(p, s, q, k) PROVE SamplesDiffer(q)
  <2>1. /\ n \in Nat /\ Len(q.samples) = n
        /\ KeyEqual(q.samples[k], p.samples[k])
        /\ \A j \in 1..n : j # k => q.samples[j] = p.samples[j]
    BY <1>2 DEF SampleAddedTo
  <2>2. \A j \in 1..n : KeyEqual(q.samples[j], p.samples[j])
    BY <1>0, <2>1
  <2>3. ASSUME NEW i \in 1..n, NEW j \in 1..n, KeyEqual(q.samples[i], q.samples[j]) PROVE i = j
    <3>1. KeyEqual(p.samples[i], p.samples[j])
      BY <1>0, <2>2, <2>3
    <3>2. QED
      BY <3>1 DEF SamplesDiffer
  <2>4. QED
    BY <2>1, <2>3 DEF SamplesDiffer
<1>3. QED
  BY <1>1, <1>2

(* Either way the total of a stack grows by what the sample weighs for it. *)
LEMMA TotalGrows ==
    ASSUME NEW p, Fits(p), NEW s, SampleFits(p, s), NEW q, q.types = p.types,
           q.mappings = p.mappings, q.functions = p.functions, q.locations = p.locations,
           SampleAppended(p, s, q) \/ \E k \in 1..Len(p.samples) : SampleAddedTo(p, s, q, k),
           NEW said, NEW i \in 1..Len(p.types)
    PROVE  TotalOf(q, said, i) = TotalOf(p, said, i) + Weighs(p, said, i, s)
<1> DEFINE n == Len(p.samples)
           f == WeightsOf(p, said, i)
           g == WeightsOf(q, said, i)
           w == Weighs(p, said, i, s)
<1>1. /\ n \in Nat /\ (\A j \in 1..n : f[j] \in Int) /\ w \in Int
      /\ \A j \in 1..n : SampleFits(p, p.samples[j])
  BY WeightsInt, WeighsInt DEF Fits, SamplesFit
<1>2. \A x : SaidBySample(q, x) = SaidBySample(p, x)
  <2>1. \A ln : SaidByLine(q, ln) = SaidByLine(p, ln)
    BY DEF SaidByLine
  <2>2. \A l : SaidByLocation(q, l) = SaidByLocation(p, l)
    BY <2>1 DEF SaidByLocation
  <2>3. QED
    BY <2>2 DEF SaidBySample
<1>3. \A x : Weighs(q, said, i, x) = Weighs(p, said, i, x)
  BY <1>2 DEF Weighs
<1>4. /\ \A j \in 1..n : f[j] = Weighs(p, said, i, p.samples[j])
      /\ \A j \in 1..Len(q.samples) : g[j] = Weighs(p, said, i, q.samples[j])
  BY <1>3 DEF WeightsOf
<1> HIDE DEF f, g
<1>5. CASE SampleAppended(p, s, q)
  <2>1. /\ Len(q.samples) = n + 1 /\ q.samples[n + 1] = s
        /\ \A j \in 1..n : q.samples[j] = p.samples[j]
    BY <1>5 DEF SampleAppended
  <2>2. (\A j \in 1..n : g[j] = f[j]) /\ g[n + 1] = w
    <3>1. n + 1 \in 1..n+1 /\ \A j \in 1..n : j \in 1..n+1
      BY <1>1
    <3>2. QED
      BY <1>4, <2>1, <3>1
  <2>3. \A j \in 1..n+1 : g[j] \in Int
    <3>1. \A j \in 1..n+1 : j \in 1..n \/ j = n + 1
      BY <1>1
    <3>2. QED
      BY <1>1, <2>2, <3>1
  <2> HIDE DEF n, w
  <2>4. SumTo(g, n + 1) = SumTo(g, n) + g[n + 1]
    BY <1>1, <2>3, NextSum
  <2>5. SumTo(g, n) = SumTo(f, n)
    BY <1>1, <2>2, SameSum
  <2>6. QED
    BY <2>1, <2>2, <2>4, <2>5 DEF TotalOf, f, g, n, w
<1>6. ASSUME NEW k \in 1..n, SampleAddedTo(p, s, q, k)
      PROVE  TotalOf(q, said, i) = TotalOf(p, said, i) + w
  <2> DEFINE x == p.samples[k]
             y == q.samples[k]
  <2>1. /\ Len(q.samples) = n /\ KeyEqual(x, s) /\ KeyEqual(y, x)
        /\ y.values = Added(x.values, s.values)
        /\ \A j \in 1..n : j # k => q.samples[j] = p.samples[j]
    BY <1>6 DEF SampleAddedTo
  <2>2. SampleFits(p, x)
    BY <1>1
  <2>3. SaidBySample(p, x) = SaidBySample(p, s) /\ SaidBySample(p, y) = SaidBySample(p, s)
    <3>1. {"locations", "values", "labels", "numLabels"} \subseteq DOMAIN x
      BY <2>2 DEF SampleFits
    <3> HIDE DEF x, y
    <3>2. KeyEqual(y, s) /\ {"locations", "values", "labels", "numLabels"} \subseteq DOMAIN y
      BY <2>1, <3>1 DEF KeyEqual
    <3>3. QED
      BY <2>1, <3>1, <3>2, KeySaysSample
  <2>4. y.values[i] = x.values[i] + s.values[i] /\ x.values[i] \in Int /\ s.values[i] \in Int
    <3>1. /\ x.values \in Seq(Int) /\ Len(x.values) = Len(p.types)
          /\ s.values \in Seq(Int) /\ Len(s.values) = Len(p.types)
      BY <2>2 DEF SampleFits
    <3> HIDE DEF x, y
    <3>2. QED
      BY <2>1, <3>1 DEF Added
  <2> HIDE DEF x, y
  <2>5. Weighs(p, said, i, y) = Weighs(p, said, i, x) + w
    BY <2>3, <2>4 DEF Weighs
  <2>6. \A j \in 1..n : g[j] = IF j = k THEN f[j] + w ELSE f[j]
    BY <1>4, <2>1, <2>5 DEF x, y
  <2> HIDE DEF n, w
  <2>7. SumTo(g, n) = SumTo(f, n) + w
    BY <1>1, <1>6, <2>6, ChangedSum
  <2>8. QED
    BY <2>1, <2>7 DEF TotalOf, f, g, n
<1>7. QED
  BY <1>5, <1>6

(* The first mapping, the main binary, has a name, unless there are none. *)
MainNamed(src, p) ==
    \/ Len(p.mappings) = 0 /\ Len(src.mappings) = 0
    \/ 1 \in 1..Len(p.mappings) /\ (p.mappings[1].build # "" \/ p.mappings[1].file # "")

(* A stack adds the counterparts of its locations, by induction over it. *)
StackAdded(k, n, acc) ==
    /\ Merger(k.t, acc) /\ Adds(k.src, k.pm, acc)
    /\ EntriesUsed(k.pm.p) => EntriesUsed(acc.p)
    /\ MainNamed(k.src, k.pm.p) => MainNamed(k.src, acc.p)
    /\ \A j \in 1..n : k.src.locations[k.stack[j]].id \in DOMAIN acc.locationsByID
    /\ \A x \in 1..Len(acc.p.locations) :
        \/ x <= Len(k.pm.p.locations)
        \/ \E j \in 1..n : x = acc.locationsByID[k.src.locations[k.stack[j]].id]
StackAddedFold == INSTANCE FoldLaws WITH Op <- LocationOf, Holds <- StackAdded

(* mapSample is a fold over the stack, then the search for the key. *)
LEMMA MapSampleAddsStack ==
    ASSUME NEW pm, NEW src, NEW s
    PROVE  MapSample(pm, src, s) = AddSampleOf(StackAddedFold!Fold(src, pm, s.locations), src, s)
BY Zenon DEF MapSample, LocationOf, StackAddedFold!Fold, FoldLeft, MapThenFoldSet,
   StackAddedFold!MapThenFoldSet, StackAddedFold!Largest, Max

(* A location leaves the main binary the first mapping, and named. *)
LEMMA MainStaysNamed ==
    ASSUME NEW t, NEW pm, Merger(t, pm), NEW src, NEW l, l.mapping \in 0..Len(src.mappings), NEW new,
           LocationMapped(src, pm, l, new), MainNamed(src, pm.p)
    PROVE  MainNamed(src, new.p)
<1>1. /\ TableGrows(pm.p.mappings, new.p.mappings)
      /\ \A x \in 1..Len(new.p.mappings) : x <= Len(pm.p.mappings) \/ l.mapping # 0
  BY DEF LocationMapped, Adds, Grows
<1>2. /\ Len(pm.p.mappings) \in Nat /\ Len(new.p.mappings) \in Nat /\ Len(pm.p.mappings) <= Len(new.p.mappings)
      /\ \A i \in 1..Len(pm.p.mappings) : new.p.mappings[i] = pm.p.mappings[i]
  BY <1>1 DEF TableGrows
<1>3. CASE Len(pm.p.mappings) = 0 /\ Len(src.mappings) = 0
  <2>1. l.mapping = 0
    BY <1>3
  <2>2. Len(new.p.mappings) = 0
    BY <1>1, <1>2, <1>3, <2>1
  <2>3. QED
    BY <1>3, <2>2 DEF MainNamed
<1>4. CASE 1 \in 1..Len(pm.p.mappings) /\ (pm.p.mappings[1].build # "" \/ pm.p.mappings[1].file # "")
  <2>0. 1 \in 1..Len(new.p.mappings)
    <3> DEFINE a == Len(pm.p.mappings)
               b == Len(new.p.mappings)
    <3>1. a \in Nat /\ b \in Nat /\ a <= b /\ 1 \in 1..a
      BY <1>2, <1>4, Zenon
    <3> HIDE DEF a, b
    <3>2. 1 \in 1..b
      BY <3>1
    <3>3. QED
      BY <3>2 DEF b
  <2>1. 1 \in 1..Len(new.p.mappings) /\ new.p.mappings[1] = pm.p.mappings[1]
    BY <1>2, <1>4, <2>0, Zenon
  <2>2. QED
    BY <1>4, <2>1, Zenon DEF MainNamed
<1>5. QED
  BY <1>3, <1>4, Zenon DEF MainNamed

(* One more location of the stack. *)
LEMMA LocationAdded ==
    ASSUME NEW k, Fits(k.src), NEW n \in Nat, NEW acc, StackAdded(k, n, acc),
           k.stack[n + 1] \in 1..Len(k.src.locations)
    PROVE  StackAdded(k, n + 1, LocationOf(k.src, acc, k.stack[n + 1]))
<1> DEFINE src == k.src
           i == n + 1
           l == src.locations[k.stack[i]]
           after == LocationOf(src, acc, k.stack[i])
           Id(j) == src.locations[k.stack[j]].id
<1>1. /\ Merger(k.t, acc) /\ Adds(src, k.pm, acc)
      /\ EntriesUsed(k.pm.p) => EntriesUsed(acc.p)
      /\ MainNamed(src, k.pm.p) => MainNamed(src, acc.p)
      /\ \A j \in 1..n : Id(j) \in DOMAIN acc.locationsByID
      /\ \A x \in 1..Len(acc.p.locations) :
            \/ x <= Len(k.pm.p.locations)
            \/ \E j \in 1..n : x = acc.locationsByID[Id(j)]
  BY DEF StackAdded
<1>2. (\A j \in 1..i : j \in 1..n \/ j = i) /\ (\A j \in 1..n : j \in 1..i) /\ i \in 1..i
  BY ONLY n \in Nat
<1>3. LocationFits(src, l) /\ l.mapping \in 0..Len(src.mappings)
  BY Zenon DEF Fits, TablesFit, LocationFits
<1>4. after = MapLocation(acc, src, l)
  BY DEF LocationOf
<1>5. Merger(k.t, after) /\ Keeps(acc, after) /\ l.id \in DOMAIN after.locationsByID
  <2> HIDE DEF l, after
  <2>1. QED
    BY <1>1, <1>3, <1>4, MapLocationFits
<1>6. Faithful(src, acc) /\ Tidy(acc.p)
  BY <1>1 DEF Adds
<1>7. LocationMapped(src, acc, l, after)
  BY <1>1, <1>4, <1>6, MapLocationAdds
<1> HIDE DEF after
<1>8. /\ Adds(src, acc, after)
      /\ EntriesUsed(acc.p) => EntriesUsed(after.p)
      /\ \A x \in 1..Len(after.p.locations) : x <= Len(acc.p.locations) \/ x = after.locationsByID[l.id]
  BY <1>7, Zenon DEF LocationMapped
<1>9. Adds(src, k.pm, after)
  BY <1>1, <1>8, AddsMore
<1>10. MainNamed(src, k.pm.p) => MainNamed(src, after.p)
  <2> HIDE DEF l
  <2>1. QED
    BY <1>1, <1>3, <1>7, MainStaysNamed
<1>11. EntriesStay(acc.locationsByID, after.locationsByID)
  BY <1>8 DEF Adds
<1>12. \A j \in 1..n : Id(j) \in DOMAIN after.locationsByID /\ after.locationsByID[Id(j)] = acc.locationsByID[Id(j)]
  BY <1>1, <1>11, Zenon DEF EntriesStay
<1>13. \A j \in 1..i : Id(j) \in DOMAIN after.locationsByID
  BY <1>2, <1>5, <1>12, Zenon
<1>14. ASSUME NEW x \in 1..Len(after.p.locations)
       PROVE  \/ x <= Len(k.pm.p.locations)
              \/ \E j \in 1..i : x = after.locationsByID[Id(j)]
  <2>1. Len(acc.p.locations) \in Nat /\ Len(after.p.locations) \in Nat
    BY <1>8 DEF Adds, Grows, TableGrows
  <2>2. CASE x <= Len(acc.p.locations)
    <3>1. x \in Nat /\ 1 <= x
      BY <1>14, <2>1
    <3>2. x \in 1..Len(acc.p.locations)
      BY <2>1, <2>2, <3>1
    <3>3. ASSUME NEW j \in 1..n, x = acc.locationsByID[Id(j)]
          PROVE  \E u \in 1..i : x = after.locationsByID[Id(u)]
      <4>1. j \in 1..i /\ x = after.locationsByID[Id(j)]
        BY <1>2, <1>12, <3>3, Zenon
      <4> HIDE DEF i, Id
      <4>2. QED
        BY <4>1, Zenon
    <3>4. \/ x <= Len(k.pm.p.locations)
          \/ \E j \in 1..n : x = acc.locationsByID[Id(j)]
      BY <1>1, <3>2, Zenon
    <3> HIDE DEF i, Id
    <3>5. QED
      BY <3>3, <3>4
  <2>3. CASE x = after.locationsByID[l.id]
    BY <1>2, <2>3, Zenon
  <2>4. QED
    BY <1>8, <1>14, <2>2, <2>3, Zenon
<1>15. StackAdded(k, i, after)
  BY <1>1, <1>5, <1>8, <1>9, <1>10, <1>13, <1>14, Zenon DEF StackAdded
<1>16. QED
  BY <1>15 DEF after

(* The whole stack. *)
LEMMA StackAdds ==
    ASSUME NEW t, NEW pm, Merger(t, pm), NEW src, Fits(src), NEW stack \in Seq(1..Len(src.locations)),
           Faithful(src, pm), Tidy(pm.p), NEW k, k = [t |-> t, src |-> src, pm |-> pm, stack |-> stack]
    PROVE  StackAdded(k, Len(stack), StackAddedFold!Fold(src, pm, stack))
<1>1. DOMAIN stack = 1..Len(stack) /\ Len(stack) \in Nat /\ \A j \in 1..Len(stack) : stack[j] \in 1..Len(src.locations)
  OBVIOUS
<1>2. k.t = t /\ k.src = src /\ k.stack = stack /\ k.pm = pm
  OBVIOUS
<1>3. StackAdded(k, 0, pm)
  <2>1. Adds(src, pm, pm)
    BY AddsNothing
  <2>2. Len(pm.p.locations) \in Nat
    BY DEF Merger, Fits, TablesFit
  <2>3. \A x \in 1..Len(pm.p.locations) : x <= Len(pm.p.locations)
    BY <2>2
  <2>4. QED
    BY <1>2, <2>1, <2>3 DEF StackAdded
<1>4. ASSUME NEW i \in 1..Len(stack), NEW acc, StackAdded(k, i - 1, acc)
      PROVE  StackAdded(k, i, LocationOf(src, acc, stack[i]))
  <2>1. i - 1 \in Nat /\ (i - 1) + 1 = i
    OBVIOUS
  <2> DEFINE n == i - 1
  <2>2. n \in Nat /\ n + 1 = i /\ k.stack[n + 1] \in 1..Len(k.src.locations) /\ StackAdded(k, n, acc) /\ Fits(k.src)
    BY <1>1, <1>2, <1>4, <2>1
  <2> HIDE DEF n
  <2>3. StackAdded(k, n + 1, LocationOf(k.src, acc, k.stack[n + 1]))
    BY <2>2, LocationAdded
  <2>4. QED
    BY <1>2, <2>2, <2>3
<1>5. QED
  BY <1>1, <1>3, <1>4, StackAddedFold!FoldInduction

(* Every location is in the stack of a sample. *)
LocationUsed(p, x) ==
    \E i \in 1..Len(p.samples) : \E j \in 1..Len(p.samples[i].locations) : p.samples[i].locations[j] = x
LocationsUsed(p) == \A x \in 1..Len(p.locations) : LocationUsed(p, x)

(* What holds of the merger between two samples of a source. *)
Sound(t, src, pm) ==
    /\ Merger(t, pm)
    /\ Faithful(src, pm) /\ Tidy(pm.p) /\ SamplesDiffer(pm.p)
    /\ EntriesUsed(pm.p) /\ LocationsUsed(pm.p) /\ MainNamed(src, pm.p)

(* Samples that are added change none of the tables. *)
LEMMA TablesSameSound ==
    ASSUME NEW src, NEW pm, NEW new, TablesSame(pm, new)
    PROVE  /\ Faithful(src, pm) => Faithful(src, new)
           /\ Tidy(pm.p) => Tidy(new.p)
           /\ EntriesUsed(pm.p) => EntriesUsed(new.p)
           /\ MainNamed(src, pm.p) => MainNamed(src, new.p)
<1>1. /\ new.p.mappings = pm.p.mappings /\ new.p.functions = pm.p.functions
      /\ new.p.locations = pm.p.locations
      /\ new.mappingsByID = pm.mappingsByID /\ new.functionsByID = pm.functionsByID
      /\ new.locationsByID = pm.locationsByID
  BY DEF TablesSame
<1>2. \A l : LocationKey(new.p, l) = LocationKey(pm.p, l)
  BY <1>1 DEF LocationKey
<1>3. \A l : SaidByLocation(new.p, l) = SaidByLocation(pm.p, l)
  <2>1. \A ln : SaidByLine(new.p, ln) = SaidByLine(pm.p, ln)
    BY <1>1, Zenon DEF SaidByLine
  <2>2. QED
    BY <1>1, <2>1 DEF SaidByLocation
<1>4. Faithful(src, pm) => Faithful(src, new)
  BY <1>1, <1>3, Zenon DEF Faithful, FunctionsSay, MappingsSay, LocationsSay
<1>5. Tidy(pm.p) => Tidy(new.p)
  BY <1>1, <1>2 DEF Tidy, FunctionsDiffer, MappingsDiffer, LocationsDiffer
<1>6. EntriesUsed(pm.p) => EntriesUsed(new.p)
  BY <1>1 DEF EntriesUsed, FunctionUsed, MappingUsed
<1>7. MainNamed(src, pm.p) => MainNamed(src, new.p)
  BY <1>1, Zenon DEF MainNamed
<1>8. QED
  BY <1>4, <1>5, <1>6, <1>7

(* The locations of a sample that is added are used, and what was used still is. *)
LEMMA UsedByAdded ==
    ASSUME NEW p, NEW u, NEW q, {"locations", "values"} \subseteq DOMAIN u,
           \A i \in 1..Len(p.samples) : "locations" \in DOMAIN p.samples[i],
           SampleAppended(p, u, q) \/ \E k \in 1..Len(p.samples) : SampleAddedTo(p, u, q, k)
    PROVE  /\ \A x : LocationUsed(p, x) => LocationUsed(q, x)
           /\ \A j \in 1..Len(u.locations) : LocationUsed(q, u.locations[j])
<1> DEFINE n == Len(p.samples)
<1>1. CASE SampleAppended(p, u, q)
  <2>1. /\ n \in Nat /\ Len(q.samples) = n + 1 /\ q.samples[n + 1] = u
        /\ \A j \in 1..n : q.samples[j] = p.samples[j]
    BY <1>1 DEF SampleAppended
  <2>2. n + 1 \in 1..Len(q.samples) /\ \A j \in 1..n : j \in 1..Len(q.samples)
    BY <2>1
  <2>3. QED
    BY <2>1, <2>2 DEF LocationUsed
<1>2. ASSUME NEW k \in 1..n, SampleAddedTo(p, u, q, k)
      PROVE  /\ \A x : LocationUsed(p, x) => LocationUsed(q, x)
             /\ \A j \in 1..Len(u.locations) : LocationUsed(q, u.locations[j])
  <2>1. /\ Len(q.samples) = n /\ KeyEqual(p.samples[k], u) /\ KeyEqual(q.samples[k], p.samples[k])
        /\ \A j \in 1..n : j # k => q.samples[j] = p.samples[j]
    BY <1>2 DEF SampleAddedTo
  <2>2. q.samples[k].locations = p.samples[k].locations /\ p.samples[k].locations = u.locations
    BY <2>1, "locations" # "values" DEF KeyEqual
  <2>3. \A j \in 1..n : q.samples[j].locations = p.samples[j].locations
    BY <2>1, <2>2
  <2>4. QED
    BY <2>1, <2>2, <2>3 DEF LocationUsed
<1>3. QED
  BY <1>1, <1>2

(* The sample with its stack in the merged tables says the same. *)
LEMMA MappedSays ==
    ASSUME NEW mid, NEW src, Fits(src), NEW s, SampleFits(src, s), LocationsSay(src, mid),
           \A j \in 1..Len(s.locations) : src.locations[s.locations[j]].id \in DOMAIN mid.locationsByID,
           NEW u, u.labels = s.labels, u.numLabels = s.numLabels,
           DOMAIN u.locations = DOMAIN s.locations,
           \A j \in DOMAIN s.locations : u.locations[j] = mid.locationsByID[src.locations[s.locations[j]].id]
    PROVE  SaidBySample(mid.p, u) = SaidBySample(src, s)
<1>1. /\ s.locations \in Seq(1..Len(src.locations)) /\ DOMAIN s.locations = 1..Len(s.locations)
      /\ \A j \in 1..Len(s.locations) : s.locations[j] \in 1..Len(src.locations)
  <2>1. s.locations \in Seq(1..Len(src.locations))
    BY Zenon DEF SampleFits
  <2>2. QED
    BY ONLY <2>1
<1>3. ASSUME NEW j \in DOMAIN s.locations
      PROVE  SaidByLocation(mid.p, mid.p.locations[u.locations[j]])
             = SaidByLocation(src, src.locations[s.locations[j]])
  <2>1. s.locations[j] \in 1..Len(src.locations) /\ src.locations[s.locations[j]].id \in DOMAIN mid.locationsByID
    BY <1>1
  <2>2. u.locations[j] = mid.locationsByID[src.locations[s.locations[j]].id]
    OBVIOUS
  <2>3. QED
    BY <2>1, <2>2, Zenon DEF LocationsSay
<1>4. [j \in DOMAIN u.locations |-> SaidByLocation(mid.p, mid.p.locations[u.locations[j]])]
      = [j \in DOMAIN s.locations |-> SaidByLocation(src, src.locations[s.locations[j]])]
  BY <1>3
<1>5. QED
  BY <1>4 DEF SaidBySample

(* The sample with the places its locations have been given, which is added *)
(* when the merger is at mid.                                               *)
Copied(src, pm, s, u) ==
    /\ DOMAIN u = DOMAIN s /\ \A d \in DOMAIN s : d # "locations" => u[d] = s[d]
    /\ DOMAIN u.locations = DOMAIN s.locations
    /\ \A j \in DOMAIN s.locations :
        /\ src.locations[s.locations[j]].id \in DOMAIN pm.locationsByID
        /\ u.locations[j] = pm.locationsByID[src.locations[s.locations[j]].id]
SampleMapped(t, src, pm, s, new) ==
    \E mid, u :
        /\ Merger(t, mid) /\ Adds(src, pm, mid) /\ Copied(src, mid, s, u) /\ TablesSame(mid, new)
        /\ \/ SampleAppended(mid.p, u, new.p)
           \/ \E k \in 1..Len(mid.p.samples) : SampleAddedTo(mid.p, u, new.p, k)

(* mapSample: all of that still holds, and what the sample counts is added to  *)
(* what it says, and to nothing else.                                          *)
LEMMA MapSampleSound ==
    ASSUME NEW t, t # <<>>, NEW src, Fits(src), src.types = t, NEW pm, Sound(t, src, pm),
           NEW s, SampleFits(src, s), NEW said, NEW i \in 1..Len(t)
    PROVE  LET new == MapSample(pm, src, s)
           IN /\ Sound(t, src, new) /\ Grows(pm.p, new.p) /\ SampleMapped(t, src, pm, s, new)
              /\ TotalOf(new.p, said, i) = TotalOf(pm.p, said, i) + Weighs(src, said, i, s)
<1> DEFINE k == [t |-> t, src |-> src, pm |-> pm, stack |-> s.locations]
           mid == StackAddedFold!Fold(src, pm, s.locations)
           stack == [j \in DOMAIN s.locations |-> mid.locationsByID[src.locations[s.locations[j]].id]]
           u == [s EXCEPT !.locations = stack]
           new == MapSample(pm, src, s)
<1>0. /\ Merger(t, pm) /\ Faithful(src, pm) /\ Tidy(pm.p) /\ SamplesDiffer(pm.p)
      /\ EntriesUsed(pm.p) /\ LocationsUsed(pm.p) /\ MainNamed(src, pm.p)
  BY DEF Sound
<1>1. /\ {"locations", "values", "labels", "numLabels"} \subseteq DOMAIN s
      /\ s.locations \in Seq(1..Len(src.locations))
      /\ s.values \in Seq(Int) /\ Len(s.values) = Len(t)
      /\ DOMAIN s.locations = 1..Len(s.locations) /\ Len(s.locations) \in Nat
  BY DEF SampleFits
<1>2. StackAdded(k, Len(s.locations), mid)
  BY <1>0, <1>1, StackAdds, Zenon
<1>3. new = AddMapped(mid, u)
  BY MapSampleAddsStack DEF AddSampleOf
<1> HIDE DEF mid, new
<1>4. /\ Merger(t, mid) /\ Adds(src, pm, mid)
      /\ EntriesUsed(mid.p) /\ MainNamed(src, mid.p)
      /\ \A j \in 1..Len(s.locations) : src.locations[s.locations[j]].id \in DOMAIN mid.locationsByID
      /\ \A x \in 1..Len(mid.p.locations) :
            \/ x <= Len(pm.p.locations)
            \/ \E j \in 1..Len(s.locations) : x = mid.locationsByID[src.locations[s.locations[j]].id]
  <2>1. k.t = t /\ k.src = src /\ k.pm = pm /\ k.stack = s.locations
    OBVIOUS
  <2> HIDE DEF k
  <2>2. QED
    BY <1>0, <1>2, <2>1 DEF StackAdded
<1>5. /\ Grows(pm.p, mid.p) /\ mid.p.samples = pm.p.samples
      /\ Faithful(src, mid) /\ Tidy(mid.p)
  BY <1>4 DEF Adds
<1>6. \A j \in 1..Len(s.locations) : mid.locationsByID[src.locations[s.locations[j]].id] \in 1..Len(mid.p.locations)
  BY <1>4 DEF Merger, ByIDFit
<1>7. /\ stack \in Seq(1..Len(mid.p.locations)) /\ Len(stack) = Len(s.locations)
      /\ \A j \in 1..Len(stack) : stack[j] = mid.locationsByID[src.locations[s.locations[j]].id]
  <2>1. stack \in Seq(1..Len(mid.p.locations))
    <3>1. stack \in [1..Len(s.locations) -> 1..Len(mid.p.locations)]
      BY <1>1, <1>6, Zenon
    <3>2. Len(s.locations) \in Nat
      BY <1>1
    <3> HIDE DEF stack
    <3>3. QED
      BY ONLY <3>1, <3>2
  <2>2. DOMAIN stack = 1..Len(s.locations)
    BY <1>1
  <2>3. Len(stack) = Len(s.locations)
    <3> DEFINE st == stack
    <3>1. st \in Seq(1..Len(mid.p.locations)) /\ DOMAIN st = 1..Len(s.locations)
      BY <2>1, <2>2
    <3> HIDE DEF st
    <3>2. Len(s.locations) \in Nat
      <4>1. s.locations \in Seq(1..Len(src.locations))
        BY <1>1, Zenon
      <4>2. QED
        BY ONLY <4>1
    <3>3. Len(st) = Len(s.locations)
      <4> DEFINE m == Len(st)
                 c == Len(s.locations)
      <4>1. m \in Nat /\ DOMAIN st = 1..m
        BY ONLY <3>1
      <4>2. c \in Nat /\ 1..m = 1..c
        BY <3>1, <3>2, <4>1, Zenon
      <4> HIDE DEF m, c
      <4>3. m = c
        BY ONLY <4>1, <4>2
      <4>4. QED
        BY <4>3, Zenon DEF m, c
    <3>4. QED
      BY ONLY <3>3, Zenon DEF st
  <2>4. QED
    BY <1>1, <2>1, <2>3
<1>8. /\ DOMAIN u = DOMAIN s /\ u.locations = stack /\ u.values = s.values
      /\ u.labels = s.labels /\ u.numLabels = s.numLabels
      /\ u = [d \in DOMAIN u |-> u[d]]
  <2> HIDE DEF stack
  <2>1. QED
    BY <1>1
<1>20. Copied(src, mid, s, u)
  <2>1. \A d \in DOMAIN s : d # "locations" => u[d] = s[d]
    <3> HIDE DEF stack
    <3>1. QED
      OBVIOUS
  <2>2. DOMAIN stack = DOMAIN s.locations
    OBVIOUS
  <2>3. ASSUME NEW j \in DOMAIN s.locations
        PROVE  /\ src.locations[s.locations[j]].id \in DOMAIN mid.locationsByID
               /\ stack[j] = mid.locationsByID[src.locations[s.locations[j]].id]
    BY <1>1, <1>4
  <2> HIDE DEF stack, u
  <2>4. QED
    BY <1>8, <2>1, <2>2, <2>3, Zenon DEF Copied
<1>9. SaidBySample(mid.p, u) = SaidBySample(src, s)
  <2>1. LocationsSay(src, mid)
    BY <1>5 DEF Faithful
  <2>2. /\ u.labels = s.labels /\ u.numLabels = s.numLabels
        /\ DOMAIN u.locations = DOMAIN s.locations
        /\ \A j \in DOMAIN s.locations : u.locations[j] = mid.locationsByID[src.locations[s.locations[j]].id]
    <3>1. /\ DOMAIN stack = DOMAIN s.locations
          /\ \A j \in DOMAIN s.locations : stack[j] = mid.locationsByID[src.locations[s.locations[j]].id]
      OBVIOUS
    <3> HIDE DEF stack, u
    <3>2. QED
      BY <1>8, <3>1
  <2>3. /\ Fits(src) /\ SampleFits(src, s)
        /\ \A j \in 1..Len(s.locations) : src.locations[s.locations[j]].id \in DOMAIN mid.locationsByID
    BY <1>4
  <2> HIDE DEF u
  <2>4. QED
    BY ONLY <2>1, <2>2, <2>3, MappedSays
<1> HIDE DEF u, stack
<1>10. SampleFits(mid.p, u)
  BY <1>1, <1>4, <1>7, <1>8 DEF SampleFits, Merger
<1>11. /\ TablesSame(mid, new)
       /\ SampleAppended(mid.p, u, new.p) \/ \E j \in 1..Len(mid.p.samples) : SampleAddedTo(mid.p, u, new.p, j)
  BY <1>3, <1>4, <1>8, <1>10, AddMappedAdds
<1>12. Merger(t, new)
  BY <1>0, MapSampleFits DEF new
<1>13. SamplesDiffer(mid.p)
  BY <1>0, <1>5 DEF SamplesDiffer
<1>14. SamplesDiffer(new.p)
  BY <1>11, <1>13, SamplesDifferOn
<1>15. LocationsUsed(new.p)
  <2>1. /\ \A x : LocationUsed(mid.p, x) => LocationUsed(new.p, x)
        /\ \A j \in 1..Len(u.locations) : LocationUsed(new.p, u.locations[j])
    <3>1. {"locations", "values"} \subseteq DOMAIN u
      BY <1>10 DEF SampleFits
    <3>2. \A j \in 1..Len(mid.p.samples) : "locations" \in DOMAIN mid.p.samples[j]
      BY <1>4 DEF Merger, Fits, SamplesFit, SampleFits
    <3>3. QED
      BY <1>11, <3>1, <3>2, UsedByAdded
  <2>2. new.p.locations = mid.p.locations /\ Len(pm.p.locations) \in Nat /\ Len(mid.p.locations) \in Nat
    BY <1>5, <1>11 DEF TablesSame, Grows, TableGrows
  <2>3. ASSUME NEW x \in 1..Len(new.p.locations) PROVE LocationUsed(new.p, x)
    <3>1. CASE x <= Len(pm.p.locations)
      <4>1. x \in Nat /\ 1 <= x
        BY <2>2, <2>3
      <4>2. x \in 1..Len(pm.p.locations)
        <5> DEFINE c == Len(pm.p.locations)
        <5>1. c \in Nat /\ x \in Nat /\ 1 <= x /\ x <= c
          BY <2>2, <3>1, <4>1, Zenon
        <5> HIDE DEF c
        <5>2. x \in 1..c
          BY ONLY <5>1
        <5>3. QED
          BY <5>2, Zenon DEF c
      <4>3. LocationUsed(mid.p, x)
        <5>1. LocationUsed(pm.p, x)
          BY <1>0, <4>2, Zenon DEF LocationsUsed
        <5>2. mid.p.samples = pm.p.samples
          BY <1>5, Zenon
        <5>3. QED
          BY ONLY <5>1, <5>2, Zenon DEF LocationUsed
      <4>4. QED
        BY <2>1, <4>3
    <3>2. ASSUME NEW j \in 1..Len(s.locations), x = mid.locationsByID[src.locations[s.locations[j]].id]
          PROVE  LocationUsed(new.p, x)
      <4>1. j \in 1..Len(u.locations) /\ u.locations[j] = x
        BY <1>7, <1>8, <3>2, Zenon
      <4>2. QED
        BY <2>1, <4>1
    <3>3. \/ x <= Len(pm.p.locations)
          \/ \E j \in 1..Len(s.locations) : x = mid.locationsByID[src.locations[s.locations[j]].id]
      BY <1>4, <2>2, <2>3
    <3>4. QED
      BY <3>1, <3>2, <3>3
  <2>4. QED
    BY <2>3 DEF LocationsUsed
<1>16. Sound(t, src, new)
  <2>1. Faithful(src, new) /\ Tidy(new.p) /\ EntriesUsed(new.p) /\ MainNamed(src, new.p)
    BY <1>4, <1>5, <1>11, TablesSameSound
  <2>2. QED
    BY <1>12, <1>14, <1>15, <2>1 DEF Sound
<1>17. Grows(pm.p, new.p)
  BY <1>5, <1>11 DEF TablesSame, Grows
<1>18. TotalOf(new.p, said, i) = TotalOf(pm.p, said, i) + Weighs(src, said, i, s)
  <2>1. /\ Fits(pm.p) /\ pm.p.types = t /\ Fits(mid.p) /\ mid.p.types = t /\ new.p.types = t
    BY <1>0, <1>4, <1>12 DEF Merger
  <2>2. TotalOf(mid.p, said, i) = TotalOf(pm.p, said, i)
    BY <1>5, <2>1, TotalOn
  <2>3. /\ new.p.mappings = mid.p.mappings /\ new.p.functions = mid.p.functions
        /\ new.p.locations = mid.p.locations
    BY <1>11 DEF TablesSame
  <2>4. TotalOf(new.p, said, i) = TotalOf(mid.p, said, i) + Weighs(mid.p, said, i, u)
    BY <1>10, <1>11, <2>1, <2>3, TotalGrows
  <2>5. Weighs(mid.p, said, i, u) = Weighs(src, said, i, s)
    BY <1>8, <1>9 DEF Weighs
  <2>6. QED
    BY <2>2, <2>4, <2>5
<1>21. SampleMapped(t, src, pm, s, new)
  BY <1>4, <1>11, <1>20, Zenon DEF SampleMapped
<1>19. QED
  BY <1>16, <1>17, <1>18, <1>21 DEF new

(* What holds of the merger between two of its sources. *)
Between(t, srcs, n, pm) ==
    /\ Merger(t, pm)
    /\ Tidy(pm.p) /\ SamplesDiffer(pm.p) /\ EntriesUsed(pm.p) /\ LocationsUsed(pm.p)
    /\ n = 0 => pm.p.mappings = <<>>
    /\ n # 0 => MainNamed(srcs[1], pm.p)

(* With new tables of IDs nothing is said of a source yet. *)
LEMMA FreshFaithful ==
    ASSUME NEW t, NEW pm, Merger(t, pm), NEW src
    PROVE  LET fresh == WithFreshTables(pm)
           IN Merger(t, fresh) /\ fresh.p = pm.p /\ Faithful(src, fresh) /\ DOMAIN fresh.mappingsByID = {}
<1> DEFINE fresh == WithFreshTables(pm)
<1>1. /\ DOMAIN fresh = DOMAIN pm /\ fresh.p = pm.p /\ fresh.mappingsByID = NoIDs
      /\ fresh.functionsByID = NoIDs /\ fresh.locationsByID = NoIDs
  BY DEF WithFreshTables, Merger
<1>2. DOMAIN NoIDs = {}
  BY DEF NoIDs
<1> HIDE DEF fresh
<1>3. Merger(t, fresh)
  BY <1>1, <1>2 DEF Merger, ByIDFit
<1>4. Faithful(src, fresh)
  BY <1>1, <1>2 DEF Faithful, FunctionsSay, MappingsSay, LocationsSay
<1>5. QED
  BY <1>1, <1>2, <1>3, <1>4 DEF fresh

(* The main binary of the first source, if it has one, is the first mapping. *)
LEMMA MainBinaryFirst ==
    ASSUME NEW t, NEW pm, Merger(t, pm), pm.p.mappings = <<>>, DOMAIN pm.mappingsByID = {},
           NEW src, Fits(src), src.mappings # <<>>, MainBinaryNamed(src)
    PROVE  LET new == MapMapping(pm, src.mappings[1])
           IN Len(new.p.mappings) = 1 /\ MainNamed(src, new.p)
<1> DEFINE m == src.mappings[1]
           new == MapMapping(pm, m)
           known == KnownMapping(pm.p.mappings, m)
           first == [m EXCEPT !.id = NewID(pm.p.mappings)]
           byID == Entered(pm.mappingsByID, m.id, [m |-> Len(pm.p.mappings) + 1, offset |-> 0])
<1>1. m \in Mappings
  <2>1. src.mappings \in Seq(Mappings)
    BY DEF Fits, TablesFit
  <2>2. QED
    BY <2>1
<1>2. m.build # "" \/ m.file # ""
  <2>1. ~NoNames(<<m>>)
    BY DEF MainBinaryNamed
  <2>2. \A x \in ToSet(<<m>>) : x = m
    BY DEF ToSet
  <2> HIDE DEF m
  <2>3. QED
    BY <2>1, <2>2, Zenon DEF NoNames
<1>3. known = 0
  <2>1. pm.p.mappings \in Seq(Mappings) /\ Len(pm.p.mappings) = 0
    BY DEF Merger, Fits, TablesFit
  <2>2. known \in 0..Len(pm.p.mappings)
    BY <2>1, KnownMappingInRange
  <2> HIDE DEF known
  <2>3. QED
    BY <2>1, <2>2
<1>4. new = NewMapping(pm, m, NewID(pm.p.mappings))
  BY <1>3 DEF MapMapping, FindMapping
<1> HIDE DEF known, new
<1>5. /\ {"p", "mappingsByID", "functionsByID", "locationsByID"} \subseteq DOMAIN pm
      /\ {"types", "samples", "mappings", "functions", "locations"} \subseteq DOMAIN pm.p
  BY DEF Merger, Fits, TypesFit
<1>6. new = [pm EXCEPT !.mappingsByID = byID, !.p = [pm.p EXCEPT !.mappings = Append(pm.p.mappings, first)]]
  BY <1>4, <1>5 DEF NewMapping
<1> HIDE DEF byID
<1>7. new.p.mappings = Append(pm.p.mappings, first)
  <2> HIDE DEF first
  <2>1. QED
    BY <1>5, <1>6
<1>8. Append(pm.p.mappings, first) = <<first>>
  <2> HIDE DEF first
  <2>1. QED
    OBVIOUS
<1>9. first.build = m.build /\ first.file = m.file
  <2> HIDE DEF m
  <2>1. QED
    BY <1>1 DEF Mappings
<1> HIDE DEF first
<1>10. Len(new.p.mappings) = 1 /\ new.p.mappings[1] = first
  BY <1>7, <1>8
<1>11. MainNamed(src, new.p)
  <2>1. 1 \in 1..Len(new.p.mappings)
    BY <1>10
  <2>2. new.p.mappings[1].build = m.build /\ new.p.mappings[1].file = m.file
    BY <1>9, <1>10
  <2>3. new.p.mappings[1].build # "" \/ new.p.mappings[1].file # ""
    BY <1>2, <2>2, Zenon
  <2>4. QED
    BY <2>1, <2>3, Zenon DEF MainNamed
<1>12. QED
  BY <1>10, <1>11 DEF new

(* A source begins with what it needs. *)
LEMMA BaseSound ==
    ASSUME NEW t, NEW srcs, Mergeable(t, srcs), MainBinaryNamed(srcs[1]), NEW i \in 1..Len(srcs),
           NEW pm, Between(t, srcs, i - 1, pm)
    PROVE  LET base == WithMainBinary(WithFreshTables(pm), srcs, srcs[i])
           IN Sound(t, srcs[i], base) /\ Grows(pm.p, base.p) /\ base.p.samples = pm.p.samples
<1> DEFINE src == srcs[i]
           first == srcs[1]
           fresh == WithFreshTables(pm)
           base == WithMainBinary(fresh, srcs, src)
<1>0. /\ Merger(t, pm)
      /\ Tidy(pm.p) /\ SamplesDiffer(pm.p) /\ EntriesUsed(pm.p) /\ LocationsUsed(pm.p)
      /\ i - 1 = 0 => pm.p.mappings = <<>>
      /\ i - 1 # 0 => MainNamed(first, pm.p)
  BY DEF Between
<1>1. /\ Fits(src) /\ Fits(first) /\ Len(srcs) \in Nat \ {0}
      /\ first.mappings = <<>> => src.mappings = <<>>
  BY DEF Mergeable
<1>2. Merger(t, fresh) /\ fresh.p = pm.p /\ Faithful(src, fresh) /\ DOMAIN fresh.mappingsByID = {}
  BY <1>0, FreshFaithful
<1>3. base = IF NoNames(pm.p.mappings) /\ src.mappings # <<>> THEN MapMapping(fresh, first.mappings[1]) ELSE fresh
  BY <1>2 DEF WithMainBinary
<1>4. Grows(pm.p, pm.p)
  BY <1>0, GrowsNot DEF Merger
<1> HIDE DEF fresh, base
<1>5. ASSUME base = fresh, MainNamed(src, pm.p)
      PROVE  Sound(t, src, base) /\ Grows(pm.p, base.p) /\ base.p.samples = pm.p.samples
  BY <1>0, <1>2, <1>4, <1>5 DEF Sound
<1>6. CASE i = 1
  <2>1. pm.p.mappings = <<>> /\ src = first
    BY <1>0, <1>6
  <2>2. CASE src.mappings = <<>>
    <3>1. base = fresh
      BY <1>3, <2>2
    <3>2. MainNamed(src, pm.p)
      BY <2>1, <2>2 DEF MainNamed
    <3>3. QED
      BY <1>5, <3>1, <3>2 DEF base, fresh
  <2>3. CASE src.mappings # <<>>
    <3> DEFINE m == src.mappings[1]
    <3>1. NoNames(pm.p.mappings)
      BY <2>1, DOMAIN <<>> = {}, Zenon DEF NoNames, ToSet
    <3>2. base = MapMapping(fresh, m)
      BY <1>3, <2>1, <2>3, <3>1
    <3>3. fresh.p.mappings = <<>> /\ MainBinaryNamed(src)
      BY <1>2, <2>1
    <3>4. Len(base.p.mappings) = 1 /\ MainNamed(src, base.p)
      BY <1>1, <1>2, <2>3, <3>2, <3>3, MainBinaryFirst
    <3>5. 1 \in 1..Len(src.mappings) /\ m \in Mappings
      <4>1. src.mappings \in Seq(Mappings)
        BY <1>1 DEF Fits, TablesFit
      <4>2. QED
        BY <2>3, <4>1
    <3>6. MappingAdded(src, fresh, m, base)
      <4>1. Tidy(fresh.p)
        BY <1>0, <1>2
      <4>2. QED
        BY <1>1, <1>2, <3>2, <3>5, <4>1, MapMappingAdds
    <3>7. Merger(t, base)
      <4> HIDE DEF m
      <4>1. QED
        BY <1>2, <3>2, <3>5, MapMappingFits
    <3>8. /\ Adds(src, fresh, base)
          /\ base.p.functions = pm.p.functions /\ base.p.locations = pm.p.locations
      BY <1>2, <3>6 DEF MappingAdded
    <3>9. /\ Grows(pm.p, base.p) /\ base.p.samples = pm.p.samples
          /\ Faithful(src, base) /\ Tidy(base.p)
      BY <1>2, <3>8 DEF Adds
    <3>10. EntriesUsed(base.p)
      <4>1. \A x \in 1..Len(base.p.mappings) : x = 1
        BY <3>4
      <4>2. \A x \in 1..Len(pm.p.functions) : FunctionUsed(pm.p, x)
        BY <1>0 DEF EntriesUsed
      <4>3. \A x : FunctionUsed(pm.p, x) => FunctionUsed(base.p, x)
        BY <3>9, UsedOn
      <4>4. QED
        BY <3>8, <4>1, <4>2, <4>3 DEF EntriesUsed
    <3>11. LocationsUsed(base.p) /\ SamplesDiffer(base.p)
      <4>1. \A x : LocationUsed(pm.p, x) <=> LocationUsed(base.p, x)
        BY <3>9 DEF LocationUsed
      <4>2. LocationsUsed(base.p)
        BY <1>0, <3>8, <4>1 DEF LocationsUsed
      <4>3. SamplesDiffer(base.p)
        BY <1>0, <3>9 DEF SamplesDiffer
      <4>4. QED
        BY <4>2, <4>3
    <3>12. Sound(t, src, base)
      BY <3>4, <3>7, <3>9, <3>10, <3>11 DEF Sound
    <3>13. QED
      BY <3>9, <3>12 DEF base, fresh
  <2>4. QED
    BY <2>2, <2>3
<1>7. CASE i # 1
  <2>1. MainNamed(first, pm.p)
    BY <1>0, <1>7
  <2>2. CASE Len(pm.p.mappings) = 0 /\ Len(first.mappings) = 0
    <3>1. first.mappings = <<>>
      <4>1. first.mappings \in Seq(Mappings)
        BY <1>1 DEF Fits, TablesFit
      <4>2. QED
        BY <2>2, <4>1
    <3>2. src.mappings = <<>>
      BY <1>1, <3>1
    <3>3. base = fresh
      BY <1>3, <3>2
    <3>4. Len(src.mappings) = 0
      BY <3>2
    <3>5. MainNamed(src, pm.p)
      BY <2>2, <3>4 DEF MainNamed
    <3>6. QED
      BY <1>5, <3>3, <3>5 DEF base, fresh
  <2>3. CASE 1 \in 1..Len(pm.p.mappings) /\ (pm.p.mappings[1].build # "" \/ pm.p.mappings[1].file # "")
    <3>1. pm.p.mappings[1] \in ToSet(pm.p.mappings)
      <4>1. pm.p.mappings \in Seq(Mappings)
        BY <1>0 DEF Merger, Fits, TablesFit
      <4>2. DOMAIN pm.p.mappings = 1..Len(pm.p.mappings)
        BY ONLY <4>1
      <4>3. QED
        BY <2>3, <4>2, Zenon DEF ToSet
    <3>2. ~NoNames(pm.p.mappings)
      BY <2>3, <3>1, Zenon DEF NoNames
    <3>3. base = fresh
      BY <1>3, <3>2
    <3>4. MainNamed(src, pm.p)
      BY <2>3, Zenon DEF MainNamed
    <3>5. QED
      BY <1>5, <3>3, <3>4 DEF base, fresh
  <2>4. QED
    BY <2>1, <2>2, <2>3, Zenon DEF MainNamed
<1>8. QED
  BY <1>6, <1>7

(* A source adds its samples, by induction over them. *)
SourceAdded(k, n, acc) ==
    /\ Sound(k.t, k.src, acc) /\ Grows(k.base.p, acc.p) /\ TotalOf(k.base.p, k.said, k.i) \in Int
    /\ TotalOf(acc.p, k.said, k.i) = TotalOf(k.base.p, k.said, k.i) + SumTo(WeightsOf(k.src, k.said, k.i), n)
SourceAddedFold == INSTANCE FoldLaws WITH Op <- EachSample, Holds <- SourceAdded

(* A source is merged by a fold over its samples. *)
LEMMA MergeSourceAddsSamples ==
    ASSUME NEW pm, NEW srcs, NEW src
    PROVE  MergeSource(pm, srcs, src) =
              SourceAddedFold!Fold(src, WithMainBinary(WithFreshTables(pm), srcs, src), src.samples)
BY Zenon DEF MergeSource, EachSample, SourceAddedFold!Fold, FoldLeft, MapThenFoldSet,
   SourceAddedFold!MapThenFoldSet, SourceAddedFold!Largest, Max

(* One more sample of the source. *)
LEMMA SampleOfSourceAdded ==
    ASSUME NEW k, Fits(k.src), k.src.types = k.t, k.i \in 1..Len(k.t), k.t # <<>>,
           NEW n \in Nat, n + 1 \in 1..Len(k.src.samples), NEW acc, SourceAdded(k, n, acc)
    PROVE  SourceAdded(k, n + 1, EachSample(k.src, acc, k.src.samples[n + 1]))
<1> DEFINE t == k.t
           src == k.src
           said == k.said
           i == k.i
           s == src.samples[n + 1]
           f == WeightsOf(src, said, i)
           after == EachSample(src, acc, s)
           before == TotalOf(k.base.p, said, i)
<1>0. /\ Sound(t, src, acc) /\ Grows(k.base.p, acc.p) /\ before \in Int
      /\ TotalOf(acc.p, said, i) = before + SumTo(f, n)
  BY DEF SourceAdded
<1>1. SampleFits(src, s) /\ Len(src.samples) \in Nat
  BY DEF Fits, SamplesFit
<1>2. \A j \in 1..Len(src.samples) : f[j] \in Int
  BY WeightsInt
<1>3. f[n + 1] = Weighs(src, said, i, s)
  BY DEF WeightsOf
<1>4. \A j \in 1..n+1 : j \in 1..Len(src.samples)
  BY <1>1
<1> HIDE DEF f
<1>5. \A j \in 1..n+1 : f[j] \in Int
  BY <1>2, <1>4
<1>6. SumTo(f, n + 1) = SumTo(f, n) + f[n + 1]
  BY <1>5, NextSum
<1>7. SumTo(f, n) \in Int /\ f[n + 1] \in Int
  <2>1. \A j \in 1..n : f[j] \in Int
    BY <1>5
  <2>2. n + 1 \in 1..n+1
    OBVIOUS
  <2>3. QED
    BY <1>5, <2>1, <2>2, SumIsLast
<1>8. CASE IsZeroSample(s)
  <2>1. after = acc
    BY <1>8 DEF EachSample
  <2>2. f[n + 1] = 0
    <3>1. s.values \in Seq(Int) /\ Len(s.values) = Len(t)
      BY <1>1 DEF SampleFits
    <3>2. s.values[i] = 0
      BY <1>8, <3>1 DEF IsZeroSample
    <3>3. QED
      BY <1>3, <3>2 DEF Weighs
  <2>3. SumTo(f, n + 1) = SumTo(f, n)
    BY <1>6, <1>7, <2>2
  <2> HIDE DEF after
  <2>4. SourceAdded(k, n + 1, after)
    BY <1>0, <2>1, <2>3 DEF SourceAdded, f
  <2>5. QED
    BY <2>4 DEF after
<1>9. CASE ~IsZeroSample(s)
  <2> DEFINE new == MapSample(acc, src, s)
  <2>1. after = new
    BY <1>9 DEF EachSample
  <2>2. /\ Sound(t, src, new) /\ Grows(acc.p, new.p)
        /\ TotalOf(new.p, said, i) = TotalOf(acc.p, said, i) + Weighs(src, said, i, s)
    <3>1. /\ t # <<>> /\ Fits(src) /\ src.types = t /\ Sound(t, src, acc) /\ SampleFits(src, s)
          /\ i \in 1..Len(t)
      BY <1>0, <1>1
    <3> HIDE DEF t, src, said, i, s
    <3>2. QED
      BY <3>1, MapSampleSound
  <2> HIDE DEF new, after
  <2>3. Grows(k.base.p, new.p)
    BY <1>0, <2>2, GrowsOn
  <2>4. TotalOf(new.p, said, i) = before + SumTo(f, n + 1)
    <3> HIDE DEF before
    <3>1. QED
      BY <1>0, <1>3, <1>6, <1>7, <2>2
  <2>5. SourceAdded(k, n + 1, after)
    BY <2>1, <2>2, <2>3, <2>4 DEF SourceAdded, f
  <2>6. QED
    BY <2>5 DEF after
<1>10. QED
  BY <1>8, <1>9

(* A total is a number; without types there is nothing to add up. *)
LEMMA TotalIsInt ==
    ASSUME NEW p, Fits(p), NEW said, NEW c, p.types = <<>> \/ c \in 1..Len(p.types)
    PROVE  TotalOf(p, said, c) \in Int
<1>1. CASE p.types = <<>>
  <2>1. Len(p.samples) = 0
    BY <1>1 DEF Fits, SamplesFit
  <2>2. TotalOf(p, said, c) = 0
    BY <2>1, NoSum DEF TotalOf
  <2>3. QED
    BY <2>2
<1>2. CASE c \in 1..Len(p.types)
  BY <1>2, WeightsInt
<1>3. QED
  BY <1>1, <1>2

(* One source is merged. *)
SourceMerged(t, srcs, i, pm, new, said, c) ==
    /\ Between(t, srcs, i, new)
    /\ TotalOf(new.p, said, c) = TotalOf(pm.p, said, c) + TotalOf(srcs[i], said, c)

(* A source adds its total to that of the merged profile. *)
LEMMA MergeSourceSound ==
    ASSUME NEW t, NEW srcs, Mergeable(t, srcs), MainBinaryNamed(srcs[1]), NEW i \in 1..Len(srcs),
           NEW pm, Between(t, srcs, i - 1, pm), NEW said, NEW c, t = <<>> \/ c \in 1..Len(t)
    PROVE  SourceMerged(t, srcs, i, pm, MergeSource(pm, srcs, srcs[i]), said, c)
<1> DEFINE src == srcs[i]
           first == srcs[1]
           base == WithMainBinary(WithFreshTables(pm), srcs, src)
           k == [t |-> t, src |-> src, base |-> base, said |-> said, i |-> c]
           new == SourceAddedFold!Fold(src, base, src.samples)
<1>1. Sound(t, src, base) /\ Grows(pm.p, base.p) /\ base.p.samples = pm.p.samples
  BY BaseSound
<1>2. Fits(src) /\ src.types = t /\ i # 0 /\ Fits(first)
  BY DEF Mergeable
<1>3. MergeSource(pm, srcs, src) = new
  BY MergeSourceAddsSamples
<1>4. k.t = t /\ k.src = src /\ k.base = base /\ k.said = said /\ k.i = c
  OBVIOUS
<1> HIDE DEF k, base
<1>5. /\ DOMAIN src.samples = 1..Len(src.samples) /\ Len(src.samples) \in Nat
      /\ (t = <<>> => Len(src.samples) = 0)
  BY <1>2 DEF Fits, SamplesFit
<1>6. Merger(t, base) /\ Fits(base.p) /\ base.p.types = t
  BY <1>1 DEF Sound, Merger
<1>7. TotalOf(base.p, said, c) \in Int
  BY <1>6, TotalIsInt
<1>8. SourceAdded(k, 0, base)
  <2>1. Grows(base.p, base.p)
    BY <1>6, GrowsNot
  <2>2. TotalOf(base.p, said, c) = TotalOf(base.p, said, c) + SumTo(WeightsOf(src, said, c), 0)
    BY <1>7, NoSum
  <2>3. QED
    BY <1>1, <1>4, <1>7, <2>1, <2>2 DEF SourceAdded
<1>9. ASSUME NEW j \in 1..Len(src.samples), NEW acc, SourceAdded(k, j - 1, acc)
      PROVE  SourceAdded(k, j, EachSample(src, acc, src.samples[j]))
  <2> DEFINE n == j - 1
  <2>1. n \in Nat /\ n + 1 = j
    OBVIOUS
  <2>2. t # <<>> /\ c \in 1..Len(t)
    BY <1>5, <1>9
  <2>3. /\ Fits(k.src) /\ k.src.types = k.t /\ k.i \in 1..Len(k.t) /\ k.t # <<>>
        /\ n + 1 \in 1..Len(k.src.samples) /\ SourceAdded(k, n, acc)
    BY <1>2, <1>4, <1>9, <2>1, <2>2
  <2> HIDE DEF n
  <2>4. SourceAdded(k, n + 1, EachSample(k.src, acc, k.src.samples[n + 1]))
    BY <2>1, <2>3, SampleOfSourceAdded
  <2>5. QED
    BY <1>4, <2>1, <2>4
<1> HIDE DEF src
<1>10. SourceAdded(k, Len(src.samples), new)
  BY <1>5, <1>8, <1>9, SourceAddedFold!FoldInduction
<1> HIDE DEF new
<1>11. /\ Sound(t, src, new) /\ Grows(base.p, new.p)
       /\ TotalOf(new.p, said, c) = TotalOf(base.p, said, c) + TotalOf(src, said, c)
  BY <1>4, <1>10 DEF SourceAdded, TotalOf
<1>12. TotalOf(base.p, said, c) = TotalOf(pm.p, said, c)
  <2>1. Fits(pm.p) /\ pm.p.types = t
    BY DEF Between, Merger
  <2>2. CASE t = <<>>
    <3>1. Len(pm.p.samples) = 0 /\ Len(base.p.samples) = 0
      BY <1>6, <2>1, <2>2 DEF Fits, SamplesFit
    <3>2. QED
      BY <3>1, NoSum DEF TotalOf
  <2>3. CASE c \in 1..Len(t)
    BY <1>1, <2>1, <2>3, TotalOn
  <2>4. QED
    BY <2>2, <2>3
<1>13. MainNamed(first, new.p)
  <2>1. MainNamed(src, new.p)
    BY <1>11 DEF Sound
  <2>2. CASE Len(new.p.mappings) = 0 /\ Len(src.mappings) = 0
    <3>1. CASE i = 1
      BY <2>1, <3>1 DEF src
    <3>2. CASE i # 1
      <4>1. MainNamed(first, pm.p)
        BY <3>2 DEF Between
      <4>2. TableGrows(pm.p.mappings, base.p.mappings) /\ TableGrows(base.p.mappings, new.p.mappings)
        BY <1>1, <1>11 DEF Grows
      <4>3. Len(pm.p.mappings) = 0
        BY <2>2, <4>2 DEF TableGrows
      <4>4. Len(first.mappings) = 0
        BY <4>1, <4>3 DEF MainNamed
      <4>5. QED
        BY <2>2, <4>4 DEF MainNamed
    <3>3. QED
      BY <3>1, <3>2
  <2>3. CASE 1 \in 1..Len(new.p.mappings) /\ (new.p.mappings[1].build # "" \/ new.p.mappings[1].file # "")
    BY <2>3, Zenon DEF MainNamed
  <2>4. QED
    BY <2>1, <2>2, <2>3, Zenon DEF MainNamed
<1>14. Between(t, srcs, i, new)
  BY <1>2, <1>11, <1>13 DEF Between, Sound
<1>15. SourceMerged(t, srcs, i, pm, new, said, c)
  BY <1>11, <1>12, <1>14 DEF SourceMerged, src
<1>16. QED
  BY <1>3, <1>15 DEF src

(* A merge begins with nothing. *)
LEMMA NewMergerSound ==
    ASSUME NEW t, NEW srcs, Mergeable(t, srcs), NEW said, NEW c
    PROVE  Between(t, srcs, 0, NewMerger(srcs)) /\ TotalOf(NewMerger(srcs).p, said, c) = 0
<1> DEFINE pm == NewMerger(srcs)
           first == srcs[1]
<1>1. TypesFit(first)
  BY DEF Mergeable, Fits
<1>2. /\ pm.p.samples = <<>> /\ pm.p.mappings = <<>> /\ pm.p.locations = <<>> /\ pm.p.functions = <<>>
  BY <1>1, Zenon DEF NewMerger, CombineHeaders, TypesFit
<1>3. Merger(t, pm)
  BY NewMergerFits
<1> HIDE DEF pm
<1>4. /\ \A x : x \notin 1..Len(pm.p.mappings) /\ x \notin 1..Len(pm.p.functions)
      /\ \A x : x \notin 1..Len(pm.p.locations) /\ x \notin 1..Len(pm.p.samples)
      /\ Len(pm.p.samples) = 0
  BY <1>2
<1>5. Tidy(pm.p) /\ SamplesDiffer(pm.p) /\ EntriesUsed(pm.p) /\ LocationsUsed(pm.p)
  BY <1>4 DEF Tidy, FunctionsDiffer, MappingsDiffer, LocationsDiffer, SamplesDiffer, EntriesUsed, LocationsUsed
<1>6. Between(t, srcs, 0, pm)
  BY <1>2, <1>3, <1>5 DEF Between
<1>7. TotalOf(pm.p, said, c) = 0
  BY <1>4, NoSum DEF TotalOf
<1>8. QED
  BY <1>6, <1>7 DEF pm

(* One pass adds up the totals of its sources. *)
TotalsOf(srcs, said, c) == [j \in 1..Len(srcs) |-> TotalOf(srcs[j], said, c)]
SourcesAdded(k, n, acc) ==
    /\ Between(k.t, k.srcs, n, acc)
    /\ TotalOf(acc.p, k.said, k.c) = SumTo(TotalsOf(k.srcs, k.said, k.c), n)
SourcesAddedFold == INSTANCE FoldLaws WITH Op <- EachSource, Holds <- SourcesAdded

(* The first pass over the sources is a fold. *)
LEMMA MergeOnceAddsSources ==
    ASSUME NEW srcs
    PROVE  MergeOnce(srcs) = SourcesAddedFold!Fold(srcs, NewMerger(srcs), srcs).p
BY Zenon DEF MergeOnce, EachSource, SourcesAddedFold!Fold, FoldLeft, MapThenFoldSet,
   SourcesAddedFold!MapThenFoldSet, SourcesAddedFold!Largest, Max

(* After it the total of a stack is the sum of the sources' totals. *)
LEMMA MergeOnceSound ==
    ASSUME NEW t, NEW srcs, Mergeable(t, srcs), MainBinaryNamed(srcs[1]),
           NEW said, NEW c, t = <<>> \/ c \in 1..Len(t)
    PROVE  \E pm : /\ MergeOnce(srcs) = pm.p /\ Between(t, srcs, Len(srcs), pm)
                   /\ TotalOf(pm.p, said, c) = SumTo(TotalsOf(srcs, said, c), Len(srcs))
<1> DEFINE k == [t |-> t, srcs |-> srcs, said |-> said, c |-> c]
           totals == TotalsOf(srcs, said, c)
<1>1. k.t = t /\ k.srcs = srcs /\ k.said = said /\ k.c = c
  OBVIOUS
<1> HIDE DEF k
<1>2. /\ DOMAIN srcs = 1..Len(srcs) /\ Len(srcs) \in Nat
      /\ \A j \in 1..Len(srcs) : Fits(srcs[j]) /\ srcs[j].types = t
  BY DEF Mergeable
<1>3. \A j \in 1..Len(srcs) : totals[j] = TotalOf(srcs[j], said, c) /\ totals[j] \in Int
  BY <1>2, TotalIsInt DEF TotalsOf
<1> HIDE DEF totals
<1>4. SourcesAdded(k, 0, NewMerger(srcs))
  BY <1>1, NewMergerSound, NoSum DEF SourcesAdded
<1>5. ASSUME NEW i \in 1..Len(srcs), NEW acc, SourcesAdded(k, i - 1, acc)
      PROVE  SourcesAdded(k, i, EachSource(srcs, acc, srcs[i]))
  <2> DEFINE n == i - 1
             new == EachSource(srcs, acc, srcs[i])
  <2>1. n \in Nat /\ n + 1 = i
    BY <1>2
  <2>2. Between(t, srcs, i - 1, acc) /\ TotalOf(acc.p, said, c) = SumTo(totals, n)
    BY <1>1, <1>5 DEF SourcesAdded, totals
  <2>3. /\ Between(t, srcs, i, new)
        /\ TotalOf(new.p, said, c) = TotalOf(acc.p, said, c) + TotalOf(srcs[i], said, c)
    <3>1. new = MergeSource(acc, srcs, srcs[i])
      BY DEF EachSource
    <3>2. /\ Mergeable(t, srcs) /\ MainBinaryNamed(srcs[1]) /\ i \in 1..Len(srcs)
          /\ Between(t, srcs, i - 1, acc) /\ (t = <<>> \/ c \in 1..Len(t))
      BY <2>2
    <3> HIDE DEF new, n
    <3>3. SourceMerged(t, srcs, i, acc, MergeSource(acc, srcs, srcs[i]), said, c)
      BY <3>2, MergeSourceSound
    <3>4. QED
      BY <3>1, <3>3 DEF SourceMerged
  <2> HIDE DEF new
  <2>4. SumTo(totals, i) = SumTo(totals, n) + totals[i]
    <3>1. \A j \in 1..n+1 : totals[j] \in Int
      BY <1>2, <1>3, <2>1
    <3> HIDE DEF n
    <3>2. SumTo(totals, n + 1) = SumTo(totals, n) + totals[n + 1]
      BY <2>1, <3>1, NextSum
    <3>3. QED
      BY <2>1, <3>2
  <2>5. TotalOf(new.p, said, c) = SumTo(totals, i)
    BY <1>3, <2>2, <2>3, <2>4
  <2>6. SourcesAdded(k, i, new)
    BY <1>1, <2>3, <2>5 DEF SourcesAdded, totals
  <2>7. QED
    BY <2>6 DEF new
<1>6. SourcesAdded(k, Len(srcs), SourcesAddedFold!Fold(srcs, NewMerger(srcs), srcs))
  BY <1>2, <1>4, <1>5, SourcesAddedFold!FoldInduction
<1>7. QED
  BY <1>1, <1>6, MergeOnceAddsSources DEF SourcesAdded, totals

(* Total adds up the same, one type at a time. *)
AddSaid(k, sum, s) ==
    IF SaidBySample(k.p, s) = k.said THEN [i \in DOMAIN sum |-> sum[i] + s.values[i]] ELSE sum
SaidAdded(k, n, sum) ==
    DOMAIN sum = DOMAIN k.p.types /\ \A c \in DOMAIN k.p.types : sum[c] = SumTo(WeightsOf(k.p, k.said, c), n)
TotalFold == INSTANCE FoldLaws WITH Op <- AddSaid, Holds <- SaidAdded

(* Total is a fold over the samples. *)
LEMMA TotalIsFold ==
    ASSUME NEW k
    PROVE  Total(k.p, k.said) = TotalFold!Fold(k, [i \in DOMAIN k.p.types |-> 0], k.p.samples)
BY Zenon DEF Total, AddSaid, TotalFold!Fold, FoldLeft, MapThenFoldSet,
   TotalFold!MapThenFoldSet, TotalFold!Largest, Max

(* So Total and TotalOf are the same. *)
LEMMA TotalIsSum ==
    ASSUME NEW p, Fits(p), NEW said
    PROVE  \A c \in DOMAIN p.types : Total(p, said)[c] = TotalOf(p, said, c)
<1> DEFINE k == [p |-> p, said |-> said]
           base == [i \in DOMAIN k.p.types |-> 0]
<1>1. k.p = p /\ k.said = said
  OBVIOUS
<1> HIDE DEF k
<1>2. /\ DOMAIN p.samples = 1..Len(p.samples) /\ Len(p.samples) \in Nat /\ DOMAIN p.types = 1..Len(p.types)
      /\ \A j \in 1..Len(p.samples) : SampleFits(p, p.samples[j])
  BY DEF Fits, SamplesFit, TypesFit
<1>3. SaidAdded(k, 0, base)
  BY <1>1, NoSum DEF SaidAdded
<1>4. ASSUME NEW j \in 1..Len(p.samples), NEW sum, SaidAdded(k, j - 1, sum)
      PROVE  SaidAdded(k, j, AddSaid(k, sum, p.samples[j]))
  <2> DEFINE s == p.samples[j]
             new == AddSaid(k, sum, s)
             n == j - 1
  <2>1. DOMAIN sum = DOMAIN p.types /\ \A c \in DOMAIN p.types : sum[c] = SumTo(WeightsOf(p, said, c), n)
    BY <1>1, <1>4 DEF SaidAdded
  <2>2. n \in Nat /\ n + 1 = j /\ s.values \in Seq(Int) /\ Len(s.values) = Len(p.types)
    BY <1>2 DEF SampleFits
  <2>3. ASSUME NEW c \in DOMAIN p.types
        PROVE  new[c] = SumTo(WeightsOf(p, said, c), j)
    <3> DEFINE f == WeightsOf(p, said, c)
    <3>1. \A i \in 1..Len(p.samples) : f[i] \in Int
      BY <1>2, <2>3, WeightsInt
    <3>2. f[j] = IF SaidBySample(p, s) = said THEN s.values[c] ELSE 0
      BY DEF WeightsOf, Weighs
    <3> HIDE DEF f
    <3>3. /\ \A i \in 1..n : f[i] \in Int
          /\ \A i \in 1..n+1 : f[i] \in Int
      BY <1>2, <2>2, <3>1
    <3>4. SumTo(f, j) = SumTo(f, n) + f[j]
      <4> HIDE DEF n
      <4>1. SumTo(f, n + 1) = SumTo(f, n) + f[n + 1]
        BY <2>2, <3>3, NextSum
      <4>2. QED
        BY <2>2, <4>1
    <3>5. SumTo(f, n) \in Int
      BY <2>2, <3>3, SumIsLast
    <3>6. sum[c] = SumTo(f, n)
      BY <2>1 DEF f
    <3> HIDE DEF s, n
    <3>7. CASE SaidBySample(p, s) = said
      <4>1. new = [i \in DOMAIN sum |-> sum[i] + s.values[i]]
        BY <1>1, <3>7 DEF AddSaid
      <4>2. new[c] = sum[c] + s.values[c]
        BY <2>1, <4>1
      <4>3. QED
        BY <3>2, <3>4, <3>6, <3>7, <4>2 DEF f
    <3>8. CASE SaidBySample(p, s) # said
      <4>1. new = sum
        BY <1>1, <3>8 DEF AddSaid
      <4>2. f[j] = 0
        BY <3>2, <3>8
      <4>3. SumTo(f, j) = sum[c]
        BY <3>4, <3>5, <3>6, <4>2
      <4>4. QED
        BY <4>1, <4>3 DEF f
    <3>9. QED
      BY <3>7, <3>8
  <2>4. DOMAIN new = DOMAIN p.types
    BY <2>1 DEF AddSaid
  <2> HIDE DEF new
  <2>5. SaidAdded(k, j, new)
    BY <1>1, <2>3, <2>4 DEF SaidAdded
  <2>6. QED
    BY <2>5 DEF new
<1>5. SaidAdded(k, Len(p.samples), TotalFold!Fold(k, base, p.samples))
  <2> HIDE DEF base
  <2>1. QED
    BY <1>2, <1>3, <1>4, TotalFold!FoldInduction
<1>6. Total(p, said) = TotalFold!Fold(k, base, p.samples)
  BY <1>1, TotalIsFold
<1>7. QED
  BY <1>1, <1>5, <1>6 DEF SaidAdded, TotalOf

(* One pass, and then the second if there is one. *)
Combined(t, srcs, p) ==
    /\ Fits(p) /\ p.types = t /\ MainBinaryNamed(p)
    /\ Tidy(p) /\ SamplesDiffer(p) /\ EntriesUsed(p) /\ LocationsUsed(p)

(* One pass over the sources makes a profile that says their sums. *)
LEMMA MergeOnceCombines ==
    ASSUME NEW t, NEW srcs, Mergeable(t, srcs), MainBinaryNamed(srcs[1])
    PROVE  /\ Combined(t, srcs, MergeOnce(srcs))
           /\ \A said, c : t = <<>> \/ c \in 1..Len(t) =>
                  TotalOf(MergeOnce(srcs), said, c) = SumTo(TotalsOf(srcs, said, c), Len(srcs))
<1> DEFINE p == MergeOnce(srcs)
<1>1. ASSUME NEW said, NEW c, t = <<>> \/ c \in 1..Len(t)
      PROVE  Combined(t, srcs, p) /\ TotalOf(p, said, c) = SumTo(TotalsOf(srcs, said, c), Len(srcs))
  <2>1. PICK pm : /\ p = pm.p /\ Between(t, srcs, Len(srcs), pm)
                  /\ TotalOf(pm.p, said, c) = SumTo(TotalsOf(srcs, said, c), Len(srcs))
    BY <1>1, MergeOnceSound
  <2> HIDE DEF p
  <2>2. Len(srcs) # 0
    BY DEF Mergeable
  <2>3. /\ Merger(t, pm) /\ MainNamed(srcs[1], p)
        /\ Tidy(p) /\ SamplesDiffer(p) /\ EntriesUsed(p) /\ LocationsUsed(p)
    BY <2>1, <2>2 DEF Between
  <2>4. Fits(p) /\ p.types = t
    BY <2>1, <2>3 DEF Merger
  <2>5. MainBinaryNamed(p)
    <3> DEFINE m == p.mappings[1]
    <3>1. p.mappings \in Seq(Mappings)
      BY <2>4 DEF Fits, TablesFit
    <3>2. CASE Len(p.mappings) = 0
      BY <3>1, <3>2 DEF MainBinaryNamed
    <3>3. CASE m.build # "" \/ m.file # ""
      <4>1. m \in ToSet(<<m>>)
        BY DEF ToSet
      <4> HIDE DEF m
      <4>2. ~NoNames(<<m>>)
        BY <3>3, <4>1, Zenon DEF NoNames
      <4>3. QED
        BY <4>2 DEF MainBinaryNamed, m
    <3>4. QED
      BY <2>3, <3>2, <3>3, Zenon DEF MainNamed
  <2>6. Combined(t, srcs, p)
    BY <2>3, <2>4, <2>5 DEF Combined
  <2>7. QED
    BY <2>1, <2>6
<1>2. Combined(t, srcs, p)
  <2>1. t \in Seq(STRING)
    BY DEF Mergeable, Fits, TypesFit
  <2>2. t = <<>> \/ 1 \in 1..Len(t)
    BY <2>1
  <2> HIDE DEF p
  <2>3. QED
    BY <1>1, <2>2
<1>3. QED
  BY <1>1, <1>2

(* The sum over one source, which the second pass of Merge has. *)
LEMMA OneSource ==
    ASSUME NEW p, NEW said, NEW c, TotalOf(p, said, c) \in Int
    PROVE  SumTo(TotalsOf(<<p>>, said, c), Len(<<p>>)) = TotalOf(p, said, c)
<1> DEFINE f == TotalsOf(<<p>>, said, c)
<1>1. Len(<<p>>) = 1 /\ f[1] = TotalOf(p, said, c)
  BY DEF TotalsOf
<1> HIDE DEF f
<1>2. \A i \in 1..0+1 : f[i] \in Int
  BY <1>1
<1>3. SumTo(f, 0 + 1) = SumTo(f, 0) + f[0 + 1]
  BY <1>2, NextSum
<1>4. QED
  BY <1>1, <1>3, NoSum DEF f

(* The sum over two. *)
LEMMA TwoSources ==
    ASSUME NEW p, NEW q, NEW said, NEW c, TotalOf(p, said, c) \in Int, TotalOf(q, said, c) \in Int
    PROVE  SumTo(TotalsOf(<<p, q>>, said, c), Len(<<p, q>>)) = TotalOf(p, said, c) + TotalOf(q, said, c)
<1> DEFINE f == TotalsOf(<<p, q>>, said, c)
<1>1. Len(<<p, q>>) = 2 /\ f[1] = TotalOf(p, said, c) /\ f[2] = TotalOf(q, said, c)
  BY DEF TotalsOf
<1> HIDE DEF f
<1>2. /\ \A i \in 1..0+1 : f[i] \in Int
      /\ \A i \in 1..1+1 : f[i] \in Int
  BY <1>1
<1>3. SumTo(f, 0 + 1) = SumTo(f, 0) + f[0 + 1]
  BY <1>2, NextSum
<1>4. SumTo(f, 1 + 1) = SumTo(f, 1) + f[1 + 1]
  BY <1>2, NextSum
<1>5. QED
  BY <1>1, <1>3, <1>4, NoSum DEF f

(* Merge, with its second pass when a sample is zero, says the sums of its sources. *)
LEMMA MergeAddsUp ==
    ASSUME NEW t, NEW srcs, Mergeable(t, srcs), MainBinaryNamed(srcs[1]), NEW said, NEW c, c \in 1..Len(t)
    PROVE  TotalOf(Merge(srcs), said, c) = SumTo(TotalsOf(srcs, said, c), Len(srcs))
<1> DEFINE p == MergeOnce(srcs)
           again == MergeOnce(<<p>>)
<1>1. /\ Combined(t, srcs, p)
      /\ TotalOf(p, said, c) = SumTo(TotalsOf(srcs, said, c), Len(srcs))
  BY MergeOnceCombines
<1>2. Merge(srcs) = IF \E s \in ToSet(p.samples) : IsZeroSample(s) THEN again ELSE p
  BY DEF Merge, WithoutZeroSamples
<1> HIDE DEF p
<1>3. Fits(p) /\ p.types = t /\ MainBinaryNamed(p)
  BY <1>1 DEF Combined
<1>4. TotalOf(p, said, c) \in Int
  BY <1>3, TotalIsInt
<1>5. Mergeable(t, <<p>>) /\ <<p>>[1] = p
  BY <1>3 DEF Mergeable
<1>6. TotalOf(again, said, c) = SumTo(TotalsOf(<<p>>, said, c), Len(<<p>>))
  <2> DEFINE one == <<p>>
  <2>1. Mergeable(t, one) /\ MainBinaryNamed(one[1])
    BY <1>3, <1>5
  <2> HIDE DEF one
  <2>2. TotalOf(MergeOnce(one), said, c) = SumTo(TotalsOf(one, said, c), Len(one))
    BY <2>1, MergeOnceCombines
  <2>3. QED
    BY <2>2 DEF one
<1>7. TotalOf(again, said, c) = TotalOf(p, said, c)
  BY <1>4, <1>6, OneSource
<1> HIDE DEF again
<1>8. QED
  BY <1>1, <1>2, <1>7

(* Two profiles that Merge does not panic over. *)
LEMMA TwoAreMergeable ==
    ASSUME NEW p, Fits(p), NEW q, Fits(q), p.types = q.types, ~MergePanics(<<p, q>>)
    PROVE  Mergeable(p.types, <<p, q>>) /\ <<p, q>>[1] = p
<1> DEFINE srcs == <<p, q>>
<1>1. Len(srcs) = 2 /\ DOMAIN srcs = 1..2 /\ srcs[1] = p /\ srcs[2] = q
  OBVIOUS
<1>2. p \in ToSet(srcs) /\ q \in ToSet(srcs)
  BY <1>1 DEF ToSet
<1>3. \A i \in 1..2 : i = 1 \/ i = 2
  OBVIOUS
<1> HIDE DEF srcs
<1>4. p.mappings = <<>> => q.mappings = <<>>
  BY <1>1, <1>2 DEF MergePanics, srcs
<1>5. Mergeable(p.types, srcs)
  BY <1>1, <1>3, <1>4 DEF Mergeable
<1>6. QED
  BY <1>1, <1>5 DEF srcs

(* So merging two profiles only regroups what they say. *)
LEMMA MergeRegroups ==
    ASSUME NEW p, Fits(p), NEW q, Fits(q), p.types = q.types, ~MergePanics(<<p, q>>), MainBinaryNamed(p)
    PROVE  Regrouped(p, q, Merge(<<p, q>>))
<1> DEFINE srcs == <<p, q>>
           merged == Merge(srcs)
           t == p.types
<1>1. srcs[1] = p /\ Mergeable(t, srcs)
  BY TwoAreMergeable
<1> HIDE DEF srcs
<1>2. Fits(merged) /\ merged.types = t
  <2>1. Fits(merged)
    BY <1>1, MergeFits
  <2>2. merged.types = t
    <3> DEFINE once == MergeOnce(srcs)
    <3>1. Fits(once) /\ once.types = t
      BY <1>1, MergeOnceFits
    <3> HIDE DEF once
    <3>2. Mergeable(t, <<once>>)
      BY <3>1 DEF Mergeable
    <3>3. MergeOnce(<<once>>).types = t
      BY <3>2, MergeOnceFits
    <3>4. QED
      BY <3>1, <3>3 DEF Merge, WithoutZeroSamples, once
  <2>3. QED
    BY <2>1, <2>2
<1>3. DOMAIN t = 1..Len(t)
  BY DEF Fits, TypesFit
<1>4. ASSUME NEW said, NEW c \in DOMAIN t
      PROVE  Total(merged, said)[c] = Total(p, said)[c] + Total(q, said)[c]
  <2>1. TotalOf(merged, said, c) = SumTo(TotalsOf(srcs, said, c), Len(srcs))
    <3>1. Mergeable(t, srcs) /\ MainBinaryNamed(srcs[1]) /\ c \in 1..Len(t)
      BY <1>1, <1>3, <1>4
    <3> HIDE DEF t
    <3>2. QED
      BY <3>1, MergeAddsUp
  <2>2. TotalOf(p, said, c) \in Int /\ TotalOf(q, said, c) \in Int
    BY <1>3, <1>4, TotalIsInt
  <2>3. SumTo(TotalsOf(srcs, said, c), Len(srcs)) = TotalOf(p, said, c) + TotalOf(q, said, c)
    BY <2>2, TwoSources DEF srcs
  <2> HIDE DEF merged
  <2>4. /\ Total(merged, said)[c] = TotalOf(merged, said, c)
        /\ Total(p, said)[c] = TotalOf(p, said, c)
        /\ Total(q, said)[c] = TotalOf(q, said, c)
    BY <1>2, <1>4, TotalIsSum
  <2>5. QED
    BY <2>1, <2>3, <2>4
<1> HIDE DEF merged
<1>5. Regrouped(p, q, merged)
  BY <1>4 DEF Regrouped
<1>6. QED
  BY <1>5 DEF merged, srcs

(* A step named merge that does not panic has merged with the profile of a     *)
(* source, which is valid and compatible.                                      *)
LEMMA MergeNamed ==
    ASSUME Ready, Operation, last'[1] = "merge", status' = "open"
    PROVE  \E w \in Sources :
              LET other == Results[w].profile
              IN /\ Fits(other) /\ profile.types = other.types
                 /\ ~MergePanics(<<profile, other>>)
                 /\ profile' = Merge(<<profile, other>>) /\ last' = <<"merge", w>>
<1>1. PICK w \in Sources : MergeParsed(w, Results[w])
  BY OperationNamed
<1> DEFINE other == Results[w].profile
<1>2. Fits(other)
  BY <1>1, ResultFits DEF MergeParsed
<1>3. ASSUME MergeFails(w, other) PROVE FALSE
  <2>1. last' = <<"failed merge", w>>
    BY <1>3, Zenon DEF MergeFails, Becomes
  <2>2. last'[1] = "failed merge"
    BY <2>1, Zenon
  <2>3. QED
    BY <2>2, Zenon
<1>4. ~MergePanicking(w, other)
  BY DEF MergePanicking
<1>5. MergeWith(w, other)
  BY <1>1, <1>3, <1>4 DEF MergeParsed
<1> HIDE DEF other
<1>6. /\ profile.types = other.types /\ ~MergePanics(<<profile, other>>)
      /\ profile' = Merge(<<profile, other>>) /\ last' = <<"merge", w>>
  BY <1>5 DEF MergeWith, Becomes, Compatible
<1>7. QED
  BY <1>2, <1>6 DEF other

(* Merge only regroups: for each stack with its labels the merged values are the *)
(* sums of those of the two profiles.                                            *)
THEOREM MergeOnlyRegroups == OperationsSpec => MergeKeepsStacks
<1>1. ASSUME OperationsInv, [OperationsNext]_operationVars
      PROVE  [last'[1] = "merge" /\ status' = "open" /\ MainBinaryNamed(profile) =>
                 Regrouped(profile, Results[last'[2]].profile, profile')]_operationVars
  <2> SUFFICES ASSUME OperationsNext, last'[1] = "merge", status' = "open", MainBinaryNamed(profile)
               PROVE  Regrouped(profile, Results[last'[2]].profile, profile')
    BY <1>1
  <2>1. ~(\E w \in Sources : ParseProfile(w))
    BY DEF ParseProfile, Read
  <2>2. Ready /\ Operation
    BY <2>1 DEF OperationsNext
  <2>3. Fits(profile)
    BY <1>1, <2>2, OpenFits DEF Ready
  <2>4. PICK w \in Sources :
          LET other == Results[w].profile
          IN /\ Fits(other) /\ profile.types = other.types
             /\ ~MergePanics(<<profile, other>>)
             /\ profile' = Merge(<<profile, other>>) /\ last' = <<"merge", w>>
    BY <2>2, MergeNamed
  <2> DEFINE other == Results[w].profile
  <2>5. last'[2] = w
    BY <2>4
  <2>6. Regrouped(profile, other, Merge(<<profile, other>>))
    BY <2>3, <2>4, MergeRegroups
  <2>7. QED
    BY <2>4, <2>5, <2>6
<1>2. QED
  BY <1>1, OperationsInvariant, PTL DEF OperationsSpec, MergeKeepsStacks

--------------------------------------------------------------------------------
(* A second pass over what the first has made. Its source is tidy, and so no    *)
(* two of its entries are given one place: locations with one place have one    *)
(* key, as they say the same and refer to the same. First their lines: two that *)
(* say the same are one.                                                        *)
LEMMA LinesApart ==
    ASSUME NEW src, Fits(src), FunctionsDiffer(src),
           NEW a \in Lines, NEW b \in Lines,
           a.function \in 0..Len(src.functions), b.function \in 0..Len(src.functions),
           SaidByLine(src, a) = SaidByLine(src, b), a.function = 0 <=> b.function = 0
    PROVE  a = b
<1>1. a.line = b.line
  BY Zenon DEF SaidByLine
<1>2. a.function = b.function
  <2>1. CASE a.function = 0
    BY <2>1
  <2>2. CASE a.function # 0
    <3>1. a.function \in 1..Len(src.functions) /\ b.function \in 1..Len(src.functions)
      BY <2>2
    <3>2. /\ src.functions[a.function].name = src.functions[b.function].name
          /\ src.functions[a.function].file = src.functions[b.function].file
      BY <2>2, Zenon DEF SaidByLine, Nil
    <3>3. QED
      BY <3>1, <3>2, Zenon DEF FunctionsDiffer
  <2>3. QED
    BY <2>1, <2>2
<1>3. QED
  BY <1>1, <1>2 DEF Lines

(* Two locations of the source that are given one place are one. *)
LEMMA PlacesApart ==
    ASSUME NEW t, NEW pm, Merger(t, pm), NEW src, Fits(src), Tidy(src), Faithful(src, pm), Apart(src, pm),
           NEW i \in 1..Len(src.locations), NEW j \in 1..Len(src.locations),
           src.locations[i].id \in DOMAIN pm.locationsByID,
           src.locations[j].id \in DOMAIN pm.locationsByID,
           pm.locationsByID[src.locations[i].id] = pm.locationsByID[src.locations[j].id]
    PROVE  i = j
<1> DEFINE a == src.locations[i]
           b == src.locations[j]
           x == pm.p.locations[pm.locationsByID[a.id]]
<1>1. SaidByLocation(src, a) = SaidByLocation(src, b)
  BY Zenon DEF Faithful, LocationsSay
<1>2. RefersAs(src, pm, a, x) /\ RefersAs(src, pm, b, x)
  BY Zenon DEF Apart, LocationsRefer
<1>3. /\ a \in Locations /\ a.mapping \in 0..Len(src.mappings)
      /\ \A c \in 1..Len(a.lines) : a.lines[c].function \in 0..Len(src.functions)
      /\ b \in Locations /\ b.mapping \in 0..Len(src.mappings)
      /\ \A c \in 1..Len(b.lines) : b.lines[c].function \in 0..Len(src.functions)
  <2>1. LocationFits(src, a) /\ LocationFits(src, b)
    BY DEF Fits, TablesFit
  <2>2. QED
    BY <2>1, Zenon DEF LocationFits
<1> HIDE DEF a, b, x
<1>4. /\ a.lines \in Seq(Lines) /\ b.lines \in Seq(Lines)
      /\ DOMAIN a.lines = 1..Len(a.lines) /\ DOMAIN b.lines = 1..Len(b.lines)
      /\ \A c \in 1..Len(a.lines) : a.lines[c] \in Lines
      /\ \A c \in 1..Len(b.lines) : b.lines[c] \in Lines
  BY <1>3 DEF Locations
<1>5. /\ (IF a.mapping = Nil THEN a.address ELSE a.address - src.mappings[a.mapping].start)
         = (IF b.mapping = Nil THEN b.address ELSE b.address - src.mappings[b.mapping].start)
      /\ a.mapping # Nil <=> b.mapping # Nil
      /\ [c \in DOMAIN a.lines |-> SaidByLine(src, a.lines[c])] = [c \in DOMAIN b.lines |-> SaidByLine(src, b.lines[c])]
  BY <1>1 DEF SaidByLocation
<1>6. a.mapping = b.mapping
  <2>1. CASE a.mapping = 0
    BY <1>5, <2>1 DEF Nil
  <2>2. CASE a.mapping # 0
    <3>1. b.mapping # 0
      BY <1>5, <2>2, Zenon DEF Nil
    <3>2. a.mapping \in 1..Len(src.mappings) /\ b.mapping \in 1..Len(src.mappings)
      BY <1>3, <2>2, <3>1
    <3>3. /\ src.mappings[a.mapping].id \in DOMAIN pm.mappingsByID
          /\ src.mappings[b.mapping].id \in DOMAIN pm.mappingsByID
          /\ pm.mappingsByID[src.mappings[a.mapping].id].m = pm.mappingsByID[src.mappings[b.mapping].id].m
      BY <1>2, <2>2, <3>1, Zenon DEF RefersAs
    <3>4. QED
      BY <3>2, <3>3, Zenon DEF Apart, OwnMappings
  <2>3. QED
    BY <2>1, <2>2
<1>7. DOMAIN a.lines = DOMAIN b.lines
      /\ \A c \in DOMAIN a.lines : SaidByLine(src, a.lines[c]) = SaidByLine(src, b.lines[c])
  <2> DEFINE f == [c \in DOMAIN a.lines |-> SaidByLine(src, a.lines[c])]
             g == [c \in DOMAIN b.lines |-> SaidByLine(src, b.lines[c])]
  <2>1. /\ DOMAIN f = DOMAIN a.lines /\ DOMAIN g = DOMAIN b.lines
        /\ \A c \in DOMAIN a.lines : f[c] = SaidByLine(src, a.lines[c])
        /\ \A c \in DOMAIN b.lines : g[c] = SaidByLine(src, b.lines[c])
    BY Zenon
  <2>2. f = g
    BY <1>5, Zenon
  <2> HIDE DEF f, g
  <2>3. QED
    BY <2>1, <2>2, Zenon
<1>8. ASSUME NEW c \in DOMAIN a.lines
      PROVE  a.lines[c] = b.lines[c]
  <2>1. c \in 1..Len(a.lines) /\ c \in 1..Len(b.lines)
    BY <1>4, <1>7, Zenon
  <2>2. a.lines[c].function = 0 <=> b.lines[c].function = 0
    BY <1>2, <2>1, Zenon DEF RefersAs
  <2> DEFINE y == a.lines[c]
             z == b.lines[c]
  <2>3. /\ y \in Lines /\ z \in Lines
        /\ y.function \in 0..Len(src.functions) /\ z.function \in 0..Len(src.functions)
        /\ SaidByLine(src, y) = SaidByLine(src, z) /\ (y.function = 0 <=> z.function = 0)
    BY <1>3, <1>4, <1>7, <2>1, <2>2, Zenon
  <2> HIDE DEF y, z
  <2>4. y = z
    BY <2>3, LinesApart DEF Tidy
  <2>5. QED
    BY <2>4 DEF y, z
<1>9. a.lines = b.lines
  <2> DEFINE y == a.lines
             z == b.lines
  <2>1. y \in Seq(Lines) /\ z \in Seq(Lines) /\ DOMAIN y = DOMAIN z /\ \A c \in DOMAIN y : y[c] = z[c]
    BY <1>4, <1>7, <1>8, Zenon
  <2> HIDE DEF y, z
  <2>2. y = z
    BY <2>1
  <2>3. QED
    BY <2>2 DEF y, z
<1>10. LocationKey(src, a) = LocationKey(src, b)
  BY <1>5, <1>6, <1>9, Zenon DEF LocationKey
<1>11. QED
  BY <1>10, Zenon DEF Tidy, LocationsDiffer, a, b

(* So samples with one key in the merged profile have one in the source. *)
LEMMA SamplesApart ==
    ASSUME NEW t, NEW pm, Merger(t, pm), NEW src, Fits(src), Tidy(src), Faithful(src, pm), Apart(src, pm),
           NEW s, SampleFits(src, s), NEW r, SampleFits(src, r),
           NEW u, Copied(src, pm, s, u), NEW v, Copied(src, pm, r, v), KeyEqual(u, v)
    PROVE  KeyEqual(s, r)
<1>1. /\ "locations" \in DOMAIN s /\ s.locations \in Seq(1..Len(src.locations))
      /\ "locations" \in DOMAIN r /\ r.locations \in Seq(1..Len(src.locations))
  BY Zenon DEF SampleFits
<1>2. /\ DOMAIN u = DOMAIN s /\ (\A d \in DOMAIN s : d # "locations" => u[d] = s[d])
      /\ DOMAIN v = DOMAIN r /\ (\A d \in DOMAIN r : d # "locations" => v[d] = r[d])
      /\ DOMAIN u = DOMAIN v /\ (\A d \in DOMAIN u : d # "values" => u[d] = v[d])
  BY Zenon DEF Copied, KeyEqual
<1>3. u.locations = v.locations
  BY <1>1, <1>2, "locations" # "values", Zenon
<1>4. DOMAIN s.locations = DOMAIN r.locations
  <2>1. DOMAIN u.locations = DOMAIN s.locations
    BY ONLY Copied(src, pm, s, u), Zenon DEF Copied
  <2>2. DOMAIN v.locations = DOMAIN r.locations
    BY ONLY Copied(src, pm, r, v), Zenon DEF Copied
  <2>3. QED
    BY ONLY <1>3, <2>1, <2>2
<1>5. ASSUME NEW j \in DOMAIN s.locations PROVE s.locations[j] = r.locations[j]
  <2>1. s.locations[j] \in 1..Len(src.locations) /\ r.locations[j] \in 1..Len(src.locations)
    <3>1. \A q \in Seq(1..Len(src.locations)) : \A c \in DOMAIN q : q[c] \in 1..Len(src.locations)
      BY ONLY TRUE
    <3>2. QED
      BY <1>1, <1>4, <3>1, Zenon
  <2>2. /\ src.locations[s.locations[j]].id \in DOMAIN pm.locationsByID
        /\ src.locations[r.locations[j]].id \in DOMAIN pm.locationsByID
        /\ pm.locationsByID[src.locations[s.locations[j]].id] = pm.locationsByID[src.locations[r.locations[j]].id]
    <3>1. /\ src.locations[s.locations[j]].id \in DOMAIN pm.locationsByID
          /\ u.locations[j] = pm.locationsByID[src.locations[s.locations[j]].id]
      BY Zenon DEF Copied
    <3>2. /\ src.locations[r.locations[j]].id \in DOMAIN pm.locationsByID
          /\ v.locations[j] = pm.locationsByID[src.locations[r.locations[j]].id]
      BY <1>4, Zenon DEF Copied
    <3>3. u.locations[j] = v.locations[j]
      BY <1>3
    <3>4. QED
      BY <3>1, <3>2, <3>3
  <2>3. QED
    BY <2>1, <2>2, PlacesApart
<1>6. s.locations = r.locations
  <2> DEFINE y == s.locations
             z == r.locations
  <2>1. /\ y \in Seq(1..Len(src.locations)) /\ z \in Seq(1..Len(src.locations))
        /\ DOMAIN y = DOMAIN z /\ \A j \in DOMAIN y : y[j] = z[j]
    BY <1>1, <1>4, <1>5, Zenon
  <2> HIDE DEF y, z
  <2>2. y = z
    BY <2>1
  <2>3. QED
    BY <2>2 DEF y, z
<1>7. ASSUME NEW d \in DOMAIN s, d # "values" PROVE s[d] = r[d]
  <2>1. CASE d = "locations"
    BY <1>6, <2>1
  <2>2. CASE d # "locations"
    BY <1>2, <1>7, <2>2, Zenon
  <2>3. QED
    BY <2>1, <2>2
<1>8. QED
  BY <1>2, <1>7, Zenon DEF KeyEqual

(* A copy stays one as the merger adds to its tables. *)
LEMMA CopiedOn ==
    ASSUME NEW src, NEW pm, NEW new, EntriesStay(pm.locationsByID, new.locationsByID),
           NEW s, NEW u, Copied(src, pm, s, u)
    PROVE  Copied(src, new, s, u)
<1>1. \A id \in DOMAIN pm.locationsByID :
        id \in DOMAIN new.locationsByID /\ new.locationsByID[id] = pm.locationsByID[id]
  BY Zenon DEF EntriesStay
<1>2. ASSUME NEW j \in DOMAIN s.locations
      PROVE  /\ src.locations[s.locations[j]].id \in DOMAIN new.locationsByID
             /\ u.locations[j] = new.locationsByID[src.locations[s.locations[j]].id]
  <2>1. /\ src.locations[s.locations[j]].id \in DOMAIN pm.locationsByID
        /\ u.locations[j] = pm.locationsByID[src.locations[s.locations[j]].id]
    BY Zenon DEF Copied
  <2>2. QED
    BY <1>1, <2>1, Zenon
<1>3. QED
  BY <1>2, Zenon DEF Copied

(* Every merged sample is the copy of one of the first n samples of the source, *)
(* by induction over them; none of those is zero.                               *)
CopyOfNonZero(src, pm, n, x) ==
    \E g \in 1..n : Copied(src, pm, src.samples[g], x) /\ ~IsZeroSample(src.samples[g])
SamplesCopied(k, n, acc) ==
    /\ Sound(k.t, k.src, acc) /\ Apart(k.src, acc)
    /\ \A x \in 1..Len(acc.p.samples) : CopyOfNonZero(k.src, acc, n, acc.p.samples[x])
SamplesCopiedFold == INSTANCE FoldLaws WITH Op <- EachSample, Holds <- SamplesCopied

(* One more sample: no earlier one has its key, and so it is appended. *)
LEMMA SampleStaysApart ==
    ASSUME NEW k, Fits(k.src), k.src.types = k.t, k.t # <<>>, Tidy(k.src), SamplesDiffer(k.src),
           NEW n \in Nat, n + 1 \in 1..Len(k.src.samples), NEW acc, SamplesCopied(k, n, acc)
    PROVE  SamplesCopied(k, n + 1, EachSample(k.src, acc, k.src.samples[n + 1]))
<1> DEFINE t == k.t
           src == k.src
           s == src.samples[n + 1]
           after == EachSample(src, acc, s)
<1>0. /\ Sound(t, src, acc) /\ Apart(src, acc)
      /\ \A x \in 1..Len(acc.p.samples) : CopyOfNonZero(src, acc, n, acc.p.samples[x])
      /\ Fits(src) /\ src.types = t /\ t # <<>> /\ Tidy(src) /\ SamplesDiffer(src)
  BY Zenon DEF SamplesCopied
<1>1. SampleFits(src, s) /\ \A j \in 1..Len(src.samples) : SampleFits(src, src.samples[j])
  BY Zenon DEF Fits, SamplesFit
<1>2. /\ \A g \in 1..n : g \in 1..n+1 /\ g # n + 1
      /\ n + 1 \in 1..n+1
  BY ONLY n \in Nat
<1>3. \A g \in 1..n : g \in 1..Len(src.samples)
  <2> DEFINE m == Len(src.samples)
  <2>1. m \in Nat /\ n + 1 \in 1..m
    <3>1. src.samples \in Seq(ToSet(src.samples))
      BY <1>0, Zenon DEF Fits, SamplesFit
    <3>2. m \in Nat
      BY ONLY <3>1
    <3>3. QED
      BY <3>2, Zenon
  <2> HIDE DEF m
  <2>2. \A g \in 1..n : g \in 1..m
    BY <2>1
  <2>3. QED
    BY <2>2, Zenon DEF m
<1>4. \A pm, x : CopyOfNonZero(src, pm, n, x) => CopyOfNonZero(src, pm, n + 1, x)
  BY <1>2, Zenon DEF CopyOfNonZero
<1>5. CASE IsZeroSample(s)
  <2>1. after = acc
    BY <1>5, Zenon DEF EachSample
  <2> HIDE DEF after
  <2>2. SamplesCopied(k, n + 1, after)
    BY <1>0, <1>4, <2>1, Zenon DEF SamplesCopied
  <2>3. QED
    BY <2>2, Zenon DEF after
<1>6. CASE ~IsZeroSample(s)
  <2> DEFINE new == MapSample(acc, src, s)
  <2>1. after = new
    BY <1>6, Zenon DEF EachSample
  <2>2. Sound(t, src, new) /\ SampleMapped(t, src, acc, s, new)
    <3>1. 1 \in 1..Len(t)
      <4>1. t \in Seq(STRING)
        BY <1>0, Zenon DEF Fits, TypesFit
      <4>2. t # <<>>
        BY <1>0
      <4> HIDE DEF t
      <4>3. QED
        BY ONLY <4>1, <4>2
    <3>2. /\ t # <<>> /\ Fits(src) /\ src.types = t /\ Sound(t, src, acc) /\ SampleFits(src, s)
      BY <1>0, <1>1
    <3> HIDE DEF t, src, s
    <3>3. QED
      BY <3>1, <3>2, MapSampleSound
  <2> HIDE DEF new, after
  <2>3. PICK mid, u :
          /\ Merger(t, mid) /\ Adds(src, acc, mid) /\ Copied(src, mid, s, u) /\ TablesSame(mid, new)
          /\ \/ SampleAppended(mid.p, u, new.p)
             \/ \E j \in 1..Len(mid.p.samples) : SampleAddedTo(mid.p, u, new.p, j)
    BY <2>2, Zenon DEF SampleMapped
  <2>4. /\ mid.p.samples = acc.p.samples /\ Faithful(src, mid) /\ Apart(src, mid)
        /\ EntriesStay(acc.locationsByID, mid.locationsByID)
    BY <1>0, <2>3, Zenon DEF Adds
  <2>5. \A x \in 1..Len(mid.p.samples) : CopyOfNonZero(src, mid, n, mid.p.samples[x])
    <3>1. \A x : CopyOfNonZero(src, acc, n, x) => CopyOfNonZero(src, mid, n, x)
      BY <2>4, CopiedOn, Zenon DEF CopyOfNonZero
    <3>2. QED
      BY <1>0, <2>4, <3>1, Zenon
  <2>6. ASSUME NEW j \in 1..Len(mid.p.samples), SampleAddedTo(mid.p, u, new.p, j)
        PROVE  FALSE
    <3>1. KeyEqual(mid.p.samples[j], u)
      BY <2>6, Zenon DEF SampleAddedTo
    <3>2. PICK g \in 1..n : Copied(src, mid, src.samples[g], mid.p.samples[j])
      BY <2>5, Zenon DEF CopyOfNonZero
    <3>3. SampleFits(src, src.samples[g])
      BY <1>1, <1>3, Zenon
    <3>4. KeyEqual(src.samples[g], s)
      <4> DEFINE r == src.samples[g]
                 v == mid.p.samples[j]
      <4>1. /\ Merger(t, mid) /\ Fits(src) /\ Tidy(src) /\ Faithful(src, mid) /\ Apart(src, mid)
            /\ SampleFits(src, r) /\ SampleFits(src, s)
            /\ Copied(src, mid, r, v) /\ Copied(src, mid, s, u) /\ KeyEqual(v, u)
        BY <1>0, <1>1, <2>3, <2>4, <3>1, <3>2, <3>3, Zenon
      <4> HIDE DEF r, v, s, src, t
      <4>2. KeyEqual(r, s)
        BY <4>1, SamplesApart
      <4>3. QED
        BY <4>2, Zenon DEF r
    <3>5. g = n + 1
      BY <1>0, <1>3, <3>4, Zenon DEF SamplesDiffer
    <3>6. QED
      BY <1>2, <3>5, Zenon
  <2>7. SampleAppended(mid.p, u, new.p)
    BY <2>3, <2>6, Zenon
  <2>8. \A x : CopyOfNonZero(src, mid, n + 1, x) => CopyOfNonZero(src, new, n + 1, x)
    <3>1. new.locationsByID = mid.locationsByID
      BY <2>3, Zenon DEF TablesSame
    <3>2. \A r, x : Copied(src, mid, r, x) => Copied(src, new, r, x)
      BY <3>1, Zenon DEF Copied
    <3>3. QED
      BY <3>2, Zenon DEF CopyOfNonZero
  <2>9. ASSUME NEW x \in 1..Len(new.p.samples) PROVE CopyOfNonZero(src, new, n + 1, new.p.samples[x])
    <3> DEFINE m == Len(mid.p.samples)
    <3>1. /\ m \in Nat /\ Len(new.p.samples) = m + 1 /\ new.p.samples[m + 1] = u
          /\ \A j \in 1..m : new.p.samples[j] = mid.p.samples[j]
      BY <2>7, Zenon DEF SampleAppended
    <3>2. x \in 1..m \/ x = m + 1
      <4> HIDE DEF m
      <4>1. QED
        BY <2>9, <3>1
    <3>3. CASE x \in 1..m
      BY <1>4, <2>5, <2>8, <3>1, <3>3, Zenon
    <3>4. CASE x = m + 1
      <4>1. CopyOfNonZero(src, mid, n + 1, u)
        BY <1>2, <1>6, <2>3, Zenon DEF CopyOfNonZero
      <4>2. QED
        BY <2>8, <3>1, <3>4, <4>1, Zenon
    <3>5. QED
      BY <3>2, <3>3, <3>4
  <2>10. Apart(src, new)
    BY <2>3, <2>4, ApartOn, Zenon DEF TablesSame
  <2>11. SamplesCopied(k, n + 1, after)
    BY <2>1, <2>2, <2>9, <2>10, Zenon DEF SamplesCopied
  <2>12. QED
    BY <2>11, Zenon DEF after
<1>7. QED
  BY <1>5, <1>6

(* With the main binary the merger holds a copy of it, or nothing at all. *)
LEMMA BaseApart ==
    ASSUME NEW t, NEW p, Fits(p), MappingsDiffer(p),
           NEW pm, Merger(t, pm), Tidy(pm.p), pm.p.mappings = <<>>
    PROVE  Apart(p, WithMainBinary(WithFreshTables(pm), <<p>>, p))
<1> DEFINE fresh == WithFreshTables(pm)
           one == <<p>>
           base == WithMainBinary(fresh, one, p)
<1>1. Merger(t, fresh) /\ fresh.p = pm.p /\ Faithful(p, fresh) /\ DOMAIN fresh.mappingsByID = {}
  BY FreshFaithful
<1>2. DOMAIN fresh.locationsByID = {}
  BY DEF WithFreshTables, NoIDs, Merger
<1>3. one[1] = p
  OBVIOUS
<1> HIDE DEF fresh, one
<1>4. base = fresh \/ (p.mappings # <<>> /\ base = MapMapping(fresh, p.mappings[1]))
  BY <1>3, Zenon DEF WithMainBinary
<1> HIDE DEF base
<1>5. Apart(p, fresh)
  <2>1. \A x : x \notin 1..Len(fresh.p.mappings)
    <3>1. Len(fresh.p.mappings) = 0
      BY <1>1
    <3>2. QED
      BY <3>1
  <2>2. MappingsCopied(p, fresh)
    BY <2>1, Zenon DEF MappingsCopied
  <2>3. OwnMappings(p, fresh)
    BY <1>1, Zenon DEF OwnMappings
  <2>4. LocationsRefer(p, fresh)
    BY <1>2, Zenon DEF LocationsRefer
  <2>5. QED
    BY <2>2, <2>3, <2>4, Zenon DEF Apart
<1>6. ASSUME p.mappings # <<>>, base = MapMapping(fresh, p.mappings[1]) PROVE Apart(p, base)
  <2>1. 1 \in 1..Len(p.mappings)
    <3>1. p.mappings \in Seq(Mappings)
      BY Zenon DEF Fits, TablesFit
    <3>2. QED
      BY <1>6, <3>1
  <2>2. Tidy(fresh.p)
    BY <1>1
  <2>3. MappingAdded(p, fresh, p.mappings[1], base)
    BY <1>1, <1>6, <2>1, <2>2, MapMappingAdds
  <2>4. QED
    BY <1>5, <2>3, Zenon DEF MappingAdded, Adds
<1>7. Apart(p, base)
  BY <1>4, <1>5, <1>6
<1>8. QED
  BY <1>7 DEF base, one, fresh

(* A merge of one source has that one in its only step. *)
OneMerged(k, n, acc) ==
    \/ n = 0 /\ acc = NewMerger(k)
    \/ n = 1 /\ acc = MergeSource(NewMerger(k), k, k[1])
OneMergedFold == INSTANCE FoldLaws WITH Op <- EachSource, Holds <- OneMerged

(* MergeOnce is that fold. *)
LEMMA MergeOnceOfOne ==
    ASSUME NEW p
    PROVE  MergeOnce(<<p>>) = MergeSource(NewMerger(<<p>>), <<p>>, p).p
<1> DEFINE k == <<p>>
           new == OneMergedFold!Fold(k, NewMerger(k), k)
<1>1. MergeOnce(k) = new.p
  BY Zenon DEF MergeOnce, EachSource, OneMergedFold!Fold, FoldLeft, MapThenFoldSet,
     OneMergedFold!MapThenFoldSet, OneMergedFold!Largest, Max
<1>2. DOMAIN k = 1..1 /\ k[1] = p
  OBVIOUS
<1> HIDE DEF k
<1>3. OneMerged(k, 0, NewMerger(k))
  BY DEF OneMerged
<1>4. ASSUME NEW i \in 1..1, NEW acc, OneMerged(k, i - 1, acc) PROVE OneMerged(k, i, EachSource(k, acc, k[i]))
  <2>1. i = 1 /\ i - 1 = 0
    OBVIOUS
  <2>2. acc = NewMerger(k)
    BY <1>4, <2>1 DEF OneMerged
  <2>3. EachSource(k, acc, k[i]) = MergeSource(NewMerger(k), k, k[1])
    BY <2>1, <2>2 DEF EachSource
  <2>4. QED
    BY <2>1, <2>3, Zenon DEF OneMerged
<1>5. OneMerged(k, 1, new)
  BY <1>2, <1>3, <1>4, OneMergedFold!FoldInduction
<1> HIDE DEF new
<1>6. new = MergeSource(NewMerger(k), k, k[1])
  BY <1>5 DEF OneMerged
<1>7. MergeOnce(k) = MergeSource(NewMerger(k), k, p).p
  BY <1>1, <1>2, <1>6
<1>8. QED
  BY <1>7 DEF k

(* The samples of a merged source are such a fold. *)
LEMMA MergeSourceCopiesSamples ==
    ASSUME NEW pm, NEW srcs, NEW src
    PROVE  MergeSource(pm, srcs, src) =
              SamplesCopiedFold!Fold(src, WithMainBinary(WithFreshTables(pm), srcs, src), src.samples)
BY Zenon DEF MergeSource, EachSample, SamplesCopiedFold!Fold, FoldLeft, MapThenFoldSet,
   SamplesCopiedFold!MapThenFoldSet, SamplesCopiedFold!Largest, Max

(* A pass over one tidy source has no zero sample left: it adds none up, and *)
(* leaves out those that are zero.                                           *)
LEMMA SecondPassIsLast ==
    ASSUME NEW t, NEW p, Fits(p), p.types = t, MainBinaryNamed(p), Tidy(p), SamplesDiffer(p)
    PROVE  \A x \in 1..Len(MergeOnce(<<p>>).samples) : ~IsZeroSample(MergeOnce(<<p>>).samples[x])
<1> DEFINE one == <<p>>
           pm == NewMerger(one)
           base == WithMainBinary(WithFreshTables(pm), one, p)
           k == [t |-> t, src |-> p]
           new == SamplesCopiedFold!Fold(p, base, p.samples)
<1>1. MergeOnce(one) = new.p
  BY MergeOnceOfOne, MergeSourceCopiesSamples
<1>2. Mergeable(t, one) /\ one[1] = p /\ 1 \in 1..Len(one) /\ Len(one) = 1
  BY DEF Mergeable
<1>3. k.t = t /\ k.src = p
  OBVIOUS
<1> HIDE DEF one, k
<1>4. Between(t, one, 0, pm)
  BY <1>2, NewMergerSound
<1> HIDE DEF pm
<1>5. Sound(t, p, base) /\ base.p.samples = pm.p.samples
  <2>1. MainBinaryNamed(one[1]) /\ Between(t, one, 1 - 1, pm)
    BY <1>2, <1>4
  <2>2. LET b == WithMainBinary(WithFreshTables(pm), one, one[1])
        IN Sound(t, one[1], b) /\ Grows(pm.p, b.p) /\ b.p.samples = pm.p.samples
    BY <1>2, <2>1, BaseSound
  <2>3. QED
    BY <1>2, <2>2
<1>6. pm.p.mappings = <<>> /\ Merger(t, pm) /\ Tidy(pm.p)
  BY <1>4 DEF Between
<1>7. Apart(p, base)
  BY <1>6, BaseApart DEF Tidy, one
<1>8. Len(base.p.samples) = 0
  <2>1. pm.p.samples = <<>>
    <3>1. TypesFit(one[1])
      BY <1>2 DEF Fits
    <3>2. QED
      BY <3>1, Zenon DEF pm, NewMerger, CombineHeaders, TypesFit
  <2>2. QED
    BY <1>5, <2>1
<1> HIDE DEF base
<1>9. SamplesCopied(k, 0, base)
  <2>1. \A x : x \notin 1..Len(base.p.samples)
    BY <1>8
  <2>2. QED
    BY <1>3, <1>5, <1>7, <2>1, Zenon DEF SamplesCopied
<1>10. /\ DOMAIN p.samples = 1..Len(p.samples) /\ Len(p.samples) \in Nat
       /\ (t = <<>> => Len(p.samples) = 0)
  BY DEF Fits, SamplesFit
<1>11. ASSUME NEW j \in 1..Len(p.samples), NEW acc, SamplesCopied(k, j - 1, acc)
       PROVE  SamplesCopied(k, j, EachSample(p, acc, p.samples[j]))
  <2> DEFINE n == j - 1
  <2>1. n \in Nat /\ n + 1 = j /\ t # <<>>
    BY <1>10
  <2>2. /\ Fits(k.src) /\ k.src.types = k.t /\ k.t # <<>> /\ Tidy(k.src) /\ SamplesDiffer(k.src)
        /\ n + 1 \in 1..Len(k.src.samples) /\ SamplesCopied(k, n, acc)
    BY <1>3, <1>11, <2>1
  <2> HIDE DEF n
  <2>3. SamplesCopied(k, n + 1, EachSample(k.src, acc, k.src.samples[n + 1]))
    BY <2>1, <2>2, SampleStaysApart
  <2>4. QED
    BY <1>3, <2>1, <2>3
<1>12. SamplesCopied(k, Len(p.samples), new)
  BY <1>9, <1>10, <1>11, SamplesCopiedFold!FoldInduction
<1> HIDE DEF new
<1>13. ASSUME NEW x \in 1..Len(new.p.samples) PROVE ~IsZeroSample(new.p.samples[x])
  <2>1. PICK g \in 1..Len(p.samples) : Copied(p, new, p.samples[g], new.p.samples[x]) /\ ~IsZeroSample(p.samples[g])
    BY <1>3, <1>12, Zenon DEF SamplesCopied, CopyOfNonZero
  <2>2. "values" \in DOMAIN p.samples[g] /\ "values" # "locations"
    BY DEF Fits, SamplesFit, SampleFits
  <2>3. new.p.samples[x].values = p.samples[g].values
    BY <2>1, <2>2, Zenon DEF Copied
  <2>4. QED
    BY <2>1, <2>3, Zenon DEF IsZeroSample
<1>14. QED
  BY <1>1, <1>13, Zenon DEF one

(* A combined profile without zero samples is compact. *)
LEMMA CombinedIsCompact ==
    ASSUME NEW t, NEW srcs, NEW p, Combined(t, srcs, p),
           \A x \in 1..Len(p.samples) : ~IsZeroSample(p.samples[x])
    PROVE  IsCompact(p)
<1> DEFINE lines == UNION {ToSet(l.lines) : l \in ToSet(p.locations)}
<1>1. /\ Fits(p) /\ FunctionsDiffer(p) /\ LocationsDiffer(p) /\ SamplesDiffer(p)
      /\ EntriesUsed(p) /\ LocationsUsed(p)
  BY DEF Combined, Tidy
<1>2. /\ DOMAIN p.samples = 1..Len(p.samples) /\ DOMAIN p.locations = 1..Len(p.locations)
      /\ DOMAIN p.functions = 1..Len(p.functions) /\ DOMAIN p.mappings = 1..Len(p.mappings)
  <2>1. /\ p.samples \in Seq(ToSet(p.samples)) /\ p.locations \in Seq(Locations)
        /\ p.functions \in Seq(Functions) /\ p.mappings \in Seq(Mappings)
    BY <1>1, Zenon DEF Fits, TablesFit, SamplesFit
  <2>2. \A S : \A q \in Seq(S) : DOMAIN q = 1..Len(q)
    BY ONLY TRUE
  <2>3. QED
    BY <2>1, <2>2, Zenon
<1>3. \A i \in 1..Len(p.samples) : SampleFits(p, p.samples[i])
  BY <1>1, Zenon DEF Fits, SamplesFit
<1>4. \A i \in 1..Len(p.locations) : LocationFits(p, p.locations[i])
  BY <1>1, Zenon DEF Fits, TablesFit
<1>5. \A i \in 1..Len(p.samples) : DOMAIN p.samples[i].locations = 1..Len(p.samples[i].locations)
  <2>1. \A q \in Seq(1..Len(p.locations)) : DOMAIN q = 1..Len(q)
    BY ONLY TRUE
  <2>2. QED
    BY <1>3, <2>1, Zenon DEF SampleFits
<1>6. \A i \in 1..Len(p.locations) : DOMAIN p.locations[i].lines = 1..Len(p.locations[i].lines)
  <2>1. \A l \in Locations : DOMAIN l.lines = 1..Len(l.lines)
    BY ONLY TRUE DEF Locations
  <2>2. QED
    BY <1>4, <2>1, Zenon DEF LocationFits
<1>7. \A s \in ToSet(p.samples) : ~IsZeroSample(s)
  BY <1>2, Zenon DEF ToSet
<1>8. \A i, j \in DOMAIN p.samples : SameKey(p.samples[i], p.samples[j]) => i = j
  BY <1>1, <1>2, SameKeyIsEqual, Zenon DEF SamplesDiffer
<1>9. \A i, j \in DOMAIN p.locations :
        LocationKey(p, p.locations[i]) = LocationKey(p, p.locations[j]) => i = j
  BY <1>1, <1>2, Zenon DEF LocationsDiffer
<1>10. \A i, j \in DOMAIN p.functions :
        p.functions[i].name = p.functions[j].name /\ p.functions[i].file = p.functions[j].file => i = j
  BY <1>1, <1>2, Zenon DEF FunctionsDiffer
<1>11. UNION {ToSet(s.locations) : s \in ToSet(p.samples)} = DOMAIN p.locations
  <2> DEFINE used == UNION {ToSet(s.locations) : s \in ToSet(p.samples)}
  <2>1. ASSUME NEW x \in used PROVE x \in DOMAIN p.locations
    <3>1. PICK i \in DOMAIN p.samples : x \in ToSet(p.samples[i].locations)
      <4>1. PICK s \in ToSet(p.samples) : x \in ToSet(s.locations)
        BY <2>1, Zenon
      <4>2. PICK i \in DOMAIN p.samples : s = p.samples[i]
        BY ONLY <4>1, Zenon DEF ToSet
      <4>3. QED
        BY <4>1, <4>2, Zenon
    <3>2. PICK j \in DOMAIN p.samples[i].locations : x = p.samples[i].locations[j]
      BY <3>1, Zenon DEF ToSet
    <3>3. p.samples[i].locations \in Seq(1..Len(p.locations))
      BY <1>2, <1>3, Zenon DEF SampleFits
    <3>4. \A q \in Seq(1..Len(p.locations)) : \A c \in DOMAIN q : q[c] \in 1..Len(p.locations)
      BY ONLY TRUE
    <3>5. QED
      BY <1>2, <3>2, <3>3, <3>4, Zenon
  <2>2. ASSUME NEW x \in DOMAIN p.locations PROVE x \in used
    <3>1. PICK i \in 1..Len(p.samples) : \E j \in 1..Len(p.samples[i].locations) : p.samples[i].locations[j] = x
      BY <1>1, <1>2, Zenon DEF LocationsUsed, LocationUsed
    <3>2. x \in ToSet(p.samples[i].locations) /\ p.samples[i] \in ToSet(p.samples)
      BY <1>2, <1>5, <3>1, Zenon DEF ToSet
    <3>3. QED
      BY <3>2, Zenon
  <2>3. QED
    BY <2>1, <2>2, Zenon
<1>12. {ln.function : ln \in lines} \ {Nil} = DOMAIN p.functions
  <2>1. ASSUME NEW x \in {ln.function : ln \in lines} \ {Nil} PROVE x \in DOMAIN p.functions
    <3>1. PICK ln \in lines : x = ln.function /\ x # Nil
      BY <2>1, Zenon
    <3>2. PICK l \in ToSet(p.locations) : ln \in ToSet(l.lines)
      BY <3>1, Zenon
    <3>3. PICK i \in 1..Len(p.locations) : l = p.locations[i]
      BY <1>2, <3>2, Zenon DEF ToSet
    <3>4. PICK j \in 1..Len(p.locations[i].lines) : ln = p.locations[i].lines[j]
      BY <1>6, <3>2, <3>3, Zenon DEF ToSet
    <3>5. x \in 0..Len(p.functions)
      BY <1>4, <3>1, <3>4, Zenon DEF LocationFits
    <3> DEFINE n == Len(p.functions)
    <3>6. x \in 0..n /\ x # 0
      BY <3>1, <3>5, Zenon DEF Nil
    <3> HIDE DEF n
    <3>7. x \in 1..n
      BY ONLY <3>6
    <3>8. QED
      BY <1>2, <3>7, Zenon DEF n
  <2>2. ASSUME NEW x \in DOMAIN p.functions PROVE x \in {ln.function : ln \in lines} \ {Nil}
    <3>1. PICK i \in 1..Len(p.locations) : \E j \in 1..Len(p.locations[i].lines) : p.locations[i].lines[j].function = x
      BY <1>1, <1>2, <2>2, Zenon DEF EntriesUsed, FunctionUsed
    <3>2. PICK j \in 1..Len(p.locations[i].lines) : p.locations[i].lines[j].function = x
      BY <3>1
    <3>3. p.locations[i].lines[j] \in ToSet(p.locations[i].lines) /\ p.locations[i] \in ToSet(p.locations)
      BY <1>2, <1>6, Zenon DEF ToSet
    <3>4. p.locations[i].lines[j] \in lines
      BY <3>3, Zenon
    <3>5. x # Nil
      BY <1>2, <2>2 DEF Nil
    <3> HIDE DEF lines
    <3>6. QED
      BY <3>2, <3>4, <3>5, Zenon
  <2> HIDE DEF lines
  <2>3. QED
    BY <2>1, <2>2, Zenon
<1>13. DOMAIN p.mappings \subseteq {1} \cup {l.mapping : l \in ToSet(p.locations)}
  <2>1. ASSUME NEW x \in DOMAIN p.mappings, x # 1 PROVE x \in {l.mapping : l \in ToSet(p.locations)}
    <3>1. PICK i \in 1..Len(p.locations) : p.locations[i].mapping = x
      BY <1>1, <1>2, <2>1, Zenon DEF EntriesUsed, MappingUsed
    <3>2. p.locations[i] \in ToSet(p.locations)
      BY <1>2, Zenon DEF ToSet
    <3>3. QED
      BY <3>1, <3>2, Zenon
  <2>2. QED
    BY <2>1, Zenon
<1>14. QED
  BY <1>7, <1>8, <1>9, <1>10, <1>11, <1>12, <1>13, Zenon DEF IsCompact

(* So is what Merge makes: a second pass over a profile with zero samples *)
(* leaves none.                                                           *)
LEMMA MergeIsCompact ==
    ASSUME NEW t, NEW srcs, Mergeable(t, srcs), MainBinaryNamed(srcs[1])
    PROVE  IsCompact(Merge(srcs))
<1> DEFINE p == MergeOnce(srcs)
           one == <<p>>
           again == MergeOnce(one)
<1>1. Combined(t, srcs, p)
  BY MergeOnceCombines
<1>2. Merge(srcs) = IF \E s \in ToSet(p.samples) : IsZeroSample(s) THEN again ELSE p
  BY DEF Merge, WithoutZeroSamples
<1> HIDE DEF p
<1>3. /\ Fits(p) /\ p.types = t /\ MainBinaryNamed(p) /\ Tidy(p) /\ SamplesDiffer(p)
      /\ DOMAIN p.samples = 1..Len(p.samples)
  <2>1. Fits(p) /\ p.types = t /\ MainBinaryNamed(p) /\ Tidy(p) /\ SamplesDiffer(p)
    BY <1>1, Zenon DEF Combined
  <2>2. QED
    BY <2>1 DEF Fits, SamplesFit
<1>4. CASE \E s \in ToSet(p.samples) : IsZeroSample(s)
  <2>1. Mergeable(t, one) /\ MainBinaryNamed(one[1])
    BY <1>3 DEF Mergeable
  <2>2. \A x \in 1..Len(again.samples) : ~IsZeroSample(again.samples[x])
    BY <1>3, SecondPassIsLast
  <2> HIDE DEF one
  <2>3. Combined(t, one, again)
    BY <2>1, MergeOnceCombines
  <2> HIDE DEF again
  <2>4. IsCompact(again)
    BY <2>2, <2>3, CombinedIsCompact
  <2>5. QED
    BY <1>2, <1>4, <2>4, Zenon
<1>5. CASE ~(\E s \in ToSet(p.samples) : IsZeroSample(s))
  <2>1. \A x \in 1..Len(p.samples) : ~IsZeroSample(p.samples[x])
    BY <1>3, <1>5, Zenon DEF ToSet
  <2>2. IsCompact(p)
    BY <1>1, <2>1, CombinedIsCompact
  <2>3. QED
    BY <1>2, <1>5, <2>2, Zenon
<1>6. QED
  BY <1>4, <1>5

(* What Merge and Compact make is compact, if the first mapping of the first *)
(* profile has a name.                                                       *)
THEOREM MergedStaysCompact == OperationsSpec => MergedIsCompact
<1>1. ASSUME OperationsInv, [OperationsNext]_operationVars
      PROVE  [last'[1] \in {"merge", "compact"} /\ status' = "open" /\ MainBinaryNamed(profile) =>
                 IsCompact(profile')]_operationVars
  <2> SUFFICES ASSUME OperationsNext, last'[1] \in {"merge", "compact"}, status' = "open", MainBinaryNamed(profile)
               PROVE  IsCompact(profile')
    BY <1>1
  <2>1. ~(\E w \in Sources : ParseProfile(w))
    BY DEF ParseProfile, Read
  <2>2. Ready /\ Operation
    BY <2>1 DEF OperationsNext
  <2>3. Fits(profile)
    BY <1>1, <2>2, OpenFits DEF Ready
  <2>4. CASE last'[1] = "merge"
    <3>1. PICK w \in Sources :
            LET other == Results[w].profile
            IN /\ Fits(other) /\ profile.types = other.types
               /\ ~MergePanics(<<profile, other>>)
               /\ profile' = Merge(<<profile, other>>) /\ last' = <<"merge", w>>
      BY <2>2, <2>4, MergeNamed
    <3> DEFINE srcs == <<profile, Results[w].profile>>
    <3>2. profile' = Merge(srcs) /\ Mergeable(profile.types, srcs) /\ srcs[1] = profile
      BY <2>3, <3>1, TwoAreMergeable
    <3> HIDE DEF srcs
    <3>3. IsCompact(Merge(srcs))
      BY <3>2, MergeIsCompact
    <3>4. QED
      BY <3>2, <3>3
  <2>5. CASE last'[1] = "compact"
    <3>1. CompactProfile
      BY <2>2, <2>5, OperationNamed
    <3> DEFINE one == <<profile>>
    <3>2. profile' = Merge(one)
      BY <3>1, Zenon DEF CompactProfile, Becomes, Compact
    <3>3. Mergeable(profile.types, one) /\ one[1] = profile
      BY <2>3 DEF Mergeable
    <3> HIDE DEF one
    <3>4. IsCompact(Merge(one))
      BY <3>3, MergeIsCompact
    <3>5. QED
      BY <3>2, <3>4
  <2>6. QED
    BY <2>4, <2>5
<1>2. QED
  BY <1>1, OperationsInvariant, PTL DEF OperationsSpec, MergedIsCompact
================================================================================
