---------------------------- MODULE ProfileFilter ------------------------------
(* internal/pprof/profile/prune.go and filter.go. A regular expression is the  *)
(* set of the names and files it matches; NoRegexp is a nil one.               *)
EXTENDS Profile

CONSTANTS
    Simplified,     \* name -> the name without a leading dot and from "(" on
    NoRegexp

(* The simplified names of the frames of a location that have one, by line. *)
FrameName(p, ln) ==
    IF ln.function = Nil THEN "" ELSE p.functions[ln.function].name
Drops(p, ln, drop, keep) ==
    /\ FrameName(p, ln) # ""
    /\ LET name == Simplified[FrameName(p, ln)]
       IN name \in drop /\ (keep = NoRegexp \/ name \notin keep)

(* Prune: a location is cut above its outermost dropped line, or is pruned     *)
(* when that is its last.                                                      *)
OutermostDropped(p, l, drop, keep) ==
    SelectLastInSeq(l.lines, LAMBDA ln : Drops(p, ln, drop, keep))
PrunedLines(p, l, drop, keep) ==
    LET i == OutermostDropped(p, l, drop, keep)
    IN IF i = Len(l.lines) THEN l.lines ELSE SubSeq(l.lines, i + 1, Len(l.lines))

(* Mutant: the scan goes on to the innermost location. *)
PrunedInnermost(p, stack, drop, keep) ==
    LET Beneath(i) == OutermostDropped(p, p.locations[stack[i]], drop, keep) # 0
        cuts == {i \in DOMAIN stack : Beneath(i) /\ \E j \in i+1..Len(stack) : ~Beneath(j)}
    IN IF cuts = {} THEN stack ELSE SubSeq(stack, Min(cuts) + 1, Len(stack))

(* A stack is scanned from its root: the first location to prune at or beneath *)
(* that has a frame to keep above it.                                          *)
PrunedStack(p, stack, drop, keep) ==
    LET Beneath(i) == OutermostDropped(p, p.locations[stack[i]], drop, keep) # 0
        Whole(i) == Beneath(i)
            /\ OutermostDropped(p, p.locations[stack[i]], drop, keep) = Len(p.locations[stack[i]].lines)
        cuts == {i \in DOMAIN stack : Beneath(i) /\ \E j \in i+1..Len(stack) : ~Beneath(j)}
    IN IF cuts = {} THEN stack
       ELSE SubSeq(stack, IF Whole(Max(cuts)) THEN Max(cuts) + 1 ELSE Max(cuts), Len(stack))
PrunedLocation(p, l, drop, keep) == [l EXCEPT !.lines = PrunedLines(p, l, drop, keep)]
PrunedSample(p, s, drop, keep) == [s EXCEPT !.locations = PrunedStack(p, @, drop, keep)]
Prune(p, drop, keep) ==
    [p EXCEPT
        !.locations = [i \in DOMAIN @ |-> PrunedLocation(p, @[i], drop, keep)],
        !.samples = [i \in DOMAIN @ |-> PrunedSample(p, @[i], drop, keep)]]

(* RemoveUninteresting, with the expressions the profile carries. *)
RemoveUninteresting(p) ==
    IF p.drop = {} THEN p
    ELSE Prune(p, p.drop, IF p.keep = {} THEN NoRegexp ELSE p.keep)

(* PruneFrom: everything beneath the innermost dropped frame goes. *)
FirstDropped(p, l, drop) == SelectInSeq(l.lines, LAMBDA ln : Drops(p, ln, drop, NoRegexp))
PrunedFrom(p, l, drop) ==
    LET i == FirstDropped(p, l, drop)
    IN [l EXCEPT !.lines = IF i = 0 THEN @ ELSE SubSeq(@, i, Len(@))]
SampleFrom(p, s, drop) ==
    LET i == SelectInSeq(s.locations, LAMBDA l : FirstDropped(p, p.locations[l], drop) # 0)
    IN [s EXCEPT !.locations = IF i = 0 THEN @ ELSE SubSeq(@, i, Len(@))]
PruneFrom(p, drop) ==
    [p EXCEPT
        !.locations = [i \in DOMAIN @ |-> PrunedFrom(p, @[i], drop)],
        !.samples = [i \in DOMAIN @ |-> SampleFrom(p, @[i], drop)]]

--------------------------------------------------------------------------------

(* The elements of a sequence that are in a set, in their order. *)
Among(seq, S) == FoldLeft(LAMBDA kept, x : IF x \in S THEN Append(kept, x) ELSE kept, <<>>, seq)

Matches(p, ln, regexp) ==
    /\ ln.function # Nil
    /\ {p.functions[ln.function].name, p.functions[ln.function].file} \cap regexp # {}
FileMatches(p, l, regexp) == l.mapping # Nil /\ p.mappings[l.mapping].file \in regexp
MatchesName(p, l, regexp) ==
    \/ \E ln \in ToSet(l.lines) : Matches(p, ln, regexp)
    \/ FileMatches(p, l, regexp)

(* What hide and then show leave of a location's lines. *)
UnmatchedLines(p, l, hide) ==
    IF FileMatches(p, l, hide) THEN <<>>
    ELSE Among(l.lines, {ln \in ToSet(l.lines) : ~Matches(p, ln, hide)})
MatchedLines(p, lines, show) ==
    Among(lines, {ln \in ToSet(lines) : ln.function = Nil \/ Matches(p, ln, show)})
Hides(p, l, hide) == hide # NoRegexp /\ MatchesName(p, l, hide)
Unhidden(p, l, hide) == IF Hides(p, l, hide) THEN UnmatchedLines(p, l, hide) ELSE l.lines
ShownLines(p, l, hide, show) ==
    IF show = NoRegexp THEN Unhidden(p, l, hide)
    ELSE MatchedLines(p, Unhidden(p, l, hide), show)

(* Mutant: a location without lines stays in the samples. *)
HiddenByHide(p, l, hide, show) == show # NoRegexp /\ ShownLines(p, l, hide, show) = <<>>

(* A location goes when a filter that looked at it left it without lines. *)
Hidden(p, l, hide, show) ==
    \/ Hides(p, l, hide) /\ Unhidden(p, l, hide) = <<>>
    \/ show # NoRegexp /\ ShownLines(p, l, hide, show) = <<>>

(* focusedAndNotIgnored, on the names the locations had before. *)
Ignored(p, l, ignore) == ignore # NoRegexp /\ MatchesName(p, l, ignore)
Focused(p, l, focus) == focus = NoRegexp \/ MatchesName(p, l, focus)
FocusedAndNotIgnored(p, s, focus, ignore) ==
    /\ \A l \in ToSet(s.locations) : ~Ignored(p, p.locations[l], ignore)
    /\ \E l \in ToSet(s.locations) : Focused(p, p.locations[l], focus)

(* FilterSamplesByName; a sample whose locations are all hidden goes too, one  *)
(* without locations is not focused.                                           *)
ShownLocation(p, l, hide, show) == [l EXCEPT !.lines = ShownLines(p, l, hide, show)]
ShownSample(s, visible) == [s EXCEPT !.locations = Among(@, visible)]
FilterSamplesByName(p, focus, ignore, hide, show) ==
    LET visible == {l \in DOMAIN p.locations : ~Hidden(p, p.locations[l], hide, show)}
        focused == Among(p.samples, {s \in ToSet(p.samples) :
            /\ FocusedAndNotIgnored(p, s, focus, ignore)
            /\ ToSet(s.locations) \cap visible # {}})
    IN [p EXCEPT
            !.samples = [i \in DOMAIN focused |-> ShownSample(focused[i], visible)],
            !.locations = [i \in DOMAIN @ |-> ShownLocation(p, @[i], hide, show)]]

(* FilterTagsByName *)
KeptTags(labels, show, hide) ==
    Restrict(labels, {k \in DOMAIN labels : (show = NoRegexp \/ k \in show)
                                           /\ ~(hide # NoRegexp /\ k \in hide)})
TaggedSample(s, show, hide) ==
    [s EXCEPT !.labels = KeptTags(@, show, hide), !.numLabels = KeptTags(@, show, hide)]
FilterTagsByName(p, show, hide) ==
    [p EXCEPT !.samples = [i \in DOMAIN @ |-> TaggedSample(@[i], show, hide)]]

(* FilterSamplesByTag; a TagMatch that looks for a key. *)
FilterSamplesByTag(p, focus, ignore) ==
    LET Tagged(s, key) == key \in DOMAIN s.labels \cup DOMAIN s.numLabels
    IN [p EXCEPT !.samples = Among(@, {s \in ToSet(@) :
            /\ focus = NoRegexp \/ Tagged(s, focus)
            /\ ~(ignore # NoRegexp /\ Tagged(s, ignore))})]
================================================================================
