------------------------------- MODULE Robots -------------------------------
(***************************************************************************)
(* The decision of the fetch and search tools whether robots.txt lets them *)
(* read a path (internal/tools/robots.go), as pure operators.              *)
(*                                                                         *)
(* A robots.txt is a sequence of lines [directive, value].  The value of a *)
(* user-agent line is "ours" (a prefix of the bot's name), "*" or another  *)
(* name; the value of a rule is a pattern [chars, anchored], a sequence of *)
(* characters in which "*" is a wildcard, and whether a "$" ends it.       *)
(* Comments and blank lines are gone; a line without a colon, or with      *)
(* another directive, has the directive "none".                            *)
(***************************************************************************)
EXTENDS Integers, Sequences, SequencesExt

EmptyPattern == [chars |-> <<>>, anchored |-> FALSE]

PatternLen(p) == Len(p.chars) + IF p.anchored THEN 1 ELSE 0

-----------------------------------------------------------------------------
NoRules == [allow |-> <<>>, disallow |-> <<>>]

NothingParsed ==
  [group |-> "none", foundOurs |-> FALSE, ours |-> NoRules, wild |-> NoRules]

\* Mutant: another robot's user-agent line does not close the open group.
ParseLineOpen(acc, line) ==
  CASE line.directive = "user-agent" ->
         CASE line.value = "*" -> [acc EXCEPT !.group = "wild"]
           [] line.value = "ours" ->
                [acc EXCEPT !.group = "ours", !.foundOurs = TRUE]
           [] OTHER -> acc
    [] line.directive \in {"allow", "disallow"} /\ line.value # EmptyPattern
       /\ acc.group \in {"ours", "wild"} ->
         [acc EXCEPT ![acc.group][line.directive] = Append(@, line.value)]
    [] OTHER -> acc

\* One line of parseRobotsTxt: a user-agent line opens a group, a rule is
\* added to the open group if it is ours or everybody's.
ParseLine(acc, line) ==
  CASE line.directive = "user-agent" ->
         CASE line.value = "*" -> [acc EXCEPT !.group = "wild"]
           [] line.value = "ours" ->
                [acc EXCEPT !.group = "ours", !.foundOurs = TRUE]
           [] OTHER -> [acc EXCEPT !.group = "none"]
    [] line.directive \in {"allow", "disallow"} /\ line.value # EmptyPattern
       /\ acc.group \in {"ours", "wild"} ->
         [acc EXCEPT ![acc.group][line.directive] = Append(@, line.value)]
    [] OTHER -> acc

ParseLines(lines) == FoldLeft(ParseLine, NothingParsed, lines)

ParseRobotsTxt(lines) ==
  LET acc == ParseLines(lines) IN IF acc.foundOurs THEN acc.ours ELSE acc.wild

-----------------------------------------------------------------------------
\* strings.Split(s, "*"): the parts that are done and the one that is read.
SplitStep(acc, c) ==
  IF c = "*" THEN [done |-> Append(acc.done, acc.last), last |-> <<>>]
  ELSE [acc EXCEPT !.last = Append(@, c)]

SplitChars(s) == FoldLeft(SplitStep, [done |-> <<>>, last |-> <<>>], s)

Split(s) == Append(SplitChars(s).done, SplitChars(s).last)

\* Where part may be matched: in what remains of the path, from acc.at on; the
\* first part only at the start.
PlacesOf(path, acc, part) ==
  {i \in acc.at..(Len(path) - Len(part) + 1) :
     /\ SubSeq(path, i, i + Len(part) - 1) = part
     /\ acc.first => i = 1}

\* Match one part at its first place (strings.Index).
MatchPart(path, acc, part) ==
  LET places == PlacesOf(path, acc, part)
  IN  IF ~acc.ok \/ places = {} THEN [acc EXCEPT !.ok = FALSE, !.first = FALSE]
      ELSE [ok |-> TRUE, first |-> FALSE, at |-> Min(places) + Len(part)]

MatchParts(path, parts) ==
  FoldLeft(LAMBDA acc, part : MatchPart(path, acc, part),
           [ok |-> TRUE, first |-> TRUE, at |-> 1], parts)

(***************************************************************************)
(* robotsPatternMatch.  Without a wildcard the pattern is a prefix of the  *)
(* path, or the path when it is anchored.  With wildcards each part is     *)
(* taken at its first occurrence, and nothing is tried again when an       *)
(* anchored pattern has not used up the path.                              *)
(***************************************************************************)
RobotsPatternMatch(path, p) ==
  LET parts == Split(p.chars)
      acc   == MatchParts(path, parts)
  IN  IF Len(parts) = 1
      THEN IF p.anchored THEN path = p.chars ELSE IsPrefix(p.chars, path)
      ELSE acc.ok /\ (p.anchored => acc.at = Len(path) + 1)

\* The length of the longest matching rule, -1 if none matches.
Best(path, rules) ==
  Max({-1} \union {PatternLen(rules[i]) : i \in
         {j \in 1..Len(rules) : RobotsPatternMatch(path, rules[j])}})

\* isAllowed: the longest rule that matches wins, allow on a tie.
IsAllowed(path, rules) ==
  LET at == IF path = <<>> THEN <<"/">> ELSE path
  IN  Best(at, rules.allow) >= Best(at, rules.disallow)
=============================================================================
