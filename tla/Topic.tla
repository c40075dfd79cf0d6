-------------------------------- MODULE Topic --------------------------------
(***************************************************************************)
(* Topic matching of the router (src/unnamed/part_001, router.go).         *)
(* A topic or filter is a sequence of characters over a small alphabet:    *)
(* a level character, the separator "/" and the wildcards "+" and "#".     *)
(* routeIncludesTopic is translated loop for loop; MqttMatch is the        *)
(* MQTT 3.1.1 reference semantics the spec (section 4.5) states, defined   *)
(* on levels.                                                              *)
(***************************************************************************)
EXTENDS Naturals, Sequences, SequencesExt

CONSTANTS Chars,     \* the level characters, e.g. {"a", "b"}
          MaxLen     \* the longest filter or topic enumerated

Sep == "/"
Plus == "+"
Hash == "#"

\* Every string of at most MaxLen characters over an alphabet.
Strings(alpha) == BoundedSeq(alpha, MaxLen)

-----------------------------------------------------------------------------
(* The code: routeIncludesTopic(route, topic []byte).                      *)

\* Mutant: the "+" case runs to the end of the topic.
SkipLevelAcrossSeparators(topic, tp) == Len(topic) + 1

\* The inner loop of the "+" case: advance tp to the next '/' or the end.
RECURSIVE SkipLevel(_, _)
SkipLevel(topic, tp) ==
    IF tp <= Len(topic) /\ topic[tp] # Sep THEN SkipLevel(topic, tp + 1) ELSE tp

\* The for loop over rp, with tp carried along (1-based indices).
RECURSIVE Scan(_, _, _, _)
Scan(route, topic, rp, tp) ==
    CASE rp > Len(route)                          -> tp = Len(topic) + 1
      [] route[rp] = Hash                         -> TRUE
      [] route[rp] = Plus                         -> Scan(route, topic, rp + 1, SkipLevel(topic, tp))
      [] tp > Len(topic) \/ route[rp] # topic[tp] -> FALSE
      [] OTHER                                    -> Scan(route, topic, rp + 1, tp + 1)

routeIncludesTopic(route, topic) ==
    CASE Len(route) = 0 -> Len(topic) = 0
      [] Len(topic) = 0 -> route = <<Hash>>
      [] OTHER          -> Scan(route, topic, 1, 1)

\* route.match(topic), used by addRoute and deleteRoute: exact equality
\* or routeIncludesTopic.
match(route, topic) == route = topic \/ routeIncludesTopic(route, topic)

\* route.matchBytes(topic), used by matchAndDispatch.
matchBytes(route, topic) == routeIncludesTopic(route, topic)

-----------------------------------------------------------------------------
(* The reference: MQTT 3.1.1 section 4.7 on levels.                        *)

\* The levels of a string: the maximal runs between separators.
RECURSIVE Levels(_)
Levels(s) ==
    IF \A i \in DOMAIN s : s[i] # Sep THEN <<s>>
    ELSE LET k == SelectInSeq(s, LAMBDA c : c = Sep)
         IN  <<SubSeq(s, 1, k - 1)>> \o Levels(SubSeq(s, k + 1, Len(s)))

RECURSIVE MatchLevels(_, _)
MatchLevels(f, t) ==
    CASE f = <<>>                                   -> t = <<>>
      [] Head(f) = <<Hash>>                         -> TRUE
      [] t = <<>>                                   -> FALSE
      [] Head(f) = <<Plus>> \/ Head(f) = Head(t)    -> MatchLevels(Tail(f), Tail(t))
      [] OTHER                                      -> FALSE

MqttMatch(filter, topic) == MatchLevels(Levels(filter), Levels(topic))

\* A valid topic name: non-empty, no wildcard characters.
ValidTopic(t) == Len(t) > 0 /\ \A i \in DOMAIN t : t[i] \notin {Plus, Hash}

\* A valid filter: non-empty, "+" fills a whole level, "#" is a whole,
\* final level.
ValidFilter(f) ==
    LET lv == Levels(f) IN
    /\ Len(f) > 0
    /\ \A i \in DOMAIN lv :
          /\ \A j \in DOMAIN lv[i] : lv[i][j] \in {Plus, Hash} => Len(lv[i]) = 1
          /\ lv[i] = <<Hash>> => i = Len(lv)

Filters == {f \in Strings(Chars \cup {Sep, Plus, Hash}) : ValidFilter(f)}
Topics  == {t \in Strings(Chars \cup {Sep}) : ValidTopic(t)}

=============================================================================
