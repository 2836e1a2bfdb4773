-------------------------------- MODULE Slug --------------------------------
(***************************************************************************)
(* ccDescriptionToSlug (src/unnamed/part_002, lines 49-70): the slug of a  *)
(* child conversation derived from a Task tool's description.              *)
(*                                                                         *)
(* A string is a sequence of one-character strings.  The alphabet is one   *)
(* representative of each class the code tells apart: a lowercase letter  *)
(* or digit (kept), an uppercase letter (lowered, then kept), "-" (kept),  *)
(* " " and "_" (become "-"), and any other rune (dropped).  Every output   *)
(* character is ASCII, so len() in bytes is the number of characters.     *)
(***************************************************************************)
EXTENDS Naturals, Sequences, SequencesExt

CONSTANTS
    SlugMax,   \* the truncation length (40 in the code)
    MaxLen     \* longest description enumerated

Alphabet == {"a", "B", "-", " ", "_", "."}

\* strings.ToLower, on the representatives
ToLower(r) == IF r = "B" THEN "b" ELSE r

\* The switch on each rune of the lowered description.
MapRune(r) ==
    IF r \in {"a", "b", "-"} THEN <<r>>
    ELSE IF r \in {" ", "_"} THEN <<"-">>
    ELSE <<>>

Build(d) == FlattenSeq([i \in DOMAIN d |-> MapRune(ToLower(d[i]))])

ContainsDD(s) == \E i \in 1..Len(s) - 1 : s[i] = "-" /\ s[i + 1] = "-"

\* strings.ReplaceAll(s, "--", "-"): non-overlapping, left to right.
RECURSIVE ReplaceDD(_)
ReplaceDD(s) ==
    IF Len(s) < 2 THEN s
    ELSE IF s[1] = "-" /\ s[2] = "-" THEN <<"-">> \o ReplaceDD(Tail(Tail(s)))
    ELSE <<s[1]>> \o ReplaceDD(Tail(s))

\* mutant: one ReplaceAll pass instead of the loop
CollapseOnce(s) == ReplaceDD(s)

RECURSIVE Collapse(_)
Collapse(s) == IF ContainsDD(s) THEN Collapse(ReplaceDD(s)) ELSE s

\* strings.Trim(s, "-")
RECURSIVE TrimDash(_)
TrimDash(s) ==
    IF s # <<>> /\ Head(s) = "-" THEN TrimDash(Tail(s))
    ELSE IF s # <<>> /\ Last(s) = "-" THEN TrimDash(Front(s))
    ELSE s

Truncate(s) == IF Len(s) > SlugMax THEN SubSeq(s, 1, SlugMax) ELSE s

ccDescriptionToSlug(d) == Truncate(TrimDash(Collapse(Build(d))))

-----------------------------------------------------------------------------
(* Reference definition (spec 4.6): the kept words of the description,     *)
(* joined by single dashes, cut to SlugMax characters.  Computed in one    *)
(* left-to-right pass that emits a dash only between two words.           *)
JoinStep(acc, c) ==
    IF c = "-" THEN [acc EXCEPT !.gap = acc.out # <<>>]
    ELSE [out |-> acc.out \o (IF acc.gap THEN <<"-">> ELSE <<>>) \o <<c>>,
          gap |-> FALSE]

Words(d) == FoldLeft(JoinStep, [out |-> <<>>, gap |-> FALSE], Build(d)).out

RefSlug(d) == SubSeq(Words(d), 1, Min({Len(Words(d)), SlugMax}))

Descriptions == UNION {[1..n -> Alphabet] : n \in 0..MaxLen}

-----------------------------------------------------------------------------
(* One state per description, so that TLC checks each one.                *)
VARIABLE desc

Init == desc \in Descriptions
Next == UNCHANGED desc
Spec == Init /\ [][Next]_desc

(* The code's multi-pass normalisation (map runes, collapse "--" until none *)
(* is left, trim, truncate) yields exactly the words of the description    *)
(* joined by single dashes and cut to the length limit.                    *)
SlugMatchesReference == ccDescriptionToSlug(desc) = RefSlug(desc)
====
