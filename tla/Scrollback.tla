----------------------------- MODULE Scrollback -----------------------------
(***************************************************************************)
(* One role's pane as next sees it: the lines tmux keeps of it, where the  *)
(* parser finds a handoff block among them, and the digest that tells a    *)
(* new block from one already taken.  Workflow lets a capture find any     *)
(* output; here is which output a screen holds.                            *)
(*                                                                         *)
(* A line is a marker, a STATUS line or a text.  Blank lines are left out: *)
(* the parser strips them around the block and around its body.            *)
(***************************************************************************)
EXTENDS Naturals, Sequences

CONSTANTS
    Role,       \* the role that runs in the pane
    Plain,      \* texts that fit the pane
    Wide,       \* texts a narrow pane breaks
    StatusLines,\* the decisions on STATUS lines
    Envelope,   \* the line [ATCODE_TRANSFER ...]
    Prompts,    \* what the role's program may show of its startup prompt
    MaxBody,    \* stands for MAX_HANDOFF_BYTES, in lines
    History,    \* how many lines tmux keeps
    None

VARIABLES
    screen,     \* the lines capture-pane returns
    width,      \* of the pane
    last,       \* last_digests[Role]
    takenEnd,   \* history: where on the screen the block last taken ends, 0 if nowhere
    renewed,    \* history: since then the pane was resized, the block cut or the digest lost
    settled     \* history: which lines were delivered with no opening marker left open

vars == <<screen, width, last, takenEnd, renewed, settled>>

Widths == {"narrow", "wide"}
Texts == Plain \cup Wide
Lines == {"open", "close"} \cup StatusLines \cup Texts

\* A body is what the terminal shows of it: wide lines depend on the width.
Bodies == [lines: Seq(Lines), width: Widths \cup {"any"}]

H == INSTANCE Handoffs

ConstantsAssumption ==
    /\ Role \in H!Roles
    /\ StatusLines \subseteq H!Decisions
    /\ Envelope \in Plain
    /\ Prompts \subseteq Seq(Lines)
    /\ MaxBody \in Nat \ {0} /\ History \in Nat
    /\ \A prompt \in Prompts : Len(prompt) <= History
    /\ Texts \cap ({"open", "close"} \cup StatusLines) = {}
    /\ None \notin H!Digests
ASSUME ConstantsOK == ConstantsAssumption

-----------------------------------------------------------------------------
(* <ATCODE_HANDOFF>\s*(.*?)\s*</ATCODE_HANDOFF>, the last match.           *)

NoClose(s, i, j) == \A k \in i..j : s[k] # "close"

\* A match ends at the first end marker after its opening one, and starts at the
\* first opening marker after the end marker before.
Opens(s, c) == {o \in 1..(c - 1) : s[o] = "open" /\ NoClose(s, o, c - 1)}
Ends(s) == {c \in 1..Len(s) : s[c] = "close" /\ Opens(s, c) # {}}

\* A marker that is still open swallows what comes below.
LeftOpen(s) == \E o \in 1..Len(s) : s[o] = "open" /\ NoClose(s, o, Len(s))

\* Mutant: the first match is taken.
FirstEnd(s) ==
    IF Ends(s) = {} THEN 0 ELSE CHOOSE c \in Ends(s) : \A d \in Ends(s) : c <= d

EndOf(s) ==
    LET ends == Ends(s) IN IF ends = {} THEN 0 ELSE CHOOSE c \in ends : \A d \in ends : d <= c

\* Mutant: the opening marker nearest to the end marker starts the block.
NearestStart(s) == CHOOSE o \in Opens(s, EndOf(s)) : \A d \in Opens(s, EndOf(s)) : d <= o

StartOf(s) ==
    LET opens == Opens(s, EndOf(s)) IN CHOOSE o \in opens : \A d \in opens : o <= d

Shown(lines, w) ==
    [lines |-> lines,
     width |-> IF \E i \in DOMAIN lines : lines[i] \in Wide THEN w ELSE "any"]

Body(lines, w) ==
    IF lines = <<>> \/ Len(lines) > MaxBody THEN None ELSE Shown(lines, w)

\* What HandoffParser.parse makes of the screen, as Handoffs!Parses takes it.
Output(s, w) ==
    LET first == StartOf(s) + 1  end == EndOf(s)
    IN  IF end = 0 \/ first = end \/ s[first] \notin StatusLines THEN None
        ELSE [decision |-> s[first], body |-> Body(SubSeq(s, first + 1, end - 1), w)]

DigestOf(out) == H!Digest(Role, out.decision, out.body)

\* Mutant: the match is greedy, a block runs to the last end marker.
AnyBody == UNION {[1..n -> Lines] : n \in 1..MaxBody}

\* The bodies a role can be given: what the parser accepts from another one.  They
\* may hold opening markers, never an end marker.
Given == UNION {[1..n -> Lines \ {"close"}] : n \in 1..MaxBody}

-----------------------------------------------------------------------------
Init ==
    /\ screen \in Prompts
    /\ width \in Widths
    /\ last = None
    /\ takenEnd = 0
    /\ renewed = FALSE
    /\ settled = {}

\* The oldest lines leave the history; the others move up.
Excess(s) == IF Len(s) > History THEN Len(s) - History ELSE 0
Kept(s) == SubSeq(s, Excess(s) + 1, Len(s))
Higher(positions, cut) == {i - cut : i \in {j \in positions : j > cut}}

\* Lines appear at the bottom.
Show(lines) ==
    LET cut == Excess(screen \o lines)
    IN  /\ screen' = Kept(screen \o lines)
        /\ takenEnd' = IF takenEnd > cut THEN takenEnd - cut ELSE 0
        /\ renewed' = (renewed \/ (takenEnd > cut /\ cut >= StartOf(screen)))
        /\ UNCHANGED <<width, last>>

\* The role prints whatever it likes.
PrintLine(line) ==
    /\ Show(<<line>>)
    /\ settled' = Higher(settled, Excess(screen \o <<line>>))

\* The relay pastes a transfer, which the program shows.
Deliver(body) ==
    LET lines == <<Envelope>> \o body
        arrived == (Len(screen) + 1)..(Len(screen) + Len(lines))
    IN  /\ Show(lines)
        /\ settled' = Higher(IF LeftOpen(screen') THEN settled ELSE settled \cup arrived,
                             Excess(screen \o lines))

\* Mutant: a block without a usable body is taken.
BodilessBlock ==
    LET out == Output(screen, width)
    IN  out # None /\ out.decision \in H!Allowed[Role] /\ last # DigestOf(out)

\* next parses what it captured and compares the digest.
NewBlock ==
    LET out == Output(screen, width) IN H!Parses(out, Role) /\ last # DigestOf(out)

\* Mutant: the digest is not kept.
TakeUnrecorded ==
    /\ NewBlock
    /\ takenEnd' = EndOf(screen)
    /\ renewed' = FALSE
    /\ UNCHANGED <<screen, width, last, settled>>

\* ... and hands the block over.
Take ==
    /\ NewBlock
    /\ last' = DigestOf(Output(screen, width))
    /\ takenEnd' = EndOf(screen)
    /\ renewed' = FALSE
    /\ UNCHANGED <<screen, width, settled>>

\* tmux breaks the lines anew.
Resize ==
    /\ width' \in Widths \ {width}
    /\ renewed' = TRUE
    /\ UNCHANGED <<screen, last, takenEnd, settled>>

\* start makes a new pane, whose program shows its prompt; digests survive.
Restart(prompt) ==
    /\ screen' = prompt
    /\ takenEnd' = 0
    /\ renewed' = FALSE
    /\ settled' = {}
    /\ UNCHANGED <<width, last>>

\* reset forgets the digests.
Reset ==
    /\ last' = None
    /\ renewed' = TRUE
    /\ UNCHANGED <<screen, width, takenEnd, settled>>

Next ==
    \/ \E line \in Lines : PrintLine(line)
    \/ \E body \in Given : Deliver(body)
    \/ Take \/ Resize \/ Reset
    \/ \E prompt \in Prompts : Restart(prompt)

Spec == Init /\ [][Next]_vars
-----------------------------------------------------------------------------
TypeOK ==
    /\ screen \in Seq(Lines) /\ Len(screen) <= History
    /\ width \in Widths
    /\ last \in H!Digests \cup {None}
    /\ takenEnd \in 0..Len(screen)
    /\ renewed \in BOOLEAN
    /\ settled \subseteq 1..Len(screen)

(* What the regular expression engine does, from left to right: look for   *)
(* an opening marker, then for the first end marker, then start over.      *)
Unread == [from |-> 0, block |-> <<0, 0>>]

Reads(before, line, i) ==
    IF line = "open" /\ before.from = 0 THEN [before EXCEPT !.from = i]
    ELSE IF line = "close" /\ before.from # 0 THEN [from |-> 0, block |-> <<before.from, i>>]
    ELSE before

Scan(s) ==
    LET at[i \in 0..Len(s)] == IF i = 0 THEN Unread ELSE Reads(at[i - 1], s[i], i)
    IN  at[Len(s)].block

(* The block the model takes is the last match of that scan.               *)
ScanAgrees ==
    Scan(screen) = IF EndOf(screen) = 0 THEN <<0, 0>> ELSE <<StartOf(screen), EndOf(screen)>>

(* A role is heard, if not the first time then the second.  Whatever is on *)
(* the screen, quoted, cut and unfinished markers, deliveries and old      *)
(* blocks included, and however many lines of it leave the history         *)
(* meanwhile: the block the role prints next is read as it was printed, or *)
(* if a marker was left open, the block it prints when it is asked again.  *)
Block(decision, body) == <<"open", decision>> \o body \o <<"close">>
ReadsNextBlock ==
    \A decision \in StatusLines, body \in Given :
        LET block == Block(decision, body)
            above == IF LeftOpen(screen) THEN screen \o block ELSE screen
        IN  \A cut \in 0..Len(above) :
                Output(SubSeq(above, cut + 1, Len(above)) \o block, width)
                    = [decision |-> decision, body |-> Shown(body, width)]

(* What is delivered to a role is not taken for what the role says: the    *)
(* block next finds holds no line of a delivery, however much was printed, *)
(* delivered and lost since, as long as no opening marker was left open    *)
(* when the delivery had arrived, neither by the role nor by the delivered *)
(* text.                                                                   *)
OwnWords ==
    EndOf(screen) # 0 => \A i \in settled : i < StartOf(screen) \/ i > EndOf(screen)

(* An old block is not taken for a new one: what next would hand over ends *)
(* further down than what it handed over before, unless the same block now *)
(* looks different or its digest is gone.                                  *)
NeverTakenTwice == NewBlock => EndOf(screen) > takenEnd \/ renewed
=============================================================================
