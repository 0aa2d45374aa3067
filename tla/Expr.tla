-------------------------------- MODULE Expr --------------------------------
(***************************************************************************)
(* The expressions of netidx-bscript (enum ExprKind) and the two ways of   *)
(* writing one out: Display, on one line, and pretty_print, which breaks   *)
(* an application over several lines when it does not fit the column       *)
(* limit.                                                                  *)
(*                                                                         *)
(* A text is a sequence of tokens, and a token is a record of what it      *)
(* says and the bytes it takes: the layout decision of pretty_print reads  *)
(* nothing of a text but its length.  Constants and function names are     *)
(* tokens given by the model.                                              *)
(***************************************************************************)
EXTENDS Naturals, Sequences, SequencesExt

CONSTANTS
    Values,     \* the tokens of the constants (Value::fmt_ext)
    Fnames,     \* the tokens of the function names
    MaxDepth,   \* bound: applications nested in an expression
    MaxArgs,    \* bound: arguments of an application
    Limits      \* the column limits to_string_pretty is called with

VARIABLES
    expr,       \* the expression: an Expr is never changed once it is made
    limit,      \* the column limit it was written with last, 0 for to_string
    buf         \* the text written last

vars == <<expr, limit, buf>>

Constant(v)    == [kind |-> "Constant", value |-> v]
Apply(f, args) == [kind |-> "Apply", function |-> f, args |-> args]

(* The expressions the property tests draw: a constant, or an application  *)
(* of a function name to expressions drawn the same way.                   *)
RECURSIVE Exprs(_)
Exprs(depth) ==
    LET leaf == {Constant(v) : v \in Values}
    IN  IF depth = 0 THEN leaf
        ELSE leaf \cup {Apply(f, args) : f \in Fnames,
                                         args \in BoundedSeq(Exprs(depth - 1), MaxArgs)}

Tok(text, len) == [text |-> text, len |-> len]
Open       == Tok("(", 1)
Close      == Tok(")", 1)
Comma      == Tok(",", 1)
Newline    == Tok("\n", 1)
Spaces(n)  == Tok(" ", n)

Blank(t)  == t.text \in {" ", "\n"}
Width(s)  == FoldLeft(LAMBDA n, t : n + t.len, 0, s)

(* The texts of the parts, each but the last followed by sep, the last by  *)
(* end.                                                                    *)
Joined(parts, sep, end) ==
    FlattenSeq([i \in DOMAIN parts |->
                  parts[i] \o IF i < Len(parts) THEN sep ELSE end])

(* impl Display for ExprKind. *)
RECURSIVE Display(_)
Display(e) ==
    IF e.kind = "Constant" THEN <<e.value>>
    ELSE <<e.function, Open>>
         \o Joined([i \in DOMAIN e.args |-> Display(e.args[i])], <<Comma, Spaces(1)>>, <<>>)
         \o <<Close>>

(* Faulty variant of Fits: a text as wide as the limit fits. *)
FitsOffByOne(text, lim) == Width(text) <= lim

(* tmp.len() < limit *)
Fits(text, lim) == Width(text) < lim

(* Faulty variant of ArgLines: the last argument is followed by a          *)
(* separator like the others.                                              *)
ArgLinesTrailing(args) ==
    Joined(args, <<Comma, Spaces(1), Newline>>, <<Comma, Spaces(1), Newline>>)

(* The arguments of a broken application, one to a line. *)
ArgLines(args) == Joined(args, <<Comma, Spaces(1), Newline>>, <<Newline>>)

(* ExprKind::pretty_print: a constant, and an application that with its    *)
(* indentation is shorter than the limit, is written as Display writes it; *)
(* any other application with its name, its arguments one to a line and    *)
(* indented by two more, and the closing parenthesis on lines of their     *)
(* own.                                                                    *)
RECURSIVE Pretty(_, _, _)
Pretty(e, indent, lim) ==
    LET flat == <<Spaces(indent)>> \o Display(e)
    IN  IF e.kind = "Constant" \/ Fits(flat, lim) THEN flat
        ELSE <<Spaces(indent), e.function, Open, Newline>>
             \o ArgLines([i \in DOMAIN e.args |-> Pretty(e.args[i], indent + 2, lim)])
             \o <<Spaces(indent), Close, Newline>>

-----------------------------------------------------------------------------
Init ==
    /\ expr \in Exprs(MaxDepth)
    /\ limit = 0
    /\ buf = <<>>

(* to_string, which Serialize uses as well. *)
WriteFlat ==
    /\ limit' = 0
    /\ buf' = Display(expr)
    /\ UNCHANGED expr

(* Faulty variant of WritePretty: the indentation and the limit change     *)
(* places in the call of pretty_print.                                     *)
WritePrettySwapped(lim) ==
    /\ limit' = lim
    /\ buf' = Pretty(expr, lim, 0)
    /\ UNCHANGED expr

(* to_string_pretty(col_limit). *)
WritePretty(lim) ==
    /\ limit' = lim
    /\ buf' = Pretty(expr, 0, lim)
    /\ UNCHANGED expr

Next ==
    \/ WriteFlat
    \/ \E lim \in Limits : WritePretty(lim)

Spec == Init /\ [][Next]_vars

-----------------------------------------------------------------------------
Tokens == Values \cup Fnames \cup {Open, Close, Comma, Newline}
                 \cup {Spaces(n) : n \in 0..(2 * MaxDepth)}

(* The type invariant. *)
TypeOK ==
    /\ expr \in Exprs(MaxDepth)
    /\ limit \in Limits \cup {0}
    /\ buf \in Seq(Tokens)

(* The tokens of line k of a text: those with k - 1 newlines before them. *)
Line(s, k) ==
    LET before(i) == Len(SelectSeq(SubSeq(s, 1, i - 1), LAMBDA t : t = Newline))
    IN  SelectSeq([i \in DOMAIN s |-> IF before(i) = k - 1 /\ s[i] # Newline
                                      THEN s[i] ELSE Newline],
                  LAMBDA t : t # Newline)

(* What expr_pp_round_trip needs of pretty_print for any parser that skips *)
(* blanks: whatever the limit and the nesting, the text differs from the   *)
(* one Display writes in blanks and line breaks only.  No separator, no    *)
(* parenthesis and no argument is lost or added where lines are broken.    *)
PrettyIsDisplay ==
    buf # <<>> =>
    SelectSeq(buf, LAMBDA t : ~Blank(t)) = SelectSeq(Display(expr), LAMBDA t : ~Blank(t))

(* The column limit holds for what pretty_print chooses to write on one    *)
(* line: a line that holds a whole application is shorter than the limit,  *)
(* its indentation counted, but for the separator that may follow it.      *)
FlatLinesFit ==
    limit # 0 =>
        \A k \in 1..Len(buf) :
            Contains(Line(buf, k), Open) /\ Contains(Line(buf, k), Close) =>
                Width(Line(buf, k)) <= limit + 1

=============================================================================
