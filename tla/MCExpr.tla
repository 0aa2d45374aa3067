------------------------------- MODULE MCExpr -------------------------------
EXTENDS Expr

MCValues == {Tok("1", 1), Tok("\"abc\"", 5)}
MCFnames == {Tok("f", 1), Tok("sum", 3)}
=============================================================================
