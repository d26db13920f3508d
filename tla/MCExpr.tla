------------------------------- MODULE MCExpr -------------------------------
(***************************************************************************)
(* Instances of ExprReceipt: every text of three characters, and longer    *)
(* ones over alphabets that make expressions, calls and deep nesting.      *)
(***************************************************************************)
EXTENDS ExprGrammar, TLC

MCDigit == "0" :> 0 @@ "3" :> 3

Texts(alphabet, n) == UNION {[1..k -> alphabet] : k \in 0..n}

MCSources ==
    Texts({" ", "0", "3", "x", "y", "=", "!", "<", ">", "+", "-", "*", "/", "%",
           "(", ")", ",", "?"}, 3)
      \cup Texts({"3", "x", "-", "*", "<", ")", "("}, 6)
      \cup Texts({"3", "x", "-", "*", "<"}, 7)
      \cup Texts({"x", "(", ")", ","}, 7)
      \cup {ReturnWord \o t : t \in Texts({"x", "-", ";", " "}, 3)}
      \cup {<<"\n">> \o ReturnWord \o <<"x">>}

MCEnvs == {<<[name |-> <<"x">>, val |-> -1]>>}
=============================================================================
