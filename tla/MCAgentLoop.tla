------------------------------ MODULE MCAgentLoop ------------------------------
(* A small instance of AgentLoop: three days, the second without a         *)
(* published rate, three currencies, one of which neither provider knows,   *)
(* and the kinds of skill there are.                                       *)
EXTENDS AgentLoop, TLC

LivePublished == [c \in Currencies |-> IF c = "USD" THEN 1 :> 7 @@ 3 :> 8 ELSE <<>>]
BuiltIn == [c \in Currencies |-> CASE c = "USD" -> <<5, 6>> [] c = "EUR" -> <<4>> [] OTHER -> <<>>]

SomeRecords == {[day |-> 1, currencies |-> {"USD"}], [day |-> 2, currencies |-> {"USD", "EUR"}]}
SomeLists == {<<"USD">>, <<"EUR", "USD">>, <<"XAU">>}

SkillFile(tool, when, printed, shortCircuit, onFailure, required, routed) ==
    [tool |-> tool, when |-> when, printed |-> printed, shortCircuit |-> shortCircuit,
     onFailure |-> onFailure, required |-> required, routed |-> routed]

(* investment_advice, natural_language_understanding, ocr_parsing, risk_assessment *)
Registry == [advice |-> SkillFile(TRUE, FALSE, TRUE, FALSE, FALSE, TRUE, TRUE),
             language |-> SkillFile(TRUE, FALSE, FALSE, TRUE, TRUE, TRUE, FALSE),
             ocr |-> SkillFile(TRUE, TRUE, FALSE, FALSE, FALSE, FALSE, FALSE),
             risk |-> SkillFile(FALSE, FALSE, FALSE, FALSE, FALSE, TRUE, TRUE)]

SomeCalls == {<<"language", "unheard">>, <<"ocr", "advice">>, <<"risk">>}
=============================================================================
