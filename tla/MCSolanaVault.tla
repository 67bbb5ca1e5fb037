--------------------------- MODULE MCSolanaVault ---------------------------
(* Model values for SolanaVault.  Each bound looks at one thing: penalties *)
(* that three members share, windows, rules, requests and who is paid.     *)
EXTENDS SolanaVault, TLC

CONSTANTS ann, ben, cat, exchange

Limits(d, w, m) == [p \in Periods |-> CASE p = "daily" -> d [] p = "weekly" -> w [] p = "monthly" -> m]
RulesOf(d, w, m, pct, penalty) == [limit |-> Limits(d, w, m), pct |-> pct, penalty |-> penalty]

\* A change of the limits only; {} leaves a limit alone.
LimitChange(d, w, m) == [limit |-> Limits(d, w, m), pct |-> {}, penalty |-> {}]

SharedPenalties ==
    [admin |-> ann, creators |-> {ann}, members |-> {ann, ben, cat},
     groups |-> {"deposit", "penalty"}, community |-> {TRUE},
     rules |-> {RulesOf(1, 0, 0, FALSE, 5)}, changes |-> {}, amounts |-> {1, 2, 4},
     caps |-> {}, visits |-> 2, held |-> 9, moves |-> 6, time |-> 0]

Windows ==
    [admin |-> ann, creators |-> {ann}, members |-> {ann},
     groups |-> {"deposit", "withdraw"}, community |-> {TRUE},
     rules |-> {RulesOf(1, 2, 0, FALSE, 5), RulesOf(1, 0, 2, FALSE, 5), RulesOf(5, 0, 0, TRUE, 5)},
     changes |-> {}, amounts |-> {1, 2, 4}, caps |-> {1, 2}, visits |-> 2,
     held |-> 4, moves |-> 6, time |-> 5]

ChangingRules ==
    [admin |-> ann, creators |-> {ann}, members |-> {ann},
     groups |-> {"deposit", "withdraw", "rules"}, community |-> {FALSE, TRUE},
     rules |-> {RulesOf(1, 2, 0, FALSE, 1)},
     changes |-> {LimitChange({0}, {}, {}), LimitChange({2}, {0}, {}), LimitChange({}, {1}, {})},
     amounts |-> {1}, caps |-> {1, 2}, visits |-> 2, held |-> 3, moves |-> 4, time |-> 2]

Requests ==
    [admin |-> ann, creators |-> {ben}, members |-> {ben},
     groups |-> {"deposit", "penalty", "bypass", "destination", "config"},
     community |-> {FALSE}, rules |-> {RulesOf(1, 0, 0, FALSE, 5)}, changes |-> {},
     amounts |-> {1, 2}, caps |-> {}, visits |-> 1, held |-> 2, moves |-> 3, time |-> 2]

MCBounds == {SharedPenalties, Windows, ChangingRules, Requests}
=============================================================================
