---------------------------- MODULE MCLiveEngine ----------------------------
(* LiveEngine for TLC: four shapes of bars around a breakout and one       *)
(* policy for each way a trade may end.                                    *)
EXTENDS LiveEngine

Price(n) == n * 60000

Shape(h, l, c, weak) ==
  [h |-> Price(h), l |-> Price(l), c |-> Price(c), weak |-> weak]

(* A flat bar, a run, a fade and a plunge.                                 *)
MCShapes == {Shape(20, 19, 20, FALSE),
             Shape(26, 21, 22, FALSE), Shape(21, 20, 20, TRUE),
             Shape(20, 16, 17, TRUE)}

Policy(target, trail, param, vwap) ==
  [target |-> target, trail |-> trail, param |-> param, vwap |-> vwap]

MCPolicies == {Policy(2, "none", 0, TRUE), Policy(0, "pct", 10, FALSE),
               Policy(0, "atr", 2, FALSE), Policy(0, "structure", 2, FALSE)}

(* Days that start before the session and days that start with it.        *)
MCStartTods == [premarket |-> {1}, regular |-> {3}, intraday |-> {4}]

MCMaxBars == [dryrun |-> 7, server |-> 5]

=============================================================================
