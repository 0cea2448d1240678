----------------------------- MODULE RiskRules ------------------------------
(***************************************************************************)
(* The risk engine as functions: risk.py.  Money and prices are integers;  *)
(* the limits are in percent.                                              *)
(***************************************************************************)
EXTENDS Integers, FiniteSetsExt

CONSTANTS
  RiskPct,       \* max_risk_per_trade_pct
  LossPct,       \* max_daily_loss_pct
  PositionPct,   \* max_position_pct_of_equity
  VolumePct,     \* max_pct_of_recent_volume
  MinStopPct     \* min_stop_distance_pct

ASSUME RiskAssumption ==
  {RiskPct, LossPct, PositionPct, VolumePct, MinStopPct} \subseteq Nat

(* Mutant: the breaker is not asked.                                       *)
NeverHit(equity, realized) == FALSE

(* daily_loss_limit_hit: at the limit counts as past it.                   *)
LossLimitHit(equity, realized) == 100 * realized <= -(equity * LossPct)

(* The shares that a stop at this distance allows.                         *)
SharesAtRisk(equity, dist) == (equity * RiskPct) \div (100 * dist)

(* The most shares of a position by its notional.                          *)
SharesInBook(equity, entry) == (equity * PositionPct) \div (100 * entry)

(* The most shares by the tape; a tape too thin for one share sets no cap. *)
SharesOfTape(volume) == (volume * VolumePct) \div 100

StopDistance(side, entry, stop) ==
  IF side = "short" THEN stop - entry ELSE entry - stop

(* plan: the shares of a trade, 0 when it is refused.                      *)
Plan(side, entry, stop, volume, equity, realized) ==
  LET dist   == StopDistance(side, entry, stop)
      sized  == SharesAtRisk(equity, dist)
      booked == IF 100 * sized * entry > equity * PositionPct
                THEN SharesInBook(equity, entry) ELSE sized
      tape   == SharesOfTape(volume)
  IN IF \/ LossLimitHit(equity, realized)
        \/ dist <= 0
        \/ 100 * dist < MinStopPct * entry
     THEN 0
     ELSE IF tape > 0 THEN Min({booked, tape}) ELSE booked

=============================================================================
