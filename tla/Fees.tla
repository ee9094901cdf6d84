-------------------------------- MODULE Fees --------------------------------
(***************************************************************************)
(* Kalshi's trading fees as edge/fees.py computes them: exact decimals,    *)
(* rounded up to the cent once for the whole order.  A price is in cents.  *)
(***************************************************************************)
EXTENDS Integers

\* a / b rounded up.
CeilDiv(a, b) == -((-a) \div b)

\* _fee_cents: rate * C * P * (1 - P) dollars, in cents; the rate is in
\* hundredths of a percent and the price in 0..100.
FeeCents(rate, contracts, price) ==
  IF contracts <= 0 THEN 0
  ELSE CeilDiv(rate * contracts * price * (100 - price), 1000000)

TakerRate == 700
MakerRate == 175

TakerFee(contracts, price) == FeeCents(TakerRate, contracts, price)
MakerFee(contracts, price) == FeeCents(MakerRate, contracts, price)

\* taker_fee_rate: the fee of a single contract, in hundredths of a cent.
TakerFeeRate(price) == 100 * TakerFee(1, price)
=============================================================================
