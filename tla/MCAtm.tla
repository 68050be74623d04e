--------------------------------- MODULE MCAtm ---------------------------------
(* Two machines: one with 50 and 20 euro notes and two cells of 10 rouble       *)
(* notes, and one with 50 euro notes only.  In tens.                            *)
EXTENDS Atm

CONSTANTS a1, a2, EURO, RUB
TwoNominals == <<5, 2, 1>>
TwoCurrencies == <<EURO, EURO, RUB>>
RackAtm == <<a1, a1, a1, a1, a2>>
RackNote == <<1, 2, 3, 3, 1>>
RackInitial == <<2, 2, 2, 1, 2>>
SomePacks == {<<1, 0, 0>>, <<0, 1, 0>>, <<1, 0, 1>>}
=============================================================================
