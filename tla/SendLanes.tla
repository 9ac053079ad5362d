------------------------------ MODULE SendLanes ------------------------------
(***************************************************************************)
(* The send lanes of the Rust executor (executor.rs): which settings it    *)
(* accepts at its start, to which endpoints it sends a buy or a sell, what *)
(* the transaction pays them, and which answer it reports.                 *)
(* One endpoint stands for all of a lane. Lamports and fees are small      *)
(* numbers: 5_000, 200_000 and 1_000_000 lamports are 1, 2 and 3.          *)
(***************************************************************************)
EXTENDS Naturals, FiniteSets, FiniteSetsExt

CONSTANTS
  Fees,           \* priority fees, 0 for none
  Null

VARIABLES
  config,         \* the settings, Null before the start and when they are refused
  role,           \* what is being sent: "none", "buy" or "sell"
  fee, transfers, \* the compute-unit price and the tips in its message
  left, outcome,  \* the lanes that have not answered, and what the others did
  result          \* what send_transaction_with returned

vars == <<config, role, fee, transfers, left, outcome, result>>

Lane == {"rpc", "jito", "helius", "nozomi", "astralane", "lunar", "circular", "erpc", "beam",
         "zero", "jet", "quic"}
Enabled == Lane \ {"rpc", "jito"}
Tipped == Lane \ {"rpc", "erpc", "jet", "quic"}

-----------------------------------------------------------------------------
(* The lane modes *)

Mode ==
  {"mixed", "fast", "turbo", "rpc_only", "jito_only", "helius_sender_only", "helius_sender_max",
   "nozomi_only", "helius_nozomi_stack", "astralane_only", "helius_astralane_stack",
   "helius_nozomi_astralane_stack", "helius_nozomi_astralane_lunar_stack", "lunar_lander_only",
   "helius_lunar_lander_stack", "circular_fast_only", "helius_circular_fast_stack",
   "erpc_swqos_only", "helius_erpc_swqos_stack", "beam_only", "helius_beam_stack",
   "helius_nozomi_beam_stack", "zero_slot_only", "helius_zero_slot_stack",
   "helius_nozomi_zero_slot_stack", "all_non_beam_stack", "helius_tpu_jet", "helius_tpu_quic",
   "tpu_jet_helius_tip", "tpu_quic_helius_tip", "tpu_jet_only", "tpu_quic_only"}

\* The modes that send to a lane.
UsesLane ==
  [rpc |-> {"mixed", "rpc_only"},
   jito |-> {"mixed", "jito_only"},
   helius |-> Mode \ {"rpc_only", "jito_only", "nozomi_only", "astralane_only",
                      "lunar_lander_only", "circular_fast_only", "erpc_swqos_only", "beam_only",
                      "zero_slot_only", "tpu_jet_helius_tip", "tpu_quic_helius_tip",
                      "tpu_jet_only", "tpu_quic_only"},
   nozomi |-> {"mixed", "fast", "turbo", "nozomi_only", "helius_nozomi_stack",
               "helius_nozomi_astralane_stack", "helius_nozomi_astralane_lunar_stack",
               "helius_nozomi_beam_stack", "helius_nozomi_zero_slot_stack", "all_non_beam_stack"},
   astralane |-> {"astralane_only", "turbo", "helius_astralane_stack",
                  "helius_nozomi_astralane_stack", "helius_nozomi_astralane_lunar_stack"},
   lunar |-> {"lunar_lander_only", "turbo", "helius_lunar_lander_stack",
              "helius_nozomi_astralane_lunar_stack"},
   circular |-> {"circular_fast_only", "helius_circular_fast_stack"},
   erpc |-> {"erpc_swqos_only", "helius_erpc_swqos_stack"},
   beam |-> {"beam_only", "helius_beam_stack", "helius_nozomi_beam_stack"},
   zero |-> {"zero_slot_only", "turbo", "helius_zero_slot_stack", "helius_nozomi_zero_slot_stack",
             "all_non_beam_stack"},
   jet |-> {"mixed", "turbo", "helius_tpu_jet", "tpu_jet_helius_tip", "tpu_jet_only",
            "all_non_beam_stack"},
   quic |-> {"mixed", "helius_tpu_quic", "tpu_quic_helius_tip", "tpu_quic_only"}]

\* Mutant: turbo was forgotten where the tip of 0slot is chosen.
UsesTip_NoTurbo ==
  [lane \in Tipped |->
     IF lane = "zero" THEN UsesLane["zero"] \ {"turbo"}
     ELSE UsesLane[lane] \cup (IF lane = "helius"
                               THEN {"tpu_jet_helius_tip", "tpu_quic_helius_tip"} ELSE {})]

\* The modes whose buys tip a lane; two tip helius for a transaction it does not get.
UsesTip ==
  [lane \in Tipped |->
     UsesLane[lane] \cup (IF lane = "helius" THEN {"tpu_jet_helius_tip", "tpu_quic_helius_tip"}
                          ELSE {})]

MaxTip == {"fast", "helius_sender_max"}

-----------------------------------------------------------------------------
(* The settings, each with at most one flaw: a part that is missing or a tip too low *)

Part == {"urls", "key", "account", "tip", "mode"}
Settings ==
  [mode : Mode, fanout : BOOLEAN, fast : BOOLEAN, swqos : BOOLEAN, enabled : SUBSET Enabled,
   flaw : (Lane \X Part) \cup {Null}, low : 0 .. 2, shared : BOOLEAN, cap : Nat,
   sells : {"same", "rpc", "tipless"},
   fee : Fees, dynamic : BOOLEAN, baseline : Fees, aggressive : Fees, panic : Fees, max : Fees,
   multiplier : {0, 2}]

Plain ==
  [mode |-> "mixed", fanout |-> TRUE, fast |-> TRUE, swqos |-> FALSE, enabled |-> {}, flaw |-> Null,
   low |-> 0, shared |-> FALSE, cap |-> 100, sells |-> "same",
   fee |-> 1, dynamic |-> FALSE, baseline |-> 0, aggressive |-> 0, panic |-> 0, max |-> 0,
   multiplier |-> 0]

Has(c, lane, parts) == \A part \in parts : c.flaw # <<lane, part>>

Tip(c, lane) == IF c.flaw = <<lane, "tip">> THEN c.low ELSE 3

-----------------------------------------------------------------------------
(* What a start refuses *)

ValidSourceFee(c) == c.multiplier > 0 => c.max > 0

HeliusMinTip(c) == CASE c.mode \in MaxTip -> 3
                   [] c.mode \notin MaxTip /\ c.swqos -> 1
                   [] OTHER -> 2

\* Mutant: the least tip is that of the swqos endpoint in every mode.
ValidHelius_LowTip(c) ==
  /\ c.fanout /\ c.fast /\ Has(c, "helius", {"urls", "account"})
  /\ c.mode \in MaxTip => ~ c.swqos
  /\ c.fee > 0 /\ Tip(c, "helius") >= 1

ValidHelius(c) ==
  /\ c.fanout /\ c.fast /\ Has(c, "helius", {"urls", "account"})
  /\ c.mode \in MaxTip => ~ c.swqos
  /\ c.fee > 0 /\ Tip(c, "helius") >= HeliusMinTip(c)

\* A lane of its own needs no fanout.
Fanned(c, only) == (c.fanout \/ c.mode = only) /\ c.fast

ValidNozomi(c) ==
  /\ Fanned(c, "nozomi_only") /\ Has(c, "nozomi", {"urls", "account"})
  /\ c.fee > 0 /\ Tip(c, "nozomi") >= 3

ValidAstralane(c) ==
  /\ Fanned(c, "astralane_only") /\ Has(c, "astralane", {"urls", "key", "account"})
  /\ c.fee > 0 /\ Tip(c, "astralane") >= 3

ValidLunar(c) ==
  /\ Fanned(c, "lunar_lander_only") /\ Has(c, "lunar", {"urls", "key", "account"})
  /\ Tip(c, "lunar") >= 3

ValidCircular(c) ==
  /\ Fanned(c, "circular_fast_only") /\ Has(c, "circular", {"urls", "key", "account"})
  /\ c.fee > 0 /\ Tip(c, "circular") >= 3

ValidErpc(c) == Fanned(c, "erpc_swqos_only") /\ Has(c, "erpc", {"urls"})

ValidBeam(c) ==
  /\ Fanned(c, "beam_only") /\ Has(c, "beam", {"urls", "key", "mode", "account"})
  /\ Tip(c, "beam") >= 3

ValidZero(c) ==
  /\ Fanned(c, "zero_slot_only") /\ Has(c, "zero", {"urls", "key", "account"})
  /\ Tip(c, "zero") >= 3

ValidQuic(c) == Fanned(c, "tpu_quic_only") /\ Has(c, "quic", {"urls"})
ValidJet(c) == Fanned(c, "tpu_jet_only") /\ Has(c, "jet", {"urls"})

ValidLanes(c) ==
  /\ "helius" \in c.enabled => ValidHelius(c)
  /\ "nozomi" \in c.enabled => ValidNozomi(c)
  /\ "astralane" \in c.enabled => ValidAstralane(c)
  /\ "lunar" \in c.enabled => ValidLunar(c)
  /\ "circular" \in c.enabled => ValidCircular(c)
  /\ "erpc" \in c.enabled => ValidErpc(c)
  /\ "beam" \in c.enabled => ValidBeam(c)
  /\ "zero" \in c.enabled => ValidZero(c)
  /\ "quic" \in c.enabled => ValidQuic(c)
  /\ "jet" \in c.enabled => ValidJet(c)

ValidJitoTip(c) ==
  c.mode \in UsesTip["jito"] /\ Tip(c, "jito") > 0 => Has(c, "jito", {"account"})

\* The lanes a mode cannot do without.
BaseNeeds ==
  [mixed |-> {}, rpc_only |-> {}, jito_only |-> {},
   fast |-> {"helius", "nozomi"},
   turbo |-> {"helius", "nozomi", "astralane", "lunar", "zero", "jet"},
   helius_sender_only |-> {"helius"}, helius_sender_max |-> {"helius"}]

StackNeeds ==
  [nozomi_only |-> {"nozomi"}, helius_nozomi_stack |-> {"helius", "nozomi"},
   astralane_only |-> {"astralane"}, helius_astralane_stack |-> {"helius", "astralane"},
   helius_nozomi_astralane_stack |-> {"helius", "nozomi", "astralane"},
   helius_nozomi_astralane_lunar_stack |-> {"helius", "nozomi", "astralane", "lunar"}]

LanderNeeds ==
  [lunar_lander_only |-> {"lunar"}, helius_lunar_lander_stack |-> {"helius", "lunar"},
   circular_fast_only |-> {"circular"}, helius_circular_fast_stack |-> {"helius", "circular"},
   erpc_swqos_only |-> {"erpc"}, helius_erpc_swqos_stack |-> {"helius", "erpc"},
   beam_only |-> {"beam"}, helius_beam_stack |-> {"helius", "beam"},
   helius_nozomi_beam_stack |-> {"helius", "nozomi", "beam"}]

TpuNeeds ==
  [zero_slot_only |-> {"zero"}, helius_zero_slot_stack |-> {"helius", "zero"},
   helius_nozomi_zero_slot_stack |-> {"helius", "nozomi", "zero"},
   all_non_beam_stack |-> {"helius", "nozomi", "zero"},
   helius_tpu_jet |-> {"helius", "jet"}, helius_tpu_quic |-> {"helius", "quic"},
   tpu_jet_helius_tip |-> {"helius", "jet"}, tpu_quic_helius_tip |-> {"helius", "quic"},
   tpu_jet_only |-> {"jet"}, tpu_quic_only |-> {"quic"}]

Needs ==
  [mode \in Mode |->
     CASE mode \in DOMAIN BaseNeeds -> BaseNeeds[mode]
       [] mode \in DOMAIN StackNeeds -> StackNeeds[mode]
       [] mode \in DOMAIN LanderNeeds -> LanderNeeds[mode]
       [] mode \in DOMAIN TpuNeeds -> TpuNeeds[mode]]

Single == {"mixed", "rpc_only", "helius_sender_only", "helius_sender_max", "nozomi_only",
           "astralane_only", "lunar_lander_only", "circular_fast_only", "erpc_swqos_only",
           "beam_only", "zero_slot_only", "tpu_jet_only", "tpu_quic_only"}

ValidMode(c) ==
  /\ c.mode \notin Single => c.fanout
  /\ Needs[c.mode] \subseteq c.enabled
  /\ c.mode = "rpc_only" => Has(c, "rpc", {"urls"})
  /\ c.mode = "jito_only" => Has(c, "jito", {"urls"})

Accepted(c) == ValidSourceFee(c) /\ ValidLanes(c) /\ ValidJitoTip(c) /\ ValidMode(c)

Parts ==
  [lane \in Lane |->
     {"urls"} \cup (IF lane \in Tipped THEN {"account", "tip"} ELSE {})
              \cup (IF lane \in {"astralane", "lunar", "circular", "beam", "zero"} THEN {"key"} ELSE {})
              \cup (IF lane = "beam" THEN {"mode"} ELSE {})]

\* The settings the model tries: each mode with the lanes it names, one fewer or one more,
\* whole or with a flaw; each with the ways its sells go; and one with every choice of fees.
Named(mode) == Needs[mode] \cup {lane \in Enabled : mode \in UsesLane[lane]}
Sets(mode) == {Named(mode)} \cup {Named(mode) \ {lane} : lane \in Named(mode)}
                            \cup {Named(mode) \cup {lane} : lane \in Enabled}
Switched(mode, enabled, fanout, fast) ==
  [Plain EXCEPT !.mode = mode, !.enabled = enabled, !.fanout = fanout, !.fast = fast]
Flawed(mode, flaw, low, swqos) ==
  [Plain EXCEPT !.mode = mode, !.enabled = Named(mode), !.flaw = flaw, !.low = low, !.swqos = swqos]
Selling(mode, shared, sells, cap) ==
  [Plain EXCEPT !.mode = mode, !.enabled = Named(mode), !.shared = shared, !.sells = sells,
                !.cap = cap]
Priced(f, dynamic, b, a, p, m, k) ==
  [Plain EXCEPT !.mode = "helius_sender_only", !.enabled = {"helius"}, !.fee = f,
                !.dynamic = dynamic, !.baseline = b, !.aggressive = a, !.panic = p, !.max = m,
                !.multiplier = k]

Flaws(mode) == {f \in (Named(mode) \cup {"rpc", "jito"}) \X Part : f[2] \in Parts[f[1]]}
TriedModes ==
  UNION {{Switched(mode, enabled, fanout, fast) :
            enabled \in Sets(mode), fanout \in BOOLEAN, fast \in BOOLEAN} : mode \in Mode}
TriedFlaws ==
  UNION {{Flawed(mode, flaw, low, swqos) :
            flaw \in Flaws(mode), low \in 0 .. 2, swqos \in BOOLEAN} : mode \in Mode}
TriedSells ==
  {Selling(mode, shared, sells, cap) :
     mode \in Mode, shared \in BOOLEAN, sells \in {"same", "rpc", "tipless"}, cap \in {6, 100}}
TriedFees ==
  {Priced(f, dynamic, b, a, p, m, k) :
     f \in Fees, dynamic \in BOOLEAN, b \in Fees, a \in Fees, p \in Fees, m \in Fees, k \in {0, 2}}
Tried == TriedModes \cup TriedFlaws \cup TriedSells \cup TriedFees

-----------------------------------------------------------------------------
(* Fees and tips *)

\* Of two settings the first that is set.
Or(x, y) == IF x > 0 THEN x ELSE y
Capped(x, maximum) == IF maximum > 0 /\ x > maximum THEN maximum ELSE x

Baseline(c) == Or(c.baseline, c.fee)
Aggressive(c) == Or(c.aggressive, 2 * Baseline(c))
MaxFee(c) == Or(c.max, Or(c.panic, Aggressive(c)))

\* select_fee_profile_with_source: by the place of the source in its block, and by what
\* the source paid (0 if it is not known).
SelectedFee(c, early, source) ==
  LET asked == CASE c.dynamic /\ early -> Aggressive(c)
                 [] c.dynamic /\ ~ early -> Baseline(c)
                 [] OTHER -> c.fee
  IN Capped(Max({asked, c.multiplier * source}), MaxFee(c))

\* Mutant: the accounts' fee is taken as it comes.
AccountFee_Uncapped(c, selected, accounts) == Max({selected, accounts})

\* The fee the written accounts are said to need raises it, up to the same maximum.
AccountFee(c, selected, accounts) == Max({selected, Capped(accounts, MaxFee(c))})

BuyTips(c) ==
  [lane \in Tipped |->
     IF c.mode \in UsesTip[lane] /\ lane \in c.enabled \cup {"jito"} THEN Tip(c, lane) ELSE 0]

SellTips(c) ==
  [lane \in Tipped |->
     CASE lane = "jito" -> BuyTips(c)["jito"]
       [] lane = "helius" -> IF c.sells = "tipless" THEN 0 ELSE BuyTips(c)["helius"]
       [] OTHER -> 0]

\* The account of a lane's tips; two settings may name the same.
Account(c, lane) == IF c.shared THEN "shared" ELSE lane

\* fee_tip_transfers: tips to one account become one transfer of the largest.
Transfers(c, tips) ==
  [a \in {Account(c, lane) : lane \in {x \in Tipped : tips[x] > 0}} |->
     Max({tips[lane] : lane \in {x \in Tipped : Account(c, x) = a}})]

\* More in tips than maxProviderTipLamports: the buy is skipped.
TipsGuarded(c, tips) == MapThenSumSet(LAMBDA lane : tips[lane], Tipped) > c.cap

-----------------------------------------------------------------------------
(* Endpoints *)

\* A lane that is configured, and switched on if it has a switch.
Ready(c, lane) ==
  /\ c.mode \in UsesLane[lane] /\ lane \in c.enabled \cup {"rpc", "jito"}
  /\ Has(c, lane, {"urls", "key", "mode"})

RpcLanes(c) == {lane \in {"rpc"} : Ready(c, lane)}
FanoutLanes(c) == {lane \in Lane \ {"rpc"} : Ready(c, lane)}

\* Without fanout the one lane of a mode that has no other.
OnlyLane(c) == {lane \in Enabled \ {"helius"} : Ready(c, lane) /\ c.mode \in Single \ {"mixed"}}

BuyLanes(c) == RpcLanes(c) \cup (IF c.fanout THEN FanoutLanes(c) ELSE OnlyLane(c))

SellLanes(c) ==
  CASE c.sells = "rpc" -> {"rpc"}
    [] c.sells = "tipless" /\ Ready(c, "helius") /\ Has(c, "rpc", {"urls"}) -> {"rpc"}
    [] OTHER -> BuyLanes(c) \ {"jet", "quic"}

\* What an attempt can end with: a signature, a dispatch that says nothing of one, an error.
RpcEnds == {"acked", "failed"}
NozomiEnds == {"acked", "dispatched", "failed"}
CircularEnds == {"acked", "failed"}
\* A sell is posted to these two without its bytes.
AstralaneEnds == IF role = "sell" THEN {"failed"} ELSE {"acked", "failed"}
LunarEnds == IF role = "sell" THEN {"failed"} ELSE {"acked", "failed"}
JetEnds == {"dispatched", "failed"}
QuicEnds == {"dispatched", "failed"}

Ends(lane) ==
  CASE lane = "nozomi" -> NozomiEnds
    [] lane = "circular" -> CircularEnds
    [] lane = "astralane" -> AstralaneEnds
    [] lane = "lunar" -> LunarEnds
    [] lane = "jet" -> JetEnds
    [] lane = "quic" -> QuicEnds
    [] OTHER -> RpcEnds

\* The signature that is known before the transaction is sent; a sell is sent without.
Known == IF role = "buy" THEN "own" ELSE "none"

Result == [signature : {"own", "none", "error"}, winner : Lane \cup {"none"}]
Failed == [signature |-> "error", winner |-> "none"]

LanesAssumption ==
  /\ Fees \subseteq Nat /\ {0, 1} \subseteq Fees
  /\ Null \notin (Lane \X Part) \cup Result \cup Tried

-----------------------------------------------------------------------------
Init ==
  /\ config = Null /\ role = "none" /\ fee = 0 /\ transfers = <<>>
  /\ left = {} /\ outcome = <<>> /\ result = Null

Start ==
  /\ config = Null
  /\ config' \in {c \in Tried : Accepted(c)}
  /\ UNCHANGED <<role, fee, transfers, left, outcome, result>>

\* send_transaction_with: to all lanes at once, or an error if there are none.
Dispatch(kind, lanes) ==
  /\ role' = kind /\ left' = lanes /\ outcome' = <<>>
  /\ result' = IF lanes = {} THEN Failed ELSE Null

Buy ==
  /\ config # Null /\ role = "none"
  /\ ~ TipsGuarded(config, BuyTips(config))
  /\ \E early \in BOOLEAN, source \in Fees, accounts \in Fees :
       fee' = AccountFee(config, SelectedFee(config, early, source), accounts)
  /\ transfers' = Transfers(config, BuyTips(config))
  /\ Dispatch("buy", BuyLanes(config))
  /\ UNCHANGED config

Sell ==
  /\ config # Null /\ role = "none"
  /\ fee' = config.fee
  /\ transfers' = Transfers(config, SellTips(config))
  /\ Dispatch("sell", SellLanes(config))
  /\ UNCHANGED config

Answered(lane, end) ==
  [l \in DOMAIN outcome \cup {lane} |-> IF l = lane THEN end ELSE outcome[l]]

\* Mutant: of the lanes without an answer the last one speaks for all.
Answer_LastSpeaks(lane) ==
  /\ lane \in left /\ left' = left \ {lane}
  /\ \E end \in Ends(lane) :
       /\ outcome' = Answered(lane, end)
       /\ result' =
            CASE result = Null /\ end = "acked" -> [signature |-> "own", winner |-> lane]
              [] result = Null /\ end # "acked" /\ left' = {} ->
                   IF end = "dispatched" THEN [signature |-> Known, winner |-> "none"] ELSE Failed
              [] OTHER -> result
  /\ UNCHANGED <<config, role, fee, transfers>>

\* The first answer with a signature is the result while the other lanes go on; if none
\* has one, the signature of a dispatch is.
Answer(lane) ==
  /\ lane \in left /\ left' = left \ {lane}
  /\ \E end \in Ends(lane) :
       /\ outcome' = Answered(lane, end)
       /\ result' =
            CASE result = Null /\ end = "acked" -> [signature |-> "own", winner |-> lane]
              [] result = Null /\ end # "acked" /\ left' = {} ->
                   IF \E l \in DOMAIN outcome' : outcome'[l] = "dispatched"
                   THEN [signature |-> Known, winner |-> "none"] ELSE Failed
              [] OTHER -> result
  /\ UNCHANGED <<config, role, fee, transfers>>

\* All lanes have answered: their attribution is written.
Attributed ==
  /\ role # "none" /\ left = {}
  /\ role' = "none" /\ fee' = 0 /\ transfers' = <<>> /\ outcome' = <<>> /\ result' = Null
  /\ UNCHANGED <<config, left>>

Next == Start \/ Buy \/ Sell \/ (\E lane \in Lane : Answer(lane)) \/ Attributed

Spec == Init /\ [][Next]_vars

-----------------------------------------------------------------------------
(* Properties *)

TypeOK ==
  /\ config \in Settings \cup {Null}
  /\ role \in {"none", "buy", "sell"} /\ fee \in Nat
  /\ DOMAIN transfers \subseteq Tipped \cup {"shared"}
  /\ left \subseteq Lane /\ DOMAIN outcome \subseteq Lane \ left
  /\ result \in Result \cup {Null}

\* The least tip of a lane; its endpoint drops what pays less.
Demands(c, lane) == CASE lane = "helius" -> HeliusMinTip(c)
                    [] lane = "jito" -> 0
                    [] OTHER -> 3

\* Under any settings the start accepts (executor.rs 1724-1765), a buy goes to a lane in
\* every mode but mixed; each lane it goes to gets its tip and, where it asks for one, a
\* priority fee, which stays under the configured maximum whatever source and accounts
\* ask; and the result is an error only if no lane took the buy.
BuysPayTheirLanes ==
  role = "buy" =>
    LET sent == left \cup DOMAIN outcome
    IN /\ config.mode # "mixed" => sent # {}
       /\ \A lane \in (sent \cap Tipped) \ {"jito"} :
            /\ Account(config, lane) \in DOMAIN transfers
            /\ transfers[Account(config, lane)] >= Demands(config, lane)
       /\ sent \cap {"helius", "nozomi", "astralane", "circular"} # {} => fee > 0
       /\ config.max > 0 => fee <= config.max
       /\ result # Null =>
            IF result.signature = "error" THEN left = {} /\ \A lane \in sent : outcome[lane] = "failed"
            ELSE result.signature = "own"

-----------------------------------------------------------------------------
(* The inductive invariant *)

\* What a buy under way has sent, paid and heard.
Sent == left \cup DOMAIN outcome
BuyInv ==
  /\ Sent = BuyLanes(config) /\ transfers = Transfers(config, BuyTips(config))
  /\ \E early \in BOOLEAN, source \in Fees, accounts \in Fees :
       fee = AccountFee(config, SelectedFee(config, early, source), accounts)
  /\ result = Null => \A lane \in DOMAIN outcome : outcome[lane] \in {"dispatched", "failed"}
  /\ result # Null =>
       IF result.signature = "error" THEN left = {} /\ \A lane \in Sent : outcome[lane] = "failed"
       ELSE result.signature = "own"

LanesInv ==
  /\ config # Null => config \in Tried /\ Accepted(config)
  /\ role # "none" => config # Null
  /\ role = "buy" => BuyInv
=============================================================================
