-------------------------- MODULE ServiceContracts --------------------------
(***************************************************************************)
(* Five small contracts beside the tables: the treasury for protocol fees, *)
(* the list of tokens that buy-ins may use, the players' avatars, the      *)
(* hands whose rank has been proved, and the points for rake, which are    *)
(* spent on discounts or on tokens of the contract's account.  Each is a   *)
(* part with its own initial state; what an account may do, it does when   *)
(* it signs.                                                               *)
(***************************************************************************)
EXTENDS Integers, FiniteSets, SequencesExt

CONSTANTS
  Accounts,
  Amounts, MaxFunds,   \* of the fee token; bound on what there is of it
  Fees,                \* rates somebody may ask for, in basis points
  Tokens, Decimals,    \* currencies, and the decimals each reports of itself
  Minimums,            \* that may be asked of a token
  MaxApproved,         \* collections approved for avatars at a time
  Deals, Claims,       \* claims of a rank: [category, mucked, committed, length]
  Recorders,           \* callers besides the admin who may record rake
  Rakes, Spendings,    \* what one call may record, and what it may ask to spend
  Configs,             \* of the points: [rate, price, cost, most]
  Thresholds,          \* of the tiers: four numbers of points
  Funds,               \* tokens of the contract's account
  MaxPoints            \* bound on the points of one player

VARIABLE books

None      == "none"
MaxFeeBps == 500

-----------------------------------------------------------------------------
(* The treasury.  "held" is what the token contract says it has; tokens may also be
   sent to it past its own operations. *)
TreasuryInit ==
  \E a \in Accounts :
    books = [admin |-> a, fee |-> 0, balance |-> 0, in |-> 0, out |-> 0, held |-> 0]

ComputeFee(gross) == IF gross <= 0 THEN 0 ELSE (gross * books.fee) \div 10000

SetFeeBps(a, fee) ==
  /\ a = books.admin /\ fee <= MaxFeeBps
  /\ books' = [books EXCEPT !.fee = fee]

TreasuryDeposit(amount) ==
  /\ amount > 0 /\ books.held + amount <= MaxFunds /\ books.in + amount <= MaxFunds
  /\ books' = [books EXCEPT !.balance = @ + amount, !.in = @ + amount, !.held = @ + amount]

(* Also to its own account. *)
TreasuryWithdraw(a, amount, toItself) ==
  /\ a = books.admin /\ amount > 0 /\ amount <= books.balance
  /\ books' = [books EXCEPT !.balance = @ - amount, !.out = @ + amount,
                            !.held = IF toItself THEN @ ELSE @ - amount]

SendToTreasury(amount) ==
  /\ books.held + amount <= MaxFunds
  /\ books' = [books EXCEPT !.held = @ + amount]

TreasuryNext ==
  \/ \E a \in Accounts :
       \/ \E fee \in Fees : SetFeeBps(a, fee)
       \/ \E n \in Amounts, own \in BOOLEAN : TreasuryWithdraw(a, n, own)
  \/ \E n \in Amounts : TreasuryDeposit(n) \/ SendToTreasury(n)

-----------------------------------------------------------------------------
(* The tokens accepted for buy-ins: a record of each, and the list of all. *)
NoToken == [enabled |-> FALSE, min |-> -1]

TokensInit ==
  \E a \in Accounts :
    books = [admin |-> a, info |-> [x \in Tokens |-> NoToken], all |-> <<>>]

AddToken(a, x, min) ==
  /\ a = books.admin /\ books.info[x] = NoToken /\ Decimals[x] >= min
  /\ books' = [books EXCEPT !.info[x] = [enabled |-> TRUE, min |-> min], !.all = Append(@, x)]

RemoveToken(a, x) ==
  /\ a = books.admin /\ books.info[x] # NoToken
  /\ books' = [books EXCEPT !.info[x] = NoToken, !.all = SelectSeq(@, LAMBDA y : y # x)]

SetTokenEnabled(a, x, yes) ==
  /\ a = books.admin /\ books.info[x] # NoToken
  /\ books' = [books EXCEPT !.info[x].enabled = yes]

IsAllowed(x)  == books.info[x].enabled
ListEnabled   == SelectSeq(books.all, IsAllowed)

(* The verifier of hands asks for the new admin's signature as well. *)
TransferAdmin(a, b) == a = books.admin /\ books' = [books EXCEPT !.admin = b]

TokensNext ==
  \E a \in Accounts :
    \/ \E x \in Tokens :
         \/ \E min \in Minimums : AddToken(a, x, min)
         \/ RemoveToken(a, x) \/ \E yes \in BOOLEAN : SetTokenEnabled(a, x, yes)
    \/ \E b \in Accounts : TransferAdmin(a, b)

-----------------------------------------------------------------------------
(* Avatars: a drawing, or a token of a collection that is approved at the time; a
   collection may lose its approval later.  "was" keeps what was ever approved. *)
Drawing == "drawing"

AvatarsInit ==
  \E a \in Accounts :
    books = [admin |-> a, paused |-> FALSE, approved |-> <<>>, was |-> {},
             avatar |-> [p \in Accounts |-> None]]

AvatarsPaused(a, yes) == a = books.admin /\ books' = [books EXCEPT !.paused = yes]

ApproveNft(a, x) ==
  /\ a = books.admin /\ ~books.paused
  /\ ~Contains(books.approved, x) /\ Len(books.approved) < MaxApproved
  /\ books' = [books EXCEPT !.approved = Append(@, x), !.was = @ \union {x}]

RevokeNft(a, x) ==
  /\ a = books.admin
  /\ books' = [books EXCEPT !.approved = SelectSeq(@, LAMBDA y : y # x)]

(* Also to none at all. *)
SetSvgAvatar(p, kind) == ~books.paused /\ books' = [books EXCEPT !.avatar[p] = kind]

SetNftAvatar(p, x) ==
  /\ ~books.paused /\ Contains(books.approved, x)
  /\ books' = [books EXCEPT !.avatar[p] = x]

AvatarsNext ==
  \E a \in Accounts :
    \/ \E yes \in BOOLEAN : AvatarsPaused(a, yes)
    \/ \E x \in Tokens : ApproveNft(a, x) \/ RevokeNft(a, x) \/ SetNftAvatar(a, x)
    \/ \E kind \in {None, Drawing} : SetSvgAvatar(a, kind)

-----------------------------------------------------------------------------
(* Hands whose rank was proved, one record for each player and hand. *)
NoClaim == [category |-> -1, mucked |-> FALSE, committed |-> FALSE, length |-> 0]

ClaimsInit ==
  \E a \in Accounts :
    books = [admin |-> a, paused |-> FALSE, answer |-> <<>>,
             record |-> [h \in Accounts \X Deals |-> NoClaim]]

(* initialize takes an address for the verifier, and verify_zk_proof_internal asks
   only for commitments and the length of the proof. *)
ProofAccepted(claim) == claim.committed /\ claim.length >= 64

(* One claim of a batch, on the records as the claims before it left them; what is
   wrong with it otherwise than its proof undoes the whole batch. *)
MayClaim(record, entry) ==
  /\ entry.claim.category \in 0 .. 9 /\ entry.claim.length >= 32
  /\ record[entry.of] = NoClaim

AfterClaim(record, entry) ==
  IF ProofAccepted(entry.claim) THEN [record EXCEPT ![entry.of] = entry.claim] ELSE record

AfterClaims(record, batch) == FoldLeft(AfterClaim, record, batch)

BatchVerifyClaims(batch) ==
  /\ batch # <<>> /\ ~books.paused
  /\ \A i \in DOMAIN batch :
       MayClaim(AfterClaims(books.record, SubSeq(batch, 1, i - 1)), batch[i])
  /\ books' = [books EXCEPT !.record = AfterClaims(@, batch),
                            !.answer = [i \in DOMAIN batch |-> ProofAccepted(batch[i].claim)]]

VerifyHandClaim(entry) == BatchVerifyClaims(<<entry>>)

ClaimsPaused(a, yes) == a = books.admin /\ books' = [books EXCEPT !.paused = yes]

Entries == [of : Accounts \X Deals, claim : Claims]

ClaimsNext ==
  \/ \E e \in Entries : VerifyHandClaim(e) \/ \E f \in Entries : BatchVerifyClaims(<<e, f>>)
  \/ \E a \in Accounts :
       \/ \E yes \in BOOLEAN : ClaimsPaused(a, yes)
       \/ \E b \in Accounts : TransferAdmin(a, b)

-----------------------------------------------------------------------------
(* Points for the rake a player has paid. *)
NoPoints == [points |-> 0, lifetime |-> 0, redeemed |-> 0, paid |-> 0, tier |-> 0, discount |-> 0]

RewardsInit ==
  \E c \in Configs, th \in Thresholds, token \in BOOLEAN :
    books = [player    |-> [p \in Accounts |-> NoPoints],
             config    |-> c,
             tiers     |-> th,
             token     |-> token,                    \* is a reward token configured?
             account   |-> Funds,
             out       |-> [p \in Accounts |-> 0],    \* tokens paid to each player
             recorders |-> {"admin"},
             paused    |-> FALSE]

(* calculate_tier, Bronze to Diamond. *)
TierOf(points) ==
  CHOOSE n \in 0 .. 4 : /\ n > 0 => points >= books.tiers[n]
                        /\ \A higher \in (n + 1) .. 4 : points < books.tiers[higher]

RecordRake(c, p, amount) ==
  LET earned == amount * books.config.rate
      r      == books.player[p]
  IN  /\ ~books.paused /\ c \in books.recorders
      /\ r.lifetime + earned <= MaxPoints
      /\ books' = [books EXCEPT !.player[p] =
           [r EXCEPT !.points = r.points + earned, !.lifetime = r.lifetime + earned,
                     !.paid = r.paid + amount, !.tier = TierOf(r.lifetime + earned)]]

(* What is spent is a multiple of the price; the rest of the points asked for stays. *)
Spent(r, units, price) == [r EXCEPT !.points = @ - units * price, !.redeemed = @ + units * price]

RedeemForDiscount(p, points) ==
  LET units    == points \div books.config.cost
      discount == books.player[p].discount + units * 100
  IN  /\ ~books.paused /\ points <= books.player[p].points
      /\ units > 0 /\ discount <= books.config.most
      /\ books' = [books EXCEPT !.player[p] =
           [Spent(@, units, books.config.cost) EXCEPT !.discount = discount]]

(* Mutant: every point asked for is booked as redeemed. *)
RedeemForTokens_AllBooked(p, points) ==
  LET units == points \div books.config.price
  IN  /\ ~books.paused /\ books.token /\ points <= books.player[p].points
      /\ units > 0 /\ units <= books.account
      /\ books' = [books EXCEPT !.player[p].points = @ - units * books.config.price,
                               !.player[p].redeemed = @ + points,
                               !.account = @ - units, !.out[p] = @ + units]

RedeemForTokens(p, points) ==
  LET units == points \div books.config.price
  IN  /\ ~books.paused /\ books.token /\ points <= books.player[p].points
      /\ units > 0 /\ units <= books.account
      /\ books' = [books EXCEPT !.player[p] = Spent(@, units, books.config.price),
                               !.account = @ - units, !.out[p] = @ + units]

ConsumeDiscount(c, p) ==
  /\ ~books.paused /\ c \in books.recorders
  /\ books' = [books EXCEPT !.player[p].discount = 0]

SetConfig(c)         == books' = [books EXCEPT !.config = c]
SetTierThresholds(t) == books' = [books EXCEPT !.tiers = t]
SetRewardToken(yes)  == books' = [books EXCEPT !.token = yes]
RewardsPaused(yes)   == books' = [books EXCEPT !.paused = yes]

(* transfer_admin moves neither the old admin's right to record nor gives the
   new one it, so it changes nothing that is kept here. *)
SetAuthorizedRecorder(r, yes) ==
  books' = [books EXCEPT !.recorders = IF yes THEN @ \union {r} ELSE @ \ {r}]

Reporters == Recorders \union {"admin"}

RewardsNext ==
  \/ \E p \in Accounts :
       \/ \E c \in Reporters :
            ConsumeDiscount(c, p) \/ \E a \in Rakes : RecordRake(c, p, a)
       \/ \E n \in Spendings : RedeemForDiscount(p, n) \/ RedeemForTokens(p, n)
  \/ \E c \in Configs : SetConfig(c)
  \/ \E th \in Thresholds : SetTierThresholds(th)
  \/ \E yes \in BOOLEAN :
       \/ SetRewardToken(yes) \/ RewardsPaused(yes)
       \/ \E r \in Reporters : SetAuthorizedRecorder(r, yes)

-----------------------------------------------------------------------------
(* The treasury's books agree with each other and never promise more than it has,
   wherever tokens come from or go; no fee is more than a twentieth. *)
TreasuryCovered ==
  /\ books.balance = books.in - books.out /\ books.balance \in 0 .. books.held
  /\ \A gross \in 1 .. 40 : 20 * ComputeFee(gross) <= gross

(* The list of tokens has each recorded token once, and the tokens allowed are those
   listed as enabled, none with fewer decimals than asked of it. *)
ListedOnce ==
  /\ IsInjective(books.all) /\ Range(books.all) = {x \in Tokens : books.info[x] # NoToken}
  /\ Range(ListEnabled) = {x \in Tokens : IsAllowed(x)}
  /\ \A x \in Tokens : Decimals[x] >= books.info[x].min

(* Approved collections are kept once each and within the limit, and whoever shows a
   token shows one of a collection that was approved at some time. *)
AvatarsApproved ==
  /\ IsInjective(books.approved) /\ Len(books.approved) <= MaxApproved
  /\ \A p \in Accounts : books.avatar[p] \in {None, Drawing} \union books.was

(* A recorded rank is never replaced or lost, and a batch makes one record for each
   claim that it says it accepted, with the commitments of its hand, or none. *)
RecordsStay ==
  LET made == {h \in Accounts \X Deals : books'.record[h] # books.record[h]} IN
  /\ \A h \in made : books.record[h] = NoClaim /\ books'.record[h].committed
  /\ made # {} =>
       /\ ~books.paused
       /\ Cardinality(made) = Cardinality({i \in DOMAIN books'.answer : books'.answer[i]})

(* Every point earned is spendable or was redeemed, and what was redeemed pays
   for the tokens that have left at the lowest price there ever was. *)
PointsAccounted ==
  LET cheapest == CHOOSE c \in Configs : \A d \in Configs : c.price <= d.price
  IN  \A p \in Accounts :
        LET r == books.player[p] IN
        /\ r.points + r.redeemed = r.lifetime
        /\ r.redeemed >= cheapest.price * books.out[p]
=============================================================================
