SPECIFICATION FairSpec
CONSTANTS
  share = share  block = block  foreign = foreign  h1 = h1  h2 = h2
  Nonce = {share, block}
  BlockNonce = {block}
  Body = {1}
  Other = {foreign}
  Handler = {h1, h2}
  Level = 1
  Maturity = 2
  SeenCap = 1
  EasyHeights = {3}
  MaxHeight = 3
  Budgets <- MCBudgets
INVARIANTS TypeOK CreditedOncePerRun SentIsHeld HeldUntilBuried
PROPERTIES BlockNeverShed HoldsReleased
