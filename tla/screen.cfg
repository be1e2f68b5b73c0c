\* Every kind of page, with two calls at a time.
SPECIFICATION Spec
CONSTANTS
  Items = {a, b}
  Calls = {c1, c2}
  None = None
  Starts <- MCStarts
  Chosen = {"SENT", "VIEWED", "REJECTED", "APPROVED", "WON", "OFFER", "AVAILABLE", "CANCELLED",
            "DELIVERED", "DONE"}
  MaxLogins = 2
  MaxWishes = 1
  MaxUnseen = 1
  MaxVersion = 2
  MaxLost = 1
INVARIANTS
  TypeOK
  MovesFromWhatWasShown
  OfferStands
  OneRowPerPress
  ShownIsSelected
  TokenIsUsers
PROPERTIES
  OnlyOldCallsEndASession
  SpinnerEnds
