\* Payments and documents, one form, one call that fails.
SPECIFICATION Spec
CONSTANTS
  Items = {a, b}
  Calls = {c1, c2}
  None = None
  Starts <- RepeatStarts
  Chosen = {"SENT", "VIEWED", "REJECTED", "APPROVED", "WON", "OFFER", "AVAILABLE", "CANCELLED",
            "DELIVERED", "DONE"}
  MaxLogins = 1
  MaxWishes = 1
  MaxUnseen = 1
  MaxVersion = 1
  MaxLost = 1
INVARIANT RepeatsCreateOnce
