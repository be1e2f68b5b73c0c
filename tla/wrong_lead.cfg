\* The quotes of a lead, one form, nothing going wrong.
SPECIFICATION Spec
CONSTANTS
  Items = {a, b}
  Calls = {c1, c2}
  None = None
  Starts <- QuoteStarts
  Chosen = {"SENT", "VIEWED", "REJECTED", "APPROVED", "WON", "OFFER", "AVAILABLE", "CANCELLED",
            "DELIVERED", "DONE"}
  MaxLogins = 1
  MaxWishes = 1
  MaxUnseen = 1
  MaxVersion = 1
  MaxLost = 0
PROPERTY QuoteGoesToSelectedLead
