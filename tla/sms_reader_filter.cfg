SPECIFICATION ReaderSpec
CONSTANTS
  a1 = a1  a2 = a2  bank = bank  mobile = mobile  r1 = r1  r2 = r2
  Accounts = {a1, a2}
  Senders = {bank, mobile}
  Mobiles = {mobile}
  RunIds = {r1, r2}
  Null = Null
INVARIANT NothingIsLost
