CONSTANTS
  ann = ann
  ops = ops
  ga = ga
  gh = gh
  b1 = b1
  c1 = c1
  c2 = c2
  l1 = l1
  l2 = l2
  t1 = t1
  t2 = t2
  a1 = a1
  w = w
  Emails = {ann, ops}
  Identities = {ga, gh}
  ProviderOf <- MCProviderOf
  MailsOf <- MCMailsOf
  Lists <- MCLists
  LinkPage = 1
  Founder = ops
  Browsers = {w}
  Logins = {l1, l2}
  Calls = {c1, c2}
  MaxEvents = 3
  Grants = {t1, t2}
  Boxes = {b1}
  OwnerOf <- MCOwnerOf
  TokenMax = 1
  Bearers = {a1}
  Window = w
SPECIFICATION AccessSpec
INVARIANTS ReviewsAreAudited TokenCapHolds LateIsRefused SecretsAreShown
SYMMETRY Alike
CHECK_DEADLOCK FALSE
