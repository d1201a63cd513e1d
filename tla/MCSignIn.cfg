\* Two threads of each kind, two accounts, two channels.
SPECIFICATION FullSpec
CONSTANTS
  t1 = t1  t2 = t2  r1 = r1  r2 = r2
  github = github  google = google  prod = prod  dev = dev
  avatar = avatar  history = history  nick1 = nick1  nick2 = nick2  unnamed = unnamed
  None = None
  Providers = {github, google}
  Channels = {prod, dev}
  Linkers = {t1, t2}
  Registrars = {r1, r2}
  Flags = {avatar, history}
  Nicknames = {nick1, nick2}
  Unnamed = unnamed
  Users <- AllUsers
CHECK_DEADLOCK FALSE
INVARIANTS ServerKnows ShownIsStored
PROPERTIES IdentitiesKept SessionsEnd UntouchedKept
