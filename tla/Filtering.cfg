SPECIFICATION FilterSpec
CONSTANTS
  Domains <- McDomains
  Strip <- McStrip
  Suffixes <- McSuffixes
  TextRank <- McRank
  Urls = {1, 2}
  Versions <- McVersions
  ListIds = {1, 2}
  RuleIds = {1}
  RewriteIds = {1}
  Rules <- McRules
  Rewrites <- McRewrites
  Blocking = TRUE
  Admins = {w}
  MaxEvents = 4
INVARIANT EntriesOwn
PROPERTY FilterConverges
CHECK_DEADLOCK FALSE
