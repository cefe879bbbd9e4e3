\* One event of any kind, two deliveries of it at a time, a request and faults.
SPECIFICATION FairSpec
CONSTANTS
  Events = {e1}
  Payloads <- MCPayloads
  Slots = {s1, s2}
  OwnerContacts <- Both
  Drafts <- MCDrafts
  Existing <- MCDrafts
  Preferences <- MCPreferences
  Nothing = Nothing
  MaxRequests = 1
  MaxFaults = 1
INVARIANTS EveryChannelLogged MeteredIsSent CodeIsAnswered
PROPERTIES EventIsHandled
CHECK_DEADLOCK FALSE
