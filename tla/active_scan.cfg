SPECIFICATION FairSpec
CONSTANTS
  Domains = {"own", "other"}
  Labels = {"www", "api", "git"}
  Libs = {"jquery"}
  NoLib = "none"
  Inputs <- MCInputs
  Pages <- MCPages
  Certs <- MCCerts
  Payloads <- MCPayloads
  Wordlist <- MCWordlist
  MaxCandidates = 3
INVARIANTS
  OnlyOwnedHostsAsked
  WordlistSurvives
  ResultHangsTogether
PROPERTIES
  EndsUnlessBodyHangs
CHECK_DEADLOCK FALSE
