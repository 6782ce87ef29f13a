SPECIFICATION Spec
CONSTANTS
  Provider = {gpt, claude}
  Desks = {regime, options}
  Regime = regime
  Team = {t1, t2}
  Council = {c1, c2, c3}
  Cards <- MCCards
  MinModels = 1
  MinTeam = 1
  MinCouncil = 2
  Unheard = Unheard
  Lost = Lost
  None = None
INVARIANTS CouncilReadsTheCard
PROPERTIES VerdictIsPlurality TeamNeverOverstates
