SPECIFICATION Spec
CONSTANTS
  Common = {"find_records", "create_records", "get_table_details", "get_hint"}
  Optional = {"get_table_details", "get_hint"}
  Writers = {"create_records"}
  None = none
  Answers <- MCAnswers
  Providers = {"parts", "whole"}
  MaxIterations = 3
  MaxTroubles = 2
INVARIANTS CallsAnswered CallsSettled
PROPERTIES KeepsPromises
CHECK_DEADLOCK FALSE
