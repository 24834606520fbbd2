CONSTANTS
  Periods <- SomePeriods
  MaxLate = 5
  MaxChanges = 4
  Tasks = {t1, t2}
SPECIFICATION OsSpec
INVARIANTS PeriodInForce NothingAfterStop ArgOwned
PROPERTY Fires
