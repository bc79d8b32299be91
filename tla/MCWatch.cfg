SPECIFICATION FairWatchSpec
CONSTANTS
  satisfied = satisfied
  Statuses = {satisfied}
  MaxChanges = 2
  MaxJournal = 3
INVARIANTS WatchTypeOK EachOnce ReportedBeforeShown StartedFirst
PROPERTIES ShownEventually
