SPECIFICATION FairSpec
CONSTANTS
  Documents <- MCDocuments
  Depth <- MCDepth
  Spelled <- MCSpelled
  Charts <- MCCharts
  Skills <- MCSkills
  Developed <- MCDeveloped
  ChartOf <- MCChartOf
  Option <- MCOption
  Servers <- MCServers
INVARIANTS GeneratedBuilds SetupConnects InstancesDoNotClash
PROPERTY RequestsAnswered
